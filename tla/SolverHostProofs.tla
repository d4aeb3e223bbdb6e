-------------------------- MODULE SolverHostProofs --------------------------
(***************************************************************************)
(* Theorems of SolverHost, for any number of calls, daemons and faults of  *)
(* any kind: type correctness; which daemons are alive; no request to one  *)
(* that is not ready; and the refinement of SolveCalls.                    *)
(***************************************************************************)
EXTENDS SolverHost, SequenceTheorems, FiniteSetTheorems, TLAPS

-----------------------------------------------------------------------------
(* Facts about the list of daemons. *)

LEMMA KindsCounted ==
  ASSUME NEW kinds \in SUBSET FaultKinds
  PROVE  Cardinality(kinds) \in Nat
<1>1. IsFiniteSet({"exit"}) BY FS_Singleton
<1>2. IsFiniteSet({"exit"} \cup {"hang"}) BY <1>1, FS_AddElement
<1>3. IsFiniteSet(({"exit"} \cup {"hang"}) \cup {"wedge"}) BY <1>2, FS_AddElement
<1>4. IsFiniteSet((({"exit"} \cup {"hang"}) \cup {"wedge"}) \cup {"slow"})
  BY <1>3, FS_AddElement
<1>5. IsFiniteSet(((({"exit"} \cup {"hang"}) \cup {"wedge"}) \cup {"slow"})
                  \cup {"stuck"})
  BY <1>4, FS_AddElement
<1>6. IsFiniteSet((((({"exit"} \cup {"hang"}) \cup {"wedge"}) \cup {"slow"})
                   \cup {"stuck"}) \cup {"missing"})
  BY <1>5, FS_AddElement
<1>7. FaultKinds = (((({"exit"} \cup {"hang"}) \cup {"wedge"}) \cup {"slow"})
                    \cup {"stuck"}) \cup {"missing"}
  BY Zenon DEF FaultKinds
<1>8. IsFiniteSet(FaultKinds) BY <1>6, <1>7
<1>9. IsFiniteSet(kinds) BY <1>8, FS_Subset
<1>. QED BY <1>9, FS_CardinalityType

\* Whatever happens is counted and stays within the bound.
LEMMA FaultsCounted ==
  ASSUME TypeOK, NEW kinds, Happens(kinds)
  PROVE  faults' \in 0..MaxFaults
<1>1. kinds \in SUBSET FaultKinds BY HostAssumption DEF Happens
<1>2. Cardinality(kinds) \in Nat BY <1>1, KindsCounted
<1>. QED BY <1>2, HostAssumption DEF Happens, TypeOK

LEMMA ProcsFacts ==
  ASSUME procs \in Seq(Daemon)
  PROVE  /\ Len(procs) \in Nat
         /\ DOMAIN procs = 1..Len(procs)
         /\ \A p \in DOMAIN procs : procs[p] \in Daemon
<1>1. Len(procs) \in Nat /\ DOMAIN procs = 1..Len(procs) BY LenProperties
<1>. QED BY <1>1, ElementOfSeq

LEMMA DaemonFields ==
  ASSUME NEW d \in Daemon
  PROVE  /\ d.life \in {"init", "hung", "up", "stuck", "gone"}
         /\ d.stderr \in {"quiet", "written", "read"}
         /\ d.request \in Calls \cup {NoCall}
         /\ d.answer \in Calls \cup {NoCall}
         /\ d = [life |-> d.life, stderr |-> d.stderr, request |-> d.request,
                 answer |-> d.answer]
BY DEF Daemon

\* One daemon changes.
LEMMA OneChanges ==
  ASSUME procs \in Seq(Daemon), NEW p \in DOMAIN procs, NEW d \in Daemon,
         procs' = [procs EXCEPT ![p] = d]
  PROVE  /\ procs' \in Seq(Daemon)
         /\ Len(procs') = Len(procs)
         /\ DOMAIN procs' = DOMAIN procs
         /\ procs'[p] = d
         /\ \A q \in DOMAIN procs : q # p => procs'[q] = procs[q]
<1>1. p \in 1..Len(procs) BY ProcsFacts
<1>2. procs' \in Seq(Daemon) /\ Len(procs') = Len(procs) BY <1>1, ExceptSeq
<1>3. DOMAIN procs' = DOMAIN procs BY <1>2, LenProperties
<1>. QED BY <1>2, <1>3

\* The fields of a changed daemon, one by one.
LEMMA FieldChanges ==
  ASSUME NEW d \in Daemon
  PROVE  /\ \A life \in {"init", "hung", "up", "stuck", "gone"} :
              [d EXCEPT !.life = life] \in Daemon
         /\ [d EXCEPT !.stderr = "read"] \in Daemon
         /\ [d EXCEPT !.life = "up", !.stderr = "written"] \in Daemon
         /\ [d EXCEPT !.answer = NoCall] \in Daemon
         /\ [d EXCEPT !.answer = d.request, !.request = NoCall] \in Daemon
         /\ \A c \in Calls \cup {NoCall} : [d EXCEPT !.request = c] \in Daemon
BY DEF Daemon

LEMMA NewIsDaemon == NewDaemon \in Daemon
BY DEF NewDaemon, Daemon

LEMMA OneMore ==
  ASSUME procs \in Seq(Daemon), procs' = Append(procs, NewDaemon)
  PROVE  /\ procs' \in Seq(Daemon)
         /\ Len(procs') = Len(procs) + 1
         /\ DOMAIN procs' = DOMAIN procs \cup {Len(procs')}
         /\ procs'[Len(procs')] = NewDaemon
         /\ \A q \in DOMAIN procs : procs'[q] = procs[q]
<1>1. /\ procs' \in Seq(Daemon) /\ Len(procs') = Len(procs) + 1
      /\ procs'[Len(procs) + 1] = NewDaemon
      /\ \A q \in 1..Len(procs) : procs'[q] = procs[q]
  BY NewIsDaemon, AppendProperties
<1>2. DOMAIN procs' = 1..Len(procs') /\ DOMAIN procs = 1..Len(procs)
      /\ Len(procs) \in Nat
  BY <1>1, LenProperties
<1>. QED BY <1>1, <1>2

\* Neither over nor killed.
Unkilled(p) == procs[p].life \in {"init", "hung", "up"}

\* The daemon of self.proc has not been killed.
Spared == proc # 0 => procs[proc].life # "stuck"

LEMMA AliveSpared ==
  ASSUME TypeOK, Spared, proc # 0
  PROVE  Alive(proc) <=> Unkilled(proc)
<1>1. proc \in DOMAIN procs BY ProcsFacts DEF TypeOK
<1>2. procs[proc].life \in {"init", "hung", "up", "stuck", "gone"}
  BY <1>1, ProcsFacts, DaemonFields DEF TypeOK
<1>. QED BY <1>2 DEF Alive, Unkilled, Spared

\* terminate, wait, kill, wait: the current daemon is over or killed, if it was not.
LEMMA Stopped ==
  ASSUME TypeOK, Spared, NEW kinds, StopProc(kinds)
  PROVE  /\ faults' \in 0..MaxFaults
         /\ proc' = 0
         /\ procs' \in Seq(Daemon)
         /\ DOMAIN procs' = DOMAIN procs
         /\ \A q \in DOMAIN procs :
              /\ procs'[q] = procs[q] \/ (q = proc /\ ~Unkilled(q)')
              /\ q = proc => ~Unkilled(q)'
<1>1. procs \in Seq(Daemon) /\ proc \in 0..Len(procs) BY DEF TypeOK
<1>2. proc' = 0 BY DEF StopProc
<1>3. faults' \in 0..MaxFaults BY FaultsCounted DEF StopProc
<1>4. CASE procs' = procs /\ (proc = 0 \/ ~Unkilled(proc))
  <2>1. \A q \in DOMAIN procs : q # 0 BY <1>1, ProcsFacts
  <2>. QED BY <1>1, <1>2, <1>3, <1>4, <2>1 DEF Unkilled
<1>5. ASSUME proc # 0, NEW life \in {"gone", "stuck"},
             procs' = [procs EXCEPT ![proc].life = life]
      PROVE  /\ procs' \in Seq(Daemon)
             /\ DOMAIN procs' = DOMAIN procs
             /\ \A q \in DOMAIN procs :
                  /\ procs'[q] = procs[q] \/ (q = proc /\ ~Unkilled(q)')
                  /\ q = proc => ~Unkilled(q)'
  <2>1. proc \in DOMAIN procs BY <1>1, <1>5, ProcsFacts
  <2>2. procs[proc] \in Daemon BY <1>1, <2>1, ProcsFacts
  <2>. DEFINE d == [procs[proc] EXCEPT !.life = life]
  <2>3. d \in Daemon /\ d.life = life
    <3>1. life \in {"init", "hung", "up", "stuck", "gone"} BY <1>5
    <3>2. d \in Daemon BY <2>2, <3>1, FieldChanges
    <3>3. d.life = life BY <2>2 DEF Daemon
    <3>. QED BY <3>2, <3>3
  <2>4. procs' = [procs EXCEPT ![proc] = d] BY <1>5
  <2>. HIDE DEF d
  <2>5. /\ procs' \in Seq(Daemon) /\ DOMAIN procs' = DOMAIN procs
        /\ procs'[proc] = d
        /\ \A q \in DOMAIN procs : q # proc => procs'[q] = procs[q]
    BY <1>1, <2>1, <2>3, <2>4, OneChanges
  <2>6. \A q \in DOMAIN procs : q = proc => ~Unkilled(q)' BY <2>3, <2>5 DEF Unkilled
  <2>. QED BY <2>5, <2>6
<1>6. \/ procs' = procs /\ (proc = 0 \/ ~Unkilled(proc))
      \/ proc # 0 /\ procs' = [procs EXCEPT ![proc].life = "gone"]
      \/ proc # 0 /\ procs' = [procs EXCEPT ![proc].life = "stuck"]
  BY AliveSpared DEF StopProc
<1>. QED BY <1>2, <1>3, <1>4, <1>5, <1>6

-----------------------------------------------------------------------------
(* The inductive invariant. *)

\* self.proc is the daemon started last.
Newest == proc # 0 => proc = Len(procs)

\* Between two starts the event of the current daemon stays set.
ReadyOnceStarted == proc # 0 /\ pc \in {"idle", "write", "read"} => ready

\* The only daemon neither over nor killed is the one in self.proc, ...
OnlyProc == \A p \in DOMAIN procs : Unkilled(p) => p = proc

\* ... and there is none when one is about to be started.
NoneAtStart == pc = "start" => \A p \in DOMAIN procs : ~Unkilled(p)

\* A daemon that sets up its GPU has said nothing.
QuietInSetUp ==
  \A p \in DOMAIN procs : procs[p].life = "init" => procs[p].stderr = "quiet"

\* The event is set by the reader of the current daemon, or by a late one.
Heard == ready /\ proc # 0 => procs[proc].stderr = "read" \/ late

\* What the current daemon holds is the request, or the answer, of the call under
\* way, never both, and nothing while no answer is awaited.
OwnRequest ==
  proc # 0 =>
    /\ procs[proc].request \in {NoCall, call}
    /\ procs[proc].answer \in {NoCall, call}
    /\ procs[proc].request = NoCall \/ procs[proc].answer = NoCall
    /\ pc # "read" => procs[proc].request = NoCall /\ procs[proc].answer = NoCall

HostInv ==
  /\ Newest
  /\ Spared
  /\ OnlyProc
  /\ ReadyOnceStarted
  /\ NoneAtStart
  /\ QuietInSetUp
  /\ Heard
  /\ OwnRequest

LEMMA HostInit == Init => TypeOK /\ HostInv
<1>. SUFFICES ASSUME Init PROVE TypeOK /\ HostInv OBVIOUS
<1>1. procs \in Seq(Daemon) /\ Len(procs) = 0 /\ DOMAIN procs = {}
  BY EmptySeq DEF Init
<1>a. installed \in BOOLEAN BY Zenon DEF Init
<1>b. ready \in BOOLEAN /\ mayFallBack \in BOOLEAN /\ late \in BOOLEAN
  BY Zenon DEF Init
<1>c. faults \in 0..MaxFaults /\ proc \in 0..Len(procs)
  BY <1>1, HostAssumption DEF Init
<1>2. TypeOK BY <1>1, <1>a, <1>b, <1>c DEF Init, TypeOK, PCs
<1>. QED
  BY <1>1, <1>2 DEF Init, HostInv, Newest, Spared, OnlyProc, ReadyOnceStarted, NoneAtStart,
                    QuietInSetUp, Heard, OwnRequest

\* With no current daemon most of the invariant is void.
LEMMA NoDaemonInv ==
  ASSUME TypeOK, HostInv, proc' = 0, DOMAIN procs' = DOMAIN procs,
         \A q \in DOMAIN procs : ~Unkilled(q)'
  PROVE  HostInv'
<1>1. OnlyProc' /\ NoneAtStart' BY DEF OnlyProc, NoneAtStart
<1>2. QuietInSetUp' BY DEF QuietInSetUp, Unkilled
<1>. QED BY <1>1, <1>2 DEF HostInv, Newest, Spared, ReadyOnceStarted, Heard, OwnRequest

-----------------------------------------------------------------------------
(* One step per action: the types and the invariant. *)

LEMMA DaemonStep ==
  ASSUME TypeOK, HostInv, NEW p \in DOMAIN procs,
         Reading(p) \/ Fails(p)
  PROVE  TypeOK' /\ HostInv'
<1>. DEFINE old == procs[p]
<1>1. /\ procs \in Seq(Daemon) /\ old \in Daemon /\ proc \in 0..Len(procs)
      /\ p \in 1..Len(procs)
  BY ProcsFacts DEF TypeOK
<1>. DEFINE Changed(d) ==
       /\ d \in Daemon
       /\ procs' = [procs EXCEPT ![p] = d]
       /\ d.life \in {"init", "hung", "up"} => old.life \in {"init", "hung", "up"}
       /\ d.life = "init" => d.stderr = "quiet"
       /\ d.life = "stuck" => old.life = "stuck"
       /\ \/ d.request = old.request /\ d.answer = old.answer
          \/ old.request # NoCall /\ d.answer = old.request /\ d.request = NoCall
\* A daemon changes; the owner waits.
<1>2. ASSUME NEW d, Changed(d), UNCHANGED ownerVars,
             faults' \in 0..MaxFaults, installed' \in BOOLEAN, ready' \in BOOLEAN,
             late' \in BOOLEAN,
             ready => ready',
             ready' /\ proc = p => d.stderr = "read" \/ late',
             ready' /\ proc # 0 /\ proc # p => procs[proc].stderr = "read" \/ late'
      PROVE  TypeOK' /\ HostInv'
  <2>1. /\ procs' \in Seq(Daemon) /\ Len(procs') = Len(procs)
        /\ DOMAIN procs' = DOMAIN procs /\ procs'[p] = d
        /\ \A q \in DOMAIN procs : q # p => procs'[q] = procs[q]
    BY <1>1, <1>2, OneChanges
  <2>. HIDE DEF Changed
  <2>2. TypeOK' BY <1>2, <2>1, Zenon DEF TypeOK, ownerVars
  <2>. USE DEF Changed
  <2>3. Newest' BY <1>2, <2>1 DEF HostInv, Newest, ownerVars
  <2>12. Spared'
    <3>1. proc' = proc BY <1>2 DEF ownerVars
    <3>2. proc # 0 => proc \in DOMAIN procs BY <1>1, ProcsFacts
    <3>3. CASE proc = p BY <1>2, <2>1, <3>1, <3>2, <3>3 DEF HostInv, Spared
    <3>4. CASE proc # p BY <2>1, <3>1, <3>2, <3>4 DEF HostInv, Spared
    <3>. QED BY <3>3, <3>4
  <2>4. \A q \in DOMAIN procs : Unkilled(q)' => Unkilled(q)
    BY <1>2, <2>1 DEF Unkilled
  <2>5. OnlyProc' /\ NoneAtStart'
    BY <1>2, <2>1, <2>4 DEF HostInv, OnlyProc, NoneAtStart, ownerVars
  <2>6. QuietInSetUp' BY <1>2, <2>1 DEF HostInv, QuietInSetUp
  <2>7. ReadyOnceStarted'
    BY <1>2, Zenon DEF HostInv, ReadyOnceStarted, ownerVars
  <2>8. proc' = proc /\ pc' = pc /\ call' = call BY <1>2 DEF ownerVars
  <2>9. proc # 0 => proc \in DOMAIN procs BY <1>1, ProcsFacts
  <2>10. Heard'
    <3>. SUFFICES ASSUME ready', proc # 0
                  PROVE procs'[proc].stderr = "read" \/ late'
      BY <2>8, Zenon DEF Heard
    <3>1. CASE proc = p BY <1>2, <2>1, <3>1
    <3>2. CASE proc # p
      <4>1. procs'[proc] = procs[proc] BY <2>1, <2>9, <3>2
      <4>. QED BY <1>2, <3>2, <4>1, Zenon
    <3>. QED BY <3>1, <3>2
  <2>11. OwnRequest'
    <3>1. CASE proc = p /\ pc = "read"
      BY <1>2, <2>1, <2>8, <3>1 DEF HostInv, OwnRequest
    <3>2. CASE proc = p /\ pc # "read"
      BY <1>2, <2>1, <2>8, <3>2 DEF HostInv, OwnRequest
    <3>3. CASE proc # p
      BY <2>1, <2>8, <2>9, <3>3 DEF HostInv, OwnRequest
    <3>. QED BY <3>1, <3>2, <3>3
  <2>. QED
    BY <2>2, <2>3, <2>5, <2>6, <2>7, <2>10, <2>11, <2>12 DEF HostInv
<1>. HIDE DEF old
<1>3. /\ installed \in BOOLEAN /\ ready \in BOOLEAN /\ late \in BOOLEAN
      /\ faults \in 0..MaxFaults
  BY DEF TypeOK
<1>4. /\ ready /\ proc # 0 => procs[proc].stderr = "read" \/ late
      /\ old.life = "init" => old.stderr = "quiet"
  BY Zenon DEF HostInv, Heard, QuietInSetUp, old
<1>5. CASE SayReady(p)
  <2>. DEFINE d == [old EXCEPT !.life = "up", !.stderr = "written"]
  <2>1. procs' = [procs EXCEPT ![p] = d] BY <1>5 DEF SayReady, old
  <2>2. d \in Daemon BY <1>1, FieldChanges
  <2>3. /\ d.life = "up" /\ d.request = old.request /\ d.answer = old.answer
        /\ old.life = "init" /\ old.stderr = "quiet"
    BY <1>1, <1>4, <1>5 DEF SayReady, old, Daemon
  <2>. HIDE DEF d
  <2>4. Changed(d) BY <2>1, <2>2, <2>3
  <2>5. ready' = ready /\ late' = late /\ installed' = installed
        /\ faults' = faults /\ UNCHANGED ownerVars
    BY <1>5 DEF SayReady
  <2>6. ready /\ proc = p => late
    <3>1. ~(old.stderr = "read") BY <2>3
    <3>2. p # 0 BY <1>1
    <3>. QED BY <1>4, <3>1, <3>2, Zenon DEF old
  <2>. QED BY <1>2, <1>3, <1>4, <2>4, <2>5, <2>6, Zenon
<1>6. CASE DrainStderr(p)
  <2>. DEFINE d == [old EXCEPT !.stderr = "read"]
  <2>1. procs' = [procs EXCEPT ![p] = d] BY <1>6 DEF DrainStderr, old
  <2>2. d \in Daemon BY <1>1, FieldChanges
  <2>3. /\ d.life = old.life /\ d.request = old.request /\ d.answer = old.answer
        /\ d.stderr = "read" /\ old.stderr = "written"
    BY <1>1, <1>6 DEF DrainStderr, Unread, old, Daemon
  <2>. HIDE DEF d
  <2>4. Changed(d) BY <1>4, <2>1, <2>2, <2>3
  <2>5. ready' = TRUE /\ late' = (late \/ p # Len(procs)) /\ installed' = installed
        /\ faults' = faults /\ UNCHANGED ownerVars
    BY <1>6 DEF DrainStderr
  <2>6. proc # 0 => proc = Len(procs) BY DEF HostInv, Newest
  <2>7. proc # 0 /\ proc # p => late' BY <2>5, <2>6, Zenon
  <2>8. ready' \in BOOLEAN /\ late' \in BOOLEAN /\ (ready => ready')
    BY <1>3, <2>5, Zenon
  <2>. QED BY <1>2, <1>3, <2>3, <2>4, <2>5, <2>7, <2>8, Zenon
<1>7. CASE Serve(p)
  <2>. DEFINE d == [old EXCEPT !.answer = old.request, !.request = NoCall]
  <2>1. procs' = [procs EXCEPT ![p] = d] BY <1>7 DEF Serve, old
  <2>2. d \in Daemon BY <1>1, FieldChanges
  <2>3. /\ d.life = old.life /\ d.stderr = old.stderr /\ old.request # NoCall
        /\ d.answer = old.request /\ d.request = NoCall
    BY <1>1, <1>7 DEF Serve, old, Daemon
  <2>. HIDE DEF d
  <2>4. Changed(d) BY <1>4, <2>1, <2>2, <2>3
  <2>5. ready' = ready /\ late' = late /\ installed' = installed
        /\ faults' = faults /\ UNCHANGED ownerVars
    BY <1>7 DEF Serve
  <2>6. ready /\ proc = p => d.stderr = "read" \/ late
    <3>1. p # 0 BY <1>1
    <3>. QED BY <1>4, <2>3, <3>1, Zenon DEF old
  <2>. QED BY <1>2, <1>3, <1>4, <2>4, <2>5, <2>6, Zenon
<1>8. CASE Fails(p)
  <2>1. PICK life \in {"hung", "gone"} :
          /\ procs' = [procs EXCEPT ![p].life = life]
          /\ life = "hung" => old.life \in {"init", "up"}
    BY <1>8 DEF Fails, Hang, Wedge, Exit, Dies, old
  <2>. DEFINE d == [old EXCEPT !.life = life]
  <2>2. procs' = [procs EXCEPT ![p] = d] BY <2>1 DEF old
  <2>3. d \in Daemon BY <1>1, FieldChanges
  <2>4. /\ d.life = life /\ d.stderr = old.stderr
        /\ d.answer = old.answer /\ d.request = old.request
    BY <1>1 DEF Daemon
  <2>. HIDE DEF d
  <2>5. Changed(d) BY <2>1, <2>2, <2>3, <2>4
  <2>6. ready' = ready /\ late' = late /\ installed' = installed
        /\ UNCHANGED ownerVars
    BY <1>8 DEF Fails, Hang, Wedge, Exit, Dies
  <2>7. faults' \in 0..MaxFaults
    BY <1>3, <1>8, FaultsCounted DEF Fails, Hang, Wedge, Exit, Dies, Fault
  <2>8. ready /\ proc = p => d.stderr = "read" \/ late
    <3>1. p # 0 BY <1>1
    <3>. QED BY <1>4, <2>4, <3>1, Zenon DEF old
  <2>. QED BY <1>2, <1>3, <1>4, <2>5, <2>6, <2>7, <2>8, Zenon
<1>. QED BY <1>5, <1>6, <1>7, <1>8 DEF Reading

\* The owner moves and no daemon does: what is left to show.
LEMMA OwnerMoves ==
  ASSUME TypeOK, HostInv, UNCHANGED <<procs, ready, late>>,
         proc' \in {0, proc},
         proc' = 0 /\ proc # 0 => ~Unkilled(proc),
         proc' # 0 /\ pc' \in {"idle", "write", "read"} => ready,
         pc' = "start" => proc = 0 \/ ~Unkilled(proc),
         proc' # 0 => pc # "read" /\ pc' # "read"
  PROVE  HostInv'
<1>1. \A p \in DOMAIN procs : Unkilled(p)' = Unkilled(p) BY DEF Unkilled
<1>2. \A p \in DOMAIN procs : p # 0 BY ProcsFacts DEF TypeOK
<1>3. OnlyProc' BY <1>1, <1>2 DEF HostInv, OnlyProc
<1>4. NoneAtStart' BY <1>1, <1>2 DEF HostInv, OnlyProc, NoneAtStart
<1>5. QuietInSetUp' BY DEF HostInv, QuietInSetUp
<1>6. Newest' /\ Spared' BY DEF HostInv, Newest, Spared
<1>7. ReadyOnceStarted' BY Zenon DEF ReadyOnceStarted
<1>8. Heard'
  <2>. SUFFICES ASSUME ready', proc' # 0 PROVE procs'[proc'].stderr = "read" \/ late'
    BY Zenon DEF Heard
  <2>1. proc' = proc /\ procs' = procs /\ ready /\ (late' = late) BY Zenon
  <2>2. procs[proc].stderr = "read" \/ late BY <2>1, Zenon DEF HostInv, Heard
  <2>3. procs'[proc'] = procs[proc] BY <2>1, Zenon
  <2>4. CASE procs[proc].stderr = "read" BY <2>3, <2>4
  <2>5. CASE late
    <3>1. late' BY <2>5, Zenon
    <3>. QED BY <3>1, Zenon
  <2>. QED BY <2>2, <2>4, <2>5, Zenon
<1>9. OwnRequest'
  BY DEF HostInv, OwnRequest
<1>. QED BY <1>3, <1>4, <1>5, <1>6, <1>7, <1>8, <1>9 DEF HostInv

LEMMA ReturnTypes ==
  ASSUME TypeOK, NEW result \in Calls \cup {"error"}, Return(result)
  PROVE  /\ pc' = "idle" /\ call' = NoCall
         /\ outcome' \in Calls \cup {NoCall, "error"}
BY DEF Return, TypeOK

LEMMA GiveUpStep ==
  ASSUME TypeOK, HostInv, NEW kinds, GiveUpDaemon(kinds)
  PROVE  TypeOK' /\ HostInv'
<1>1. /\ faults' \in 0..MaxFaults /\ proc' = 0 /\ procs' \in Seq(Daemon)
      /\ DOMAIN procs' = DOMAIN procs
      /\ \A q \in DOMAIN procs :
           /\ procs'[q] = procs[q] \/ (q = proc /\ ~Unkilled(q)')
           /\ q = proc => ~Unkilled(q)'
  BY Stopped DEF GiveUpDaemon, HostInv
<1>2. \A q \in DOMAIN procs : ~Unkilled(q)'
  BY <1>1 DEF HostInv, OnlyProc, Unkilled
<1>3. HostInv' BY <1>1, <1>2, NoDaemonInv
<1>4. /\ installed' \in BOOLEAN /\ ready' \in BOOLEAN /\ late' \in BOOLEAN
      /\ mayFallBack' \in BOOLEAN
  BY Zenon DEF GiveUpDaemon, TypeOK
<1>5. /\ backend' \in {"hip", "cpu"} /\ pc' \in {"start", "idle"}
      /\ call' \in Calls \cup {NoCall} /\ outcome' \in Calls \cup {NoCall, "error"}
  BY DEF GiveUpDaemon, TypeOK, Return
<1>6. Len(procs') \in Nat BY <1>1, LenProperties
<1>7. TypeOK' BY <1>1, <1>4, <1>5, <1>6 DEF TypeOK, PCs
<1>. QED BY <1>3, <1>7

LEMMA StopStep ==
  ASSUME TypeOK, HostInv, Stop
  PROVE  TypeOK' /\ HostInv'
<1>1. /\ faults' \in 0..MaxFaults /\ proc' = 0 /\ procs' \in Seq(Daemon)
      /\ DOMAIN procs' = DOMAIN procs
      /\ \A q \in DOMAIN procs :
           /\ procs'[q] = procs[q] \/ (q = proc /\ ~Unkilled(q)')
           /\ q = proc => ~Unkilled(q)'
  BY Stopped DEF Stop, HostInv
<1>2. \A q \in DOMAIN procs : ~Unkilled(q)'
  BY <1>1 DEF HostInv, OnlyProc, Unkilled
<1>3. HostInv' BY <1>1, <1>2, NoDaemonInv
<1>4. /\ installed' \in BOOLEAN /\ ready' \in BOOLEAN /\ late' \in BOOLEAN
      /\ mayFallBack' \in BOOLEAN
  BY Zenon DEF Stop, TypeOK
<1>5. /\ backend' \in {"hip", "cpu"} /\ pc' = "stopped"
      /\ call' \in Calls \cup {NoCall} /\ outcome' \in Calls \cup {NoCall, "error"}
  BY DEF Stop, TypeOK
<1>6. Len(procs') \in Nat BY <1>1, LenProperties
<1>7. TypeOK' BY <1>1, <1>4, <1>5, <1>6 DEF TypeOK, PCs
<1>. QED BY <1>3, <1>7

LEMMA StartStep ==
  ASSUME TypeOK, HostInv, StartMissing \/ StartDaemon \/ StartSucceeds
  PROVE  TypeOK' /\ HostInv'
<1>1. CASE StartMissing
  <2>1. pc' = "idle" /\ call' = NoCall /\ outcome' \in Calls \cup {NoCall, "error"}
    BY <1>1, ReturnTypes DEF StartMissing
  <2>2. TypeOK' BY <1>1, <2>1, ProcsFacts DEF StartMissing, TypeOK, PCs
  <2>3. proc # 0 => ~Unkilled(proc)
    BY <1>1, ProcsFacts DEF StartMissing, HostInv, NoneAtStart, TypeOK
  <2>4. HostInv' BY <1>1, <2>1, <2>3, OwnerMoves DEF StartMissing
  <2>. QED BY <2>2, <2>4
<1>2. CASE StartDaemon
  <2>1. /\ procs' \in Seq(Daemon) /\ Len(procs') = Len(procs) + 1
        /\ DOMAIN procs' = DOMAIN procs \cup {Len(procs')}
        /\ procs'[Len(procs')] = NewDaemon
        /\ \A q \in DOMAIN procs : procs'[q] = procs[q]
    BY <1>2, OneMore DEF StartDaemon, TypeOK
  <2>2. /\ Len(procs) \in Nat /\ proc' = Len(procs') /\ proc' # 0 /\ pc' = "wait"
        /\ ready' = FALSE
    BY <1>2, <2>1, ProcsFacts DEF StartDaemon, ResetReady, TypeOK
  <2>3. /\ installed' \in BOOLEAN /\ ready' \in BOOLEAN /\ late' \in BOOLEAN
        /\ mayFallBack' \in BOOLEAN
    BY <1>2, <2>2, Zenon DEF StartDaemon, TypeOK
  <2>4. /\ backend' \in {"hip", "cpu"} /\ faults' \in 0..MaxFaults
        /\ call' \in Calls \cup {NoCall} /\ outcome' \in Calls \cup {NoCall, "error"}
    BY <1>2 DEF StartDaemon, TypeOK
  <2>5. TypeOK' BY <2>1, <2>2, <2>3, <2>4 DEF TypeOK, PCs
  <2>6. OnlyProc' /\ QuietInSetUp' /\ Spared'
    BY <1>2, <2>1, <2>2
    DEF StartDaemon, HostInv, Spared, OnlyProc, NoneAtStart, QuietInSetUp, Unkilled, NewDaemon
  <2>7. OwnRequest' BY <2>1, <2>2 DEF OwnRequest, NewDaemon
  <2>8. Heard' /\ ReadyOnceStarted' BY <2>2, Zenon DEF Heard, ReadyOnceStarted
  <2>9. Newest' /\ NoneAtStart' BY <2>2 DEF Newest, NoneAtStart
  <2>. QED BY <2>5, <2>6, <2>7, <2>8, <2>9 DEF HostInv
<1>3. CASE StartSucceeds
  <2>1. pc' \in {"idle", "write"} /\ (pc' = "write" => call # NoCall) /\ pc = "wait"
    BY <1>3 DEF StartSucceeds
  <2>2. TypeOK' BY <1>3, <2>1 DEF StartSucceeds, TypeOK, PCs
  <2>3. HostInv' BY <1>3, <2>1, OwnerMoves DEF StartSucceeds
  <2>. QED BY <2>2, <2>3
<1>. QED BY <1>1, <1>2, <1>3

LEMMA CallStep ==
  ASSUME TypeOK, HostInv, Ask \/ LoseDaemon
  PROVE  TypeOK' /\ HostInv'
<1>1. CASE Ask
  <2>. DEFINE usable == proc # 0 /\ Unkilled(proc) /\ ready
  <2>a. proc # 0 => (Alive(proc) <=> Unkilled(proc)) BY AliveSpared DEF HostInv
  <2>1. call' \in Calls /\ mayFallBack' = FALSE /\ pc = "idle"
    BY <1>1 DEF Ask
  <2>2. (usable /\ pc' = "write") \/ (~usable /\ pc' = "start")
    BY <1>1, <2>a DEF Ask
  <2>3. call' # NoCall BY <2>1, HostAssumption
  <2>4. mayFallBack' \in BOOLEAN /\ installed' \in BOOLEAN /\ ready' \in BOOLEAN
        /\ late' \in BOOLEAN
    BY <1>1, <2>1, Zenon DEF Ask, TypeOK
  <2>5. TypeOK' BY <1>1, <2>1, <2>2, <2>3, <2>4 DEF Ask, TypeOK, PCs
  <2>6. ~usable => proc = 0 \/ ~Unkilled(proc)
    BY <2>1, Zenon DEF HostInv, ReadyOnceStarted
  <2>7. pc' \in {"write", "start"} BY <2>2
  <2>8. proc' # 0 /\ pc' \in {"idle", "write", "read"} => ready BY <2>2
  <2>9. pc' = "start" => proc = 0 \/ ~Unkilled(proc) BY <2>2, <2>6
  <2>. HIDE DEF usable
  <2>10. HostInv'
    BY <1>1, <2>1, <2>7, <2>8, <2>9, OwnerMoves DEF Ask
  <2>. QED BY <2>5, <2>10
<1>2. CASE LoseDaemon
  <2>1. pc' = "idle" /\ call' = NoCall /\ outcome' \in Calls \cup {NoCall, "error"}
    BY <1>2, ReturnTypes DEF LoseDaemon
  <2>2. TypeOK' BY <1>2, <2>1, ProcsFacts DEF LoseDaemon, TypeOK, PCs
  <2>3. ~Unkilled(proc) BY <1>2 DEF LoseDaemon, Unkilled
  <2>4. HostInv' BY <1>2, <2>1, <2>3, OwnerMoves DEF LoseDaemon
  <2>. QED BY <2>2, <2>4
<1>. QED BY <1>1, <1>2

\* A request or an answer passes between the owner and the current daemon.
LEMMA PipeStep ==
  ASSUME TypeOK, HostInv, WriteRequest \/ ReadAnswer
  PROVE  TypeOK' /\ HostInv'
<1>. DEFINE old == procs[proc]
<1>1. pc \in {"write", "read"} BY DEF WriteRequest, ReadAnswer
<1>2. /\ proc # 0 /\ call # NoCall /\ call \in Calls /\ procs \in Seq(Daemon)
      /\ proc \in DOMAIN procs
  BY <1>1, ProcsFacts DEF TypeOK
<1>3. old \in Daemon BY <1>2, ProcsFacts
<1>4. /\ old.request \in {NoCall, call} /\ old.answer \in {NoCall, call}
      /\ old.request = NoCall \/ old.answer = NoCall
      /\ pc # "read" => old.request = NoCall /\ old.answer = NoCall
  BY <1>2 DEF HostInv, OwnRequest
<1>. HIDE DEF old
<1>5. PICK d \in Daemon :
        /\ procs' = [procs EXCEPT ![proc] = d]
        /\ d.life = old.life /\ d.stderr = old.stderr
        /\ \/ pc' = "read" /\ call' = call /\ outcome' = outcome
              /\ d.request = call /\ d.answer = NoCall
           \/ pc' = "idle" /\ call' = NoCall /\ outcome' = call
              /\ d.request = NoCall /\ d.answer = NoCall
  <2>1. CASE WriteRequest
    <3>. DEFINE e == [old EXCEPT !.request = call]
    <3>1. e \in Daemon BY <1>2, <1>3, FieldChanges
    <3>2. procs' = [procs EXCEPT ![proc] = e] BY <2>1 DEF WriteRequest, old
    <3>3. e.life = old.life /\ e.stderr = old.stderr /\ e.request = call
          /\ e.answer = old.answer
      BY <1>3 DEF Daemon
    <3>. HIDE DEF e
    <3>4. pc' = "read" /\ call' = call /\ outcome' = outcome /\ pc = "write"
      BY <2>1 DEF WriteRequest
    <3>. QED BY <1>4, <3>1, <3>2, <3>3, <3>4
  <2>2. CASE ReadAnswer
    <3>. DEFINE e == [old EXCEPT !.answer = NoCall]
    <3>1. e \in Daemon BY <1>3, FieldChanges
    <3>2. procs' = [procs EXCEPT ![proc] = e] BY <2>2 DEF ReadAnswer, old
    <3>3. e.life = old.life /\ e.stderr = old.stderr /\ e.request = old.request
          /\ e.answer = NoCall
      BY <1>3 DEF Daemon
    <3>. HIDE DEF e
    <3>4. old.answer # NoCall /\ Return(old.answer) BY <2>2 DEF ReadAnswer, old
    <3>5. old.answer = call /\ old.request = NoCall BY <1>4, <3>4
    <3>6. pc' = "idle" /\ call' = NoCall /\ outcome' = call
      BY <1>2, <3>4, <3>5 DEF Return
    <3>. QED BY <3>1, <3>2, <3>3, <3>5, <3>6
  <2>. QED BY <2>1, <2>2
<1>6. /\ procs' \in Seq(Daemon) /\ Len(procs') = Len(procs)
      /\ DOMAIN procs' = DOMAIN procs /\ procs'[proc] = d
      /\ \A q \in DOMAIN procs : q # proc => procs'[q] = procs[q]
  BY <1>2, <1>5, OneChanges
<1>7. UNCHANGED <<installed, ready, proc, backend, mayFallBack, faults, late>>
  BY Zenon DEF WriteRequest, ReadAnswer
<1>8. installed' \in BOOLEAN /\ ready' \in BOOLEAN /\ late' \in BOOLEAN
      /\ mayFallBack' \in BOOLEAN
  BY <1>7, Zenon DEF TypeOK
<1>9. /\ pc' \in {"read", "idle"} /\ (pc' = "read" => call' # NoCall)
      /\ call' \in Calls \cup {NoCall} /\ outcome' \in Calls \cup {NoCall, "error"}
  BY <1>2, <1>5 DEF TypeOK
<1>10. TypeOK' BY <1>2, <1>6, <1>7, <1>8, <1>9 DEF TypeOK, PCs
<1>11. \A q \in DOMAIN procs : procs'[q].life = procs[q].life
                                /\ procs'[q].stderr = procs[q].stderr
  BY <1>5, <1>6 DEF old
<1>12. Newest' /\ Spared' /\ OnlyProc' /\ NoneAtStart' /\ QuietInSetUp'
  BY <1>6, <1>7, <1>9, <1>11
  DEF HostInv, Newest, Spared, OnlyProc, NoneAtStart, QuietInSetUp, Unkilled
<1>13. ready BY <1>1, <1>2, Zenon DEF HostInv, ReadyOnceStarted
<1>14. ReadyOnceStarted' BY <1>7, <1>13, Zenon DEF ReadyOnceStarted
<1>15. Heard'
  <2>1. procs[proc].stderr = "read" \/ late BY <1>2, <1>13, Zenon DEF HostInv, Heard
  <2>2. procs'[proc'].stderr = procs[proc].stderr
    <3>1. proc' = proc BY <1>7, Zenon
    <3>. QED BY <1>2, <1>11, <3>1
  <2>3. CASE procs[proc].stderr = "read" BY <2>2, <2>3 DEF Heard
  <2>4. CASE late
    <3>1. late' BY <1>7, <2>4, Zenon
    <3>. QED BY <3>1, Zenon DEF Heard
  <2>. QED BY <2>1, <2>3, <2>4, Zenon
<1>16. OwnRequest'
  <2>1. proc' = proc BY <1>7, Zenon
  <2>. QED BY <1>5, <1>6, <2>1 DEF OwnRequest
<1>. QED BY <1>10, <1>12, <1>14, <1>15, <1>16 DEF HostInv

LEMMA HostStep ==
  ASSUME TypeOK, HostInv, [Next]_vars
  PROVE  TypeOK' /\ HostInv'
<1>1. CASE \E p \in DOMAIN procs : Reading(p) \/ Fails(p)
  BY <1>1, DaemonStep
<1>2. CASE StartFails \/ StartTimesOut
  BY <1>2, GiveUpStep DEF StartFails, StartTimesOut
<1>3. CASE StartMissing \/ StartDaemon \/ StartSucceeds
  BY <1>3, StartStep
<1>4. CASE Ask \/ LoseDaemon
  BY <1>4, CallStep
<1>5. CASE WriteRequest \/ ReadAnswer
  BY <1>5, PipeStep
<1>6. CASE Stop
  BY <1>6, StopStep
<1>7. CASE Reinstall
  <2>1. installed' \in BOOLEAN BY <1>7, Zenon DEF Reinstall, TypeOK
  <2>2. faults' \in 0..MaxFaults BY <1>7, FaultsCounted DEF Reinstall, Fault
  <2>3. UNCHANGED <<procs, ready, late, ownerVars>> BY <1>7, Zenon DEF Reinstall
  <2>4. TypeOK' BY <2>1, <2>2, <2>3, Zenon DEF TypeOK, ownerVars
  <2>5. HostInv'
    BY <2>3, Zenon DEF HostInv, Newest, Spared, OnlyProc, ReadyOnceStarted, NoneAtStart,
                       QuietInSetUp, Heard, OwnRequest, Unkilled, ownerVars
  <2>. QED BY <2>4, <2>5
<1>8. CASE UNCHANGED vars
  <2>1. TypeOK' BY <1>8, Zenon DEF TypeOK, vars, ownerVars
  <2>2. HostInv'
    BY <1>8, Zenon DEF HostInv, Newest, Spared, OnlyProc, ReadyOnceStarted, NoneAtStart,
                       QuietInSetUp, Heard, OwnRequest, Unkilled, vars, ownerVars
  <2>. QED BY <2>1, <2>2
<1>. QED BY <1>1, <1>2, <1>3, <1>4, <1>5, <1>6, <1>7, <1>8 DEF Next, Owner

-----------------------------------------------------------------------------
(* Theorems. *)

LEMMA HostAlways == Spec => [](TypeOK /\ HostInv)
BY HostInit, HostStep, PTL DEF Spec

\* Types, for every set of calls and any faults: a request is only written or
\* awaited with a daemon and a call under way.
THEOREM HostTypeCorrect == Spec => []TypeOK
BY HostAlways, PTL

\* No daemon but the one in self.proc is left alone: whatever ends, hangs or is slow,
\* a daemon the wrapper has forgotten is over or was killed.
THEOREM OneDaemonCorrect == Spec => []OneDaemon
<1>1. TypeOK /\ HostInv => OneDaemon
  <2>. SUFFICES ASSUME TypeOK, HostInv, NEW p \in DOMAIN procs, Alive(p),
                       procs[p].life # "stuck"
                PROVE  p = proc
    BY DEF OneDaemon
  <2>1. procs[p].life \in {"init", "hung", "up", "stuck", "gone"}
    BY ProcsFacts, DaemonFields DEF TypeOK
  <2>. QED BY <2>1 DEF HostInv, OnlyProc, Unkilled, Alive
<1>. QED BY <1>1, HostAlways, PTL

\* Nothing but a killed process that does not end within the two waits of
\* _stop_proc breaks "one HIP solver subprocess per GPU": with no such process, no
\* two daemons are alive, whatever else goes wrong.
THEOREM OnePerGpuCorrect ==
  ASSUME "stuck" \notin Faults
  PROVE  Spec => []OnePerGpu
<1>. DEFINE NoneStuck == \A p \in DOMAIN procs : procs[p].life # "stuck"
<1>1. Init => NoneStuck
  BY EmptySeq DEF Init
<1>2. TypeOK /\ NoneStuck /\ [Next]_vars => NoneStuck'
  <2>. SUFFICES ASSUME TypeOK, NoneStuck, [Next]_vars PROVE NoneStuck'
    OBVIOUS
  <2>1. ASSUME NEW p \in DOMAIN procs, NEW d, d.life # "stuck",
               procs' = [procs EXCEPT ![p] = d]
        PROVE  NoneStuck'
    BY <2>1
  <2>2. CASE UNCHANGED procs
    BY <2>2
  <2>3. ASSUME NEW kinds, StopProc(kinds) PROVE NoneStuck'
    <3>1. ~Happens(kinds \cup {"stuck"}) BY DEF Happens
    <3>2. \/ procs' = procs
          \/ proc # 0 /\ procs' = [procs EXCEPT ![proc].life = "gone"]
      <4>1. procs' = IF proc # 0 /\ Alive(proc)
                     THEN [procs EXCEPT ![proc].life = "gone"] ELSE procs
        BY <2>3, <3>1, Zenon DEF StopProc
      <4>. QED BY <4>1
    <3>3. CASE proc # 0 /\ procs' = [procs EXCEPT ![proc].life = "gone"]
      <4>1. proc \in DOMAIN procs /\ procs[proc] \in Daemon
        BY <3>3, ProcsFacts DEF TypeOK
      <4>2. [procs[proc] EXCEPT !.life = "gone"].life = "gone" BY <4>1 DEF Daemon
      <4>. QED BY <2>1, <3>3, <4>1, <4>2
    <3>. QED BY <2>2, <3>2, <3>3
  <2>4. CASE StartFails \/ StartTimesOut
    BY <2>3, <2>4 DEF StartFails, StartTimesOut, GiveUpDaemon
  <2>5. CASE Stop
    BY <2>3, <2>5 DEF Stop
  <2>6. CASE StartDaemon
    <3>1. /\ DOMAIN procs' = DOMAIN procs \cup {Len(procs')}
          /\ procs'[Len(procs')] = NewDaemon
          /\ \A q \in DOMAIN procs : procs'[q] = procs[q]
      BY <2>6, OneMore DEF StartDaemon, TypeOK
    <3>2. procs'[Len(procs')].life # "stuck" BY <3>1 DEF NewDaemon
    <3>3. \A q \in DOMAIN procs : procs'[q].life # "stuck" BY <3>1
    <3>. QED BY <3>1, <3>2, <3>3
  <2>7. CASE WriteRequest \/ ReadAnswer
    <3>1. proc \in DOMAIN procs /\ procs[proc] \in Daemon
      BY <2>7, ProcsFacts DEF WriteRequest, ReadAnswer, TypeOK
    <3>2. [procs[proc] EXCEPT !.request = call].life = procs[proc].life
          /\ [procs[proc] EXCEPT !.answer = NoCall].life = procs[proc].life
      BY <3>1 DEF Daemon
    <3>3. procs[proc].life # "stuck" BY <3>1
    <3>4. CASE WriteRequest BY <2>1, <3>1, <3>2, <3>3, <3>4 DEF WriteRequest
    <3>5. CASE ReadAnswer BY <2>1, <3>1, <3>2, <3>3, <3>5 DEF ReadAnswer
    <3>. QED BY <2>7, <3>4, <3>5
  <2>8. CASE \E p \in DOMAIN procs : Reading(p) \/ Fails(p)
    <3>1. PICK p \in DOMAIN procs : Reading(p) \/ Fails(p) BY <2>8
    <3>2. procs[p] \in Daemon BY ProcsFacts DEF TypeOK
    <3>. DEFINE old == procs[p]
    <3>3. PICK d \in {[old EXCEPT !.life = "up", !.stderr = "written"],
                      [old EXCEPT !.stderr = "read"],
                      [old EXCEPT !.answer = old.request, !.request = NoCall],
                      [old EXCEPT !.life = "hung"], [old EXCEPT !.life = "gone"]} :
            procs' = [procs EXCEPT ![p] = d]
      BY <3>1 DEF Reading, SayReady, DrainStderr, Serve, Fails, Hang, Wedge, Exit, Dies
    <3>4. d.life \in {"up", "hung", "gone", old.life}
      BY <3>2, <3>3 DEF Daemon
    <3>5. old.life # "stuck" OBVIOUS
    <3>. HIDE DEF old
    <3>. QED BY <2>1, <3>3, <3>4, <3>5
  <2>9. CASE StartMissing \/ StartSucceeds \/ Ask \/ LoseDaemon \/ Reinstall
              \/ UNCHANGED vars
    BY <2>2, <2>9 DEF StartMissing, StartSucceeds, Ask, LoseDaemon, Reinstall, vars
  <2>. QED BY <2>4, <2>5, <2>6, <2>7, <2>8, <2>9 DEF Next, Owner
<1>3. HostInv /\ TypeOK /\ NoneStuck => OnePerGpu
  <2>. SUFFICES ASSUME HostInv, TypeOK, NoneStuck, NEW p \in DOMAIN procs, Alive(p)
                PROVE  p = proc
    BY DEF OnePerGpu
  <2>1. procs[p].life \in {"init", "hung", "up", "stuck", "gone"}
    BY ProcsFacts, DaemonFields DEF TypeOK
  <2>. QED BY <2>1 DEF HostInv, OnlyProc, Unkilled, Alive
<1>. HIDE DEF NoneStuck
<1>. QED BY <1>1, <1>2, <1>3, HostAlways, PTL DEF Spec

\* A request goes to a daemon whose own ready line has been read, unless the reader
\* of an earlier daemon was late.
THEOREM VouchedCorrect == Spec => []Vouched
<1>1. TypeOK /\ HostInv => Vouched
  <2>. SUFFICES ASSUME TypeOK, HostInv, pc \in {"write", "read"}
                PROVE  procs[proc].stderr = "read" \/ late
    BY Zenon DEF Vouched
  <2>1. proc # 0 BY DEF TypeOK
  <2>2. ready BY <2>1, Zenon DEF HostInv, ReadyOnceStarted
  <2>. QED BY <2>1, <2>2, Zenon DEF HostInv, Heard
<1>. QED BY <1>1, HostAlways, PTL

\* No call is under way when no method runs.
IdleInv == pc = "idle" => call = NoCall

LEMMA IdleStep ==
  ASSUME IdleInv, [Next]_vars
  PROVE  IdleInv'
<1>. USE DEF IdleInv
<1>1. ASSUME NEW result, Return(result) PROVE IdleInv' BY <1>1 DEF Return
<1>2. CASE StartMissing \/ LoseDaemon
  BY <1>1, <1>2 DEF StartMissing, LoseDaemon
<1>3. CASE StartFails \/ StartTimesOut
  BY <1>1, <1>3 DEF StartFails, StartTimesOut, GiveUpDaemon
<1>4. CASE ReadAnswer
  BY <1>1, <1>4 DEF ReadAnswer
<1>5. CASE StartDaemon \/ StartSucceeds \/ Ask \/ WriteRequest \/ Stop
  BY <1>5 DEF StartDaemon, StartSucceeds, Ask, WriteRequest, Stop
<1>6. CASE Reinstall \/ \E p \in DOMAIN procs : Reading(p) \/ Fails(p)
  BY <1>6 DEF Reinstall, Reading, SayReady, DrainStderr, Serve, Fails, Hang, Wedge, Exit, Dies, ownerVars
<1>7. CASE UNCHANGED vars
  BY <1>7 DEF vars, ownerVars
<1>. QED BY <1>2, <1>3, <1>4, <1>5, <1>6, <1>7 DEF Next, Owner

LEMMA IdleAlways == Spec => []IdleInv
<1>1. Init => IdleInv BY DEF Init, IdleInv
<1>. QED BY <1>1, IdleStep, PTL DEF Spec

LEMMA ServiceInit == Init => Service!Init
BY DEF Init, Service!Init

LEMMA Returned ==
  ASSUME NEW result, call # NoCall, Return(result), result \in {call, "error"}
  PROVE  Service!Next
BY DEF Return, Service!Next, Service!End

LEMMA ServiceStep ==
  ASSUME TypeOK, HostInv, IdleInv, [Next]_vars
  PROVE  [Service!Next]_(Service!vars)
<1>. DEFINE Same == call' = call /\ outcome' = outcome
<1>1. Same => [Service!Next]_(Service!vars) BY DEF Service!vars
<1>2. ASSUME Return("error") PROVE [Service!Next]_(Service!vars)
  <2>1. CASE call = NoCall BY <1>1, <1>2, <2>1 DEF Return
  <2>2. CASE call # NoCall BY <1>2, <2>2, Returned
  <2>. QED BY <2>1, <2>2
<1>3. CASE Ask
  <2>1. call = NoCall BY <1>3 DEF Ask, IdleInv
  <2>. QED BY <1>3, <2>1 DEF Ask, Service!Next, Service!Begin
<1>4. CASE ReadAnswer
  <2>1. /\ call # NoCall /\ proc # 0 /\ procs[proc].answer # NoCall
        /\ Return(procs[proc].answer)
    BY <1>4 DEF ReadAnswer, TypeOK
  <2>2. procs[proc].answer = call BY <2>1 DEF HostInv, OwnRequest
  <2>3. Service!Next BY <2>1, <2>2, Returned
  <2>. QED BY <2>3
<1>5. CASE StartFails \/ StartTimesOut
  <2>1. Same \/ Return("error")
    BY <1>5 DEF StartFails, StartTimesOut, GiveUpDaemon
  <2>. QED BY <1>1, <1>2, <2>1
<1>6. CASE StartMissing \/ LoseDaemon
  BY <1>2, <1>6 DEF StartMissing, LoseDaemon
<1>7. CASE StartDaemon \/ StartSucceeds \/ WriteRequest \/ Stop \/ Reinstall
  BY <1>1, <1>7 DEF StartDaemon, StartSucceeds, WriteRequest, Stop, Reinstall, ownerVars
<1>8. CASE \E p \in DOMAIN procs : Reading(p) \/ Fails(p)
  BY <1>1, <1>8 DEF Reading, SayReady, DrainStderr, Serve, Fails, Hang, Wedge, Exit, Dies, ownerVars
<1>9. CASE UNCHANGED vars
  BY <1>1, <1>9 DEF vars, ownerVars
<1>. QED BY <1>3, <1>4, <1>5, <1>6, <1>7, <1>8, <1>9 DEF Next, Owner

\* Every call of solve ends once, with its own answer or an error: a restart never
\* hands over what was asked before it.
THEOREM OwnAnswersCorrect == Spec => OwnAnswers
BY HostAlways, IdleAlways, ServiceInit, ServiceStep, PTL DEF Spec, OwnAnswers, Service!Spec
=============================================================================

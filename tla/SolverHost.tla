----------------------------- MODULE SolverHost -----------------------------
(***************************************************************************)
(* The life of the daemons of one GBTSolveWrapper: the constructor with    *)
(* its one fallback to the CPU, restarts, the reader thread of every       *)
(* daemon's stderr with the event it sets, and the calls of solve.  The    *)
(* thread that owns the wrapper, the readers and the daemons interleave.   *)
(***************************************************************************)
EXTENDS Integers, Sequences, FiniteSets

CONSTANTS
  Calls,       \* names for calls of solve
  NoCall,      \* no call
  Faults,      \* a subset of FaultKinds
  MaxFaults    \* bound: faults in a behaviour

FaultKinds ==
  { "exit",      \* a daemon ends by itself
    "hang",      \* a daemon never gets through the count of its GPUs
    "wedge",     \* a request never ends: InitGPU, an allocation or a kernel hangs
    "slow",      \* 8 s pass before the ready event of a good daemon is set
    "stuck",     \* a killed daemon does not end within the two waits
    "missing" }  \* the solver binary is not there, or comes back

ASSUME HostAssumption ==
  /\ NoCall \notin Calls
  /\ "error" \notin Calls \cup {NoCall}
  /\ Faults \subseteq FaultKinds
  /\ MaxFaults \in Nat

VARIABLES
  installed,   \* solver_path.exists(), and Popen finds it
  procs,       \* every daemon started, in order
  proc,        \* self.proc: an index of procs, or 0 for None
  ready,       \* self._ready_event.is_set(): of the newest event
  backend,     \* self.backend
  pc,          \* where the owner of the wrapper is, see PCs
  mayFallBack, \* allow_cpu_fallback of the _start under way
  call,        \* the call of solve under way, or NoCall
  outcome,     \* what the last call returned
  faults,      \* how many of the MaxFaults have happened
  late         \* history: a reader has set the event of a later daemon

ownerVars == <<proc, backend, pc, mayFallBack, call, outcome>>
vars == <<installed, procs, ready, ownerVars, faults, late>>

PCs == { "start",    \* about to run _start
         "wait",     \* _ready_event.wait(timeout=8.0)
         "write",    \* about to write the request
         "read",     \* stdout.readline()
         "idle",     \* no method runs
         "stopped" } \* after stop

\* stderr: whether the daemon has written daemon_ready and its reader read it.
Daemon == [ life    : {"init", "hung", "up", "stuck", "gone"},
            stderr  : {"quiet", "written", "read"},
            request : Calls \cup {NoCall},
            answer  : Calls \cup {NoCall} ]

NewDaemon == [ life |-> "init", stderr |-> "quiet",
               request |-> NoCall, answer |-> NoCall ]

\* proc.poll() is None.  A killed process that has not ended is alive, too.
Alive(p) == procs[p].life # "gone"

Happens(kinds) ==
  /\ kinds \subseteq Faults
  /\ faults + Cardinality(kinds) <= MaxFaults
  /\ faults' = faults + Cardinality(kinds)

Fault(kind) == Happens({kind})

-----------------------------------------------------------------------------
(* Daemons, their stderr readers, and the file system. *)

\* The GPUs are counted and the properties of the first one read, no more; the
\* daemon writes daemon_ready and reads its stdin.  SolveGPU sets the GPU up.
SayReady(p) ==
  /\ procs[p].life = "init"
  /\ procs' = [procs EXCEPT ![p].life = "up", ![p].stderr = "written"]
  /\ UNCHANGED <<installed, ready, ownerVars, faults, late>>

Serve(p) ==
  /\ procs[p].life = "up"
  /\ procs[p].request # NoCall
  /\ procs' = [procs EXCEPT ![p].answer = procs[p].request, ![p].request = NoCall]
  /\ UNCHANGED <<installed, ready, ownerVars, faults, late>>

\* Before daemon_ready, ...
Hang(p) ==
  /\ procs[p].life = "init"
  /\ backend = "hip"
  /\ Fault("hang")
  /\ procs' = [procs EXCEPT ![p].life = "hung"]
  /\ UNCHANGED <<installed, ready, ownerVars, late>>

\* ... or with a request in hand: the first one initialises the GPU, each one
\* allocates and launches.
Wedge(p) ==
  /\ procs[p].life = "up"
  /\ procs[p].request # NoCall
  /\ backend = "hip"
  /\ Fault("wedge")
  /\ procs' = [procs EXCEPT ![p].life = "hung"]
  /\ UNCHANGED <<installed, ready, ownerVars, late>>

Exit(p) ==
  /\ procs[p].life \in {"init", "hung", "up"}
  /\ Fault("exit")
  /\ procs' = [procs EXCEPT ![p].life = "gone"]
  /\ UNCHANGED <<installed, ready, ownerVars, late>>

\* A killed daemon may end after all; nobody waits for it any more.
Dies(p) ==
  /\ procs[p].life = "stuck"
  /\ procs' = [procs EXCEPT ![p].life = "gone"]
  /\ UNCHANGED <<installed, ready, ownerVars, faults, late>>

\* Mutant: only the first daemon gets a reader.
UnreadByFirst(p) == p = 1 /\ procs[p].stderr = "written"

\* daemon_ready is written and the reader has not come to it.
Unread(p) == procs[p].stderr = "written"

\* _drain_stderr sets whatever event self._ready_event is by then.
DrainStderr(p) ==
  /\ Unread(p)
  /\ procs' = [procs EXCEPT ![p].stderr = "read"]
  /\ ready' = TRUE
  /\ late' = (late \/ p # Len(procs))
  /\ UNCHANGED <<installed, ownerVars, faults>>

Reinstall ==
  /\ Fault("missing")
  /\ installed' = ~installed
  /\ UNCHANGED <<procs, ready, ownerVars, late>>

-----------------------------------------------------------------------------
(* The owner of the wrapper. *)

\* __init__ runs _start with the fallback allowed.
Init ==
  /\ installed \in IF "missing" \in Faults THEN BOOLEAN ELSE {TRUE}
  /\ procs = <<>>
  /\ proc = 0
  /\ ready = FALSE
  /\ backend = "hip"
  /\ pc = "start"
  /\ mayFallBack = TRUE
  /\ call = NoCall
  /\ outcome = NoCall
  /\ faults = 0
  /\ late = FALSE

\* A call returns, or the constructor does: outcome is kept then.
Return(result) ==
  /\ pc' = "idle"
  /\ call' = NoCall
  /\ outcome' = IF call = NoCall THEN outcome ELSE result

\* Mutant: the daemon is forgotten, not ended.
ForgetProc(kinds) == Happens(kinds) /\ proc' = 0 /\ UNCHANGED procs

\* terminate, wait 2 s, kill, wait 2 s: the daemon ends, or it is forgotten alive.
\* kinds: the faults that have led here.
StopProc(kinds) ==
  /\ \/ /\ Happens(kinds)
        /\ procs' = IF proc # 0 /\ Alive(proc)
                    THEN [procs EXCEPT ![proc].life = "gone"] ELSE procs
     \/ /\ proc # 0 /\ Alive(proc)
        /\ Happens(kinds \cup {"stuck"})
        /\ procs' = [procs EXCEPT ![proc].life = "stuck"]
  /\ proc' = 0

\* Mutant: the event of the last daemon is kept.
KeepReady == UNCHANGED ready

\* Here an earlier daemon is None or has ended: its _stop_proc is over at once.
StartMissing ==
  /\ pc = "start"
  /\ ~installed
  /\ proc' = 0
  /\ Return("error")
  /\ UNCHANGED <<installed, procs, ready, backend, mayFallBack, faults, late>>

ResetReady == ready' = FALSE

\* Mutant: a start always leads to a request, also that of the constructor.
StartAndWrite ==
  /\ pc = "wait"
  /\ ready
  /\ pc' = "write"
  /\ UNCHANGED <<installed, procs, ready, proc, backend, mayFallBack, call,
                 outcome, faults, late>>

StartDaemon ==
  /\ pc = "start"
  /\ installed
  /\ procs' = Append(procs, NewDaemon)
  /\ proc' = Len(procs) + 1
  /\ ResetReady
  /\ pc' = "wait"
  /\ UNCHANGED <<installed, backend, mayFallBack, call, outcome, faults, late>>

StartSucceeds ==
  /\ pc = "wait"
  /\ ready
  /\ pc' = IF call = NoCall THEN "idle" ELSE "write"
  /\ UNCHANGED <<installed, procs, ready, proc, backend, mayFallBack, call,
                 outcome, faults, late>>

\* _stop_proc; then once, in the constructor, the CPU instead of HIP.
GiveUpDaemon(kinds) ==
  /\ StopProc(kinds)
  /\ IF mayFallBack /\ backend = "hip"
     THEN /\ backend' = "cpu"
          /\ mayFallBack' = FALSE
          /\ pc' = "start"
          /\ UNCHANGED <<call, outcome>>
     ELSE /\ UNCHANGED <<backend, mayFallBack>>
          /\ Return("error")
  /\ UNCHANGED <<installed, ready, late>>

\* Mutant: the wait for the event has no time-out.
StartWaits ==
  /\ pc = "wait"
  /\ ~ready
  /\ procs[proc].life = "gone"
  /\ ~Unread(proc)
  /\ GiveUpDaemon({})

\* The event is not set after 8 s: the daemon has ended, it hangs, ...
StartFails ==
  /\ pc = "wait"
  /\ ~ready
  /\ procs[proc].life \in {"gone", "hung"}
  /\ ~Unread(proc)
  /\ GiveUpDaemon({})

\* ... or it, or the reader of its stderr, is slow.
StartTimesOut ==
  /\ pc = "wait"
  /\ ~ready
  /\ procs[proc].life \in {"init", "up"}
  /\ GiveUpDaemon({"slow"})

\* solve: the checks of _ensure_running.
Ask ==
  /\ pc = "idle"
  /\ call' \in Calls
  /\ mayFallBack' = FALSE
  /\ pc' = IF proc # 0 /\ Alive(proc) /\ ready THEN "write" ELSE "start"
  /\ UNCHANGED <<installed, procs, ready, proc, backend, outcome, faults, late>>

\* Mutant: a call that takes too long gives up and keeps the daemon.
ReadOrGiveUp ==
  /\ pc = "read"
  /\ \/ /\ procs[proc].answer # NoCall
        /\ procs' = [procs EXCEPT ![proc].answer = NoCall]
        /\ Return(procs[proc].answer)
     \/ Return("error") /\ UNCHANGED procs
  /\ UNCHANGED <<installed, ready, proc, backend, mayFallBack, faults, late>>

WriteRequest ==
  /\ pc = "write"
  /\ Alive(proc)
  /\ procs' = [procs EXCEPT ![proc].request = call]
  /\ pc' = "read"
  /\ UNCHANGED <<installed, ready, proc, backend, mayFallBack, call, outcome,
                 faults, late>>

ReadAnswer ==
  /\ pc = "read"
  /\ procs[proc].answer # NoCall
  /\ procs' = [procs EXCEPT ![proc].answer = NoCall]
  /\ Return(procs[proc].answer)
  /\ UNCHANGED <<installed, ready, proc, backend, mayFallBack, faults, late>>

\* A broken pipe, or the end of stdout with no answer in it.
LoseDaemon ==
  /\ \/ pc = "write"
     \/ pc = "read" /\ procs[proc].answer = NoCall
  /\ procs[proc].life = "gone"
  /\ proc' = 0
  /\ Return("error")
  /\ UNCHANGED <<installed, procs, ready, backend, mayFallBack, faults, late>>

Stop ==
  /\ pc = "idle"
  /\ StopProc({})
  /\ pc' = "stopped"
  /\ UNCHANGED <<installed, ready, backend, mayFallBack, call, outcome, late>>

-----------------------------------------------------------------------------
Owner ==
  \/ StartMissing \/ StartDaemon \/ StartSucceeds \/ StartFails \/ StartTimesOut
  \/ Ask \/ WriteRequest \/ ReadAnswer \/ LoseDaemon \/ Stop

Reading(p) == SayReady(p) \/ DrainStderr(p) \/ Serve(p)

Fails(p) == Hang(p) \/ Wedge(p) \/ Exit(p) \/ Dies(p)

Next ==
  \/ Owner
  \/ \E p \in DOMAIN procs : Reading(p) \/ Fails(p)
  \/ Reinstall

Spec == Init /\ [][Next]_vars

\* A daemon that neither hangs nor ends gets ready, and it answers within its
\* max_seconds and one batch; its stderr has a thread of its own.  The owner's
\* waits have time-outs, but for readline, which is over only with an answer or
\* with the daemon: nothing is assumed of a daemon that is "hung".
MaxDaemons == MaxFaults + 1

FairSpec ==
  /\ Spec
  /\ WF_vars(Owner)
  /\ \A p \in 1..MaxDaemons :
       WF_vars(p \in DOMAIN procs /\ Reading(p))

-----------------------------------------------------------------------------
(* Properties. *)

TypeOK ==
  /\ installed \in BOOLEAN
  /\ procs \in Seq(Daemon)
  /\ proc \in 0..Len(procs)
  /\ ready \in BOOLEAN
  /\ backend \in {"hip", "cpu"}
  /\ pc \in PCs
  /\ mayFallBack \in BOOLEAN
  /\ call \in Calls \cup {NoCall}
  /\ outcome \in Calls \cup {NoCall, "error"}
  /\ faults \in 0..MaxFaults
  /\ late \in BOOLEAN
  /\ pc \in {"wait", "write", "read"} => proc # 0
  /\ pc \in {"write", "read"} => call # NoCall

\* No daemon is forgotten and left alone: one that self.proc does not name has
\* ended or has been killed.  A killed one may go on to hold the GPU: see OnePerGpu.
OneDaemon ==
  \A p \in DOMAIN procs : Alive(p) => p = proc \/ procs[p].life = "stuck"

\* "One HIP solver subprocess per GPU" (gbt_solve_wrapper.py:355): no two daemons
\* are alive.  _stop_proc does not wait for that.
OnePerGpu ==
  \A p, q \in DOMAIN procs : Alive(p) /\ Alive(q) => p = q

\* A request goes to a daemon that has said it is ready, unless the reader of an
\* earlier daemon was late and set the event of this one.
Vouched ==
  pc \in {"write", "read"} => procs[proc].stderr = "read" \/ late

\* solve ends with the answer to its own request or with an error, once.
Service == INSTANCE SolveCalls WITH call <- call, outcome <- outcome

OwnAnswers == Service!Spec

\* readline waits for a daemon that will not answer: it has no time-out.
Blocked == pc = "read" /\ procs[proc].life = "hung"

\* solve does end, also when a daemon hangs before daemon_ready: the ready event
\* keeps requests from it, and the wait for it is bounded.  It does not end if the
\* daemon hangs with the request in hand and never ends.
CallsEnd == (call # NoCall) ~> (call = NoCall \/ late \/ []Blocked)

\* After the last fault the wrapper answers again: but for that one read, no state
\* of it is one that a further call does not get out of.
Recovers ==
  <>[](installed /\ pc # "stopped") =>
    []<>(outcome \in Calls) \/ <>late \/ <>[]Blocked
=============================================================================

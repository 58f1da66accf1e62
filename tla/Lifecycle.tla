------------------------------ MODULE Lifecycle ------------------------------
(***************************************************************************)
(* Boot, worker admission and shutdown of the Ori runtime: ori_rt_init,    *)
(* ori_rt_shutdown_ex, try_spawn_named with its ActiveWorkerGuard, and the *)
(* stack guard (stack_guard.rs) that attaches a signal stack to every      *)
(* thread that runs Ori code.                                              *)
(*                                                                         *)
(* One host thread boots and stops the runtime.  Foreign threads attach    *)
(* and detach.  Workers are the threads the runtime starts; the ones in    *)
(* Joined (timer, reactor) are persistent and joined, the others (task     *)
(* jobs, I/O workers) are not.  A step is one critical section or one      *)
(* atomic access.  ori_rt_init holds the lifecycle mutex over all of its   *)
(* steps, install() of the stack guard included.                           *)
(***************************************************************************)
EXTENDS Integers, FiniteSets

CONSTANTS Host, Foreign, Workers,
          Joined,     \* the persistent workers
          Ordered     \* does the host keep the documented call order?

Threads == {Host} \cup Foreign \cup Workers

ASSUME LifecycleAssumption ==
  /\ IsFiniteSet(Workers) /\ IsFiniteSet(Foreign) /\ Joined \subseteq Workers
  /\ Host \notin Foreign \cup Workers /\ Foreign \cap Workers = {}
  /\ Ordered \in BOOLEAN

VARIABLES lifecycle,  \* RUNTIME_LIFECYCLE
          flag,       \* RUNTIME_SHUTTING_DOWN
          active,     \* ACTIVE_WORKERS
          initCount,  \* RT_INIT_COUNT
          installed,  \* PROCESS_INSTALLED
          attached,   \* threads whose THREAD_SIGNAL_STACK is set
          pc, was,    \* where each thread is; install()'s was_installed
          booted,     \* the host's last ori_rt_init returned 0
          result      \* what its last ori_rt_shutdown_ex returned

vars == <<lifecycle, flag, active, initCount, installed, attached, pc, was,
          booted, result>>
runtime == <<lifecycle, flag, active, initCount>>
guard   == <<installed, attached, was>>
host    == <<booted, result>>

Installing == {"install", "handler", "attach"}
Stopping == {"stop", "wait", "join", "check", "finish"}
Live == {"admitted", "running"} \cup Installing   \* its ActiveWorkerGuard exists

TypeOK ==
  /\ lifecycle \in {"Stopped", "Running", "Stopping"}
  /\ flag \in BOOLEAN /\ active \in Nat /\ initCount \in {0, 1}
  /\ installed \in BOOLEAN /\ attached \subseteq Threads
  /\ was \in [Threads -> BOOLEAN]
  /\ booted \in BOOLEAN /\ result \in {"none", "ok", "busy"}
  /\ pc \in [Threads -> {"idle", "out", "in", "none", "exiting"} \cup Stopping \cup Live]
  /\ pc[Host] \in {"idle"} \cup Stopping \cup Installing
  /\ \A f \in Foreign : pc[f] \in {"out", "in"} \cup Installing
  /\ \A w \in Workers : pc[w] \in {"none", "exiting"} \cup Live

(* The library's constructor has run install() on the thread that loaded   *)
(* it, and may have failed.                                                *)
Init ==
  /\ lifecycle = "Stopped" /\ flag = FALSE /\ active = 0 /\ initCount = 0
  /\ installed \in BOOLEAN
  /\ attached = IF installed THEN {Host} ELSE {}
  /\ was = [t \in Threads |-> FALSE]
  /\ pc = [t \in Threads |-> IF t = Host THEN "idle"
                             ELSE IF t \in Foreign THEN "out" ELSE "none"]
  /\ booted = FALSE /\ result = "none"

Goto(t, l) == pc' = [pc EXCEPT ![t] = l]

LifecycleFree == pc[Host] \notin Installing

-----------------------------------------------------------------------------
(* stack_guard::install() on thread t, and what its caller does next. *)

Installed(t, ok) ==
  \/ /\ t = Host /\ Goto(t, "idle")
     /\ lifecycle' = IF ok THEN "Running" ELSE "Stopped"
     /\ initCount' = IF ok THEN 1 ELSE 0
     /\ booted' = ok
     /\ UNCHANGED <<flag, active, result>>
  \/ /\ t \in Foreign /\ Goto(t, IF ok THEN "in" ELSE "out")
     /\ UNCHANGED <<runtime, host>>
  \/ t \in Workers /\ Goto(t, "running") /\ UNCHANGED <<runtime, host>>

ReadInstalled(t) ==
  /\ pc[t] = "install"
  /\ was' = [was EXCEPT ![t] = installed]
  /\ Goto(t, "handler")
  /\ UNCHANGED <<runtime, installed, attached, host>>

(* Under PROCESS_INSTALL_LOCK; sigaction may fail. *)
InstallHandler(t) ==
  /\ pc[t] = "handler"
  /\ \/ /\ installed' = TRUE /\ Goto(t, "attach") /\ UNCHANGED <<runtime, host>>
     \/ ~installed /\ Installed(t, FALSE) /\ UNCHANGED installed
  /\ UNCHANGED <<attached, was>>

KeepsHandler(t) == IF was[t] THEN installed ELSE FALSE

(* attach_current_thread; mmap or sigaltstack may fail, and then install() *)
(* removes the handler again unless it was there before.                   *)
AttachThread(t) ==
  /\ pc[t] = "attach"
  /\ \/ attached' = attached \cup {t} /\ Installed(t, TRUE) /\ UNCHANGED installed
     \/ /\ t \notin attached
        /\ installed' = KeepsHandler(t)
        /\ Installed(t, FALSE) /\ UNCHANGED attached
  /\ UNCHANGED was

-----------------------------------------------------------------------------
(* The host. *)

RtInit ==
  /\ pc[Host] = "idle" /\ lifecycle = "Stopped"
  /\ lifecycle' = "Stopping" /\ initCount' = 1 /\ flag' = FALSE
  /\ result' = "none"
  /\ Goto(Host, "install")
  /\ UNCHANGED <<active, booted, guard>>

(* Already running: 0 at once.  (While stopping it returns -1 and changes  *)
(* nothing.)                                                               *)
RtInitAgain ==
  /\ pc[Host] = "idle" /\ lifecycle = "Running"
  /\ booted' = TRUE /\ result' = "none"
  /\ UNCHANGED <<runtime, guard, pc>>

(* In order: after a successful ori_rt_init, and while no foreign thread   *)
(* is inside ori_rt_thread_attach.                                         *)
RtShutdown ==
  /\ pc[Host] = "idle"
  /\ Ordered => booted /\ \A f \in Foreign : pc[f] \notin Installing
  /\ IF initCount = 0
       THEN result' = "ok" /\ booted' = FALSE /\ UNCHANGED pc
       ELSE Goto(Host, "stop") /\ result' = "none" /\ UNCHANGED booted
  /\ UNCHANGED <<runtime, guard>>

(* stop_runtime_workers; waking the workers and draining the queues is the *)
(* subject of Timers and IoPool.                                           *)
Stop ==
  /\ pc[Host] = "stop"
  /\ IF lifecycle = "Stopped"
       THEN Goto(Host, "check") /\ UNCHANGED <<lifecycle, flag>>
       ELSE Goto(Host, "wait") /\ lifecycle' = "Stopping" /\ flag' = TRUE
  /\ UNCHANGED <<active, initCount, guard, host>>

MutWaitOnce == TRUE
AllStopped == active = 0

WaitActive ==
  /\ pc[Host] = "wait"
  /\ \/ AllStopped /\ Goto(Host, "join") /\ UNCHANGED result
     \/ active # 0 /\ Goto(Host, "idle") /\ result' = "busy"   \* the deadline passed
  /\ UNCHANGED <<runtime, guard, booted>>

JoinWorkers ==
  /\ pc[Host] = "join" /\ \A w \in Joined : pc[w] = "none"
  /\ Goto(Host, "check")
  /\ UNCHANGED <<runtime, guard, host>>

CanUninstall == attached \ {Host} = {}

CheckAttached ==
  /\ pc[Host] = "check"
  /\ IF CanUninstall
       THEN /\ Goto(Host, "finish") /\ UNCHANGED result
            /\ installed' = FALSE /\ attached' = attached \ {Host}
       ELSE /\ Goto(Host, "idle") /\ result' = "busy"
            /\ UNCHANGED <<installed, attached>>
  /\ UNCHANGED <<runtime, was, booted>>

Finish ==
  /\ pc[Host] = "finish"
  /\ lifecycle' = "Stopped" /\ initCount' = 0
  /\ result' = "ok" /\ booted' = FALSE
  /\ Goto(Host, "idle")
  /\ UNCHANGED <<flag, active, guard>>

-----------------------------------------------------------------------------
(* Workers. *)

MutAdmitAlways == FALSE
Rejects == lifecycle = "Stopping" \/ flag

(* Somebody runs Ori code and can start a worker: in order, after          *)
(* ori_rt_init; a standalone program needs none.                           *)
Entered ==
  \/ booted \/ \E w \in Workers : pc[w] = "running"
  \/ ~Ordered /\ result # "ok"

(* try_spawn_named: check, transition and increment under one mutex. *)
Admit(w) ==
  /\ pc[w] = "none" /\ LifecycleFree /\ Entered /\ ~Rejects
  /\ lifecycle' = "Running" /\ active' = active + 1
  /\ flag' = IF lifecycle = "Stopped" THEN FALSE ELSE flag
  /\ Goto(w, "admitted")
  /\ UNCHANGED <<initCount, guard, host>>

Less(n) == IF n = 0 THEN 0 ELSE n - 1   \* saturating_sub(1)

MutKeepCount == active
AfterFailedSpawn == Less(active)

OsSpawn(w) ==
  /\ pc[w] = "admitted"
  /\ \/ Goto(w, "install") /\ UNCHANGED active
     \/ Goto(w, "none") /\ active' = AfterFailedSpawn
  /\ UNCHANGED <<lifecycle, flag, initCount, guard, host>>

(* The closure returns and drops its ActiveWorkerGuard; a persistent one   *)
(* only does when it sees the flag.                                        *)
WorkerReturns(w) ==
  /\ pc[w] = "running" /\ (w \in Joined => flag)
  /\ active' = Less(active)
  /\ Goto(w, "exiting")
  /\ UNCHANGED <<lifecycle, flag, initCount, guard, host>>

(* TLS teardown drops the signal stack after the closure has returned. *)
WorkerGone(w) ==
  /\ pc[w] = "exiting"
  /\ attached' = attached \ {w}
  /\ Goto(w, "none")
  /\ UNCHANGED <<runtime, installed, was, host>>

-----------------------------------------------------------------------------
(* Foreign threads. *)

(* ori_rt_thread_attach checks the lifecycle, unlocks, then installs. *)
Attach(f) ==
  /\ pc[f] = "out" /\ LifecycleFree /\ Entered /\ lifecycle # "Stopping"
  /\ Ordered => pc[Host] = "idle"
  /\ Goto(f, "install")
  /\ UNCHANGED <<runtime, guard, host>>

Detach(f) ==
  /\ pc[f] = "in"
  /\ attached' = attached \ {f}
  /\ Goto(f, "out")
  /\ UNCHANGED <<runtime, installed, was, host>>

-----------------------------------------------------------------------------
HostStep == Stop \/ WaitActive \/ JoinWorkers \/ CheckAttached \/ Finish

Install(t) == ReadInstalled(t) \/ InstallHandler(t) \/ AttachThread(t)

Next ==
  \/ RtInit \/ RtInitAgain \/ RtShutdown \/ HostStep
  \/ \E t \in Threads : Install(t)
  \/ \E w \in Workers : Admit(w) \/ OsSpawn(w) \/ WorkerReturns(w) \/ WorkerGone(w)
  \/ \E f \in Foreign : Attach(f) \/ Detach(f)

Spec == Init /\ [][Next]_vars

(* Threads run; a job ends; foreign threads detach, and the host retries a *)
(* shutdown that reported "busy", as their contracts ask.                  *)
Fairness ==
  /\ WF_vars(HostStep)
  /\ WF_vars(RtShutdown /\ result = "busy")
  /\ \A t \in Threads : WF_vars(Install(t))
  /\ \A w \in Workers : WF_vars(OsSpawn(w)) /\ WF_vars(WorkerReturns(w)) /\ WF_vars(WorkerGone(w))
  /\ \A f \in Foreign : WF_vars(Detach(f))

FairSpec == Spec /\ Fairness

-----------------------------------------------------------------------------
(* Properties. *)

Unloadable == result = "ok"

(* ACTIVE_WORKERS counts every worker between its admission and the end of *)
(* its closure, failed spawns and exits during shutdown included.          *)
ActiveExact == active = Cardinality({w \in Workers : pc[w] \in Live})

(* When ori_rt_shutdown_ex returns 0 the library can be unloaded: no       *)
(* worker is inside its closure, or admitted and about to start; no        *)
(* thread's signal stack is left, whose destructor is runtime code; and    *)
(* the previous SIGSEGV and SIGBUS actions are back.                       *)
SafeToUnload ==
  Unloadable => (\A w \in Workers : pc[w] \notin Live) /\ attached = {} /\ ~installed

(* From the moment the shutdown has seen zero workers until it returns, no *)
(* worker is admitted: the check and the increment of try_spawn_named are  *)
(* not torn apart by it.                                                   *)
AdmissionClosed ==
  pc[Host] \in {"join", "check", "finish"} => \A w \in Workers : pc[w] \notin Live

(* A thread with a signal stack is also covered by the process handler: an *)
(* attachment that fails elsewhere does not remove it.                     *)
GuardInstalled == attached # {} => installed

(* A host that retries a busy shutdown is told 0 in the end. *)
BusyResolves == (result = "busy") ~> Unloadable
=============================================================================

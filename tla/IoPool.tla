-------------------------------- MODULE IoPool --------------------------------
(***************************************************************************)
(* The blocking-I/O worker pool of the Ori runtime: spawn_io_result_future,*)
(* ensure_io_worker_pool, io_pool_worker_loop, and its stop.               *)
(*                                                                         *)
(* Workers that find the queue empty and callers that find it full sleep   *)
(* on one condition variable; a push notifies one sleeper, a pop all.  As  *)
(* in Timers, a thread keeps the pool's mutex between its check and        *)
(* Condvar::wait, and a shutdown sets its flag and notifies without it.    *)
(***************************************************************************)
EXTENDS Integers, FiniteSets, Sequences

CONSTANTS Jobs,       \* the calls of spawn_io_result_future
          Threads,    \* worker threads the system may create
          Desired,    \* io_pool_worker_count()
          Capacity,   \* IO_POOL_QUEUE_CAPACITY
          Nil

ASSUME IoPoolAssumption ==
  /\ IsFiniteSet(Threads) /\ IsFiniteSet(Jobs)
  /\ Desired \in Nat \ {0} /\ Capacity \in Nat \ {0} /\ Nil \notin Jobs

VARIABLES flag,       \* RUNTIME_SHUTTING_DOWN
          queue,      \* IoPoolState.queue
          workers,    \* IoPoolState.workers
          call,       \* where each caller is
          starting,   \* the holder of IO_POOL_START
          pc, job,    \* each worker thread, and the job it runs
          status      \* of the futures

vars == <<flag, queue, workers, call, starting, pc, job, status>>

(* The types; and the queue never holds more than its capacity, however    *)
(* many callers one pop has woken.                                         *)
TypeOK ==
  /\ flag \in BOOLEAN /\ queue \in Seq(Jobs) /\ workers \in Nat
  /\ Len(queue) <= Capacity
  /\ call \in [Jobs -> {"new", "ensure", "spawned", "refused", "submit", "toWait",
                        "waiting", "returned"}]
  /\ starting \in Jobs \cup {Nil}
  /\ pc \in [Threads -> {"none", "top", "toWait", "waiting", "run"}]
  /\ job \in [Threads -> Jobs \cup {Nil}]
  /\ status \in [Jobs -> {"Pending", "Ready", "Failed"}]

Init ==
  /\ flag = FALSE /\ queue = <<>> /\ workers = 0
  /\ call = [j \in Jobs |-> "new"] /\ starting = Nil
  /\ pc = [t \in Threads |-> "none"] /\ job = [t \in Threads |-> Nil]
  /\ status = [j \in Jobs |-> "Pending"]

(* The pool's mutex is held by whoever has decided to wait. *)
LockFree ==
  (\A j \in Jobs : call[j] # "toWait") /\ (\A t \in Threads : pc[t] # "toWait")

-----------------------------------------------------------------------------
(* The condition variable. *)

MutCallersSleepOn == call
WokenCalls == [j \in Jobs |-> IF call[j] = "waiting" THEN "submit" ELSE call[j]]
MutThreadsSleepOn == pc
WokenThreads == [t \in Threads |-> IF pc[t] = "waiting" THEN "top" ELSE pc[t]]

-----------------------------------------------------------------------------
(* ensure_io_worker_pool, called for job j. *)

Fail(j) == status' = [status EXCEPT ![j] = "Failed"]
Goto(j, l) == call' = [call EXCEPT ![j] = l]

EnsureStarts(j) ==
  /\ call[j] = "new" /\ starting = Nil
  /\ starting' = j /\ Goto(j, "ensure")
  /\ UNCHANGED <<flag, queue, workers, pc, job, status>>

EnsureChecks(j) ==
  /\ call[j] = "ensure" /\ LockFree
  /\ \/ /\ workers >= Desired
        /\ starting' = Nil /\ Goto(j, "submit") /\ UNCHANGED <<pc, status>>
     \/ /\ workers < Desired /\ flag
        /\ starting' = Nil /\ Goto(j, "returned") /\ Fail(j) /\ UNCHANGED pc
     \/ /\ workers < Desired /\ ~flag
        /\ \E t \in Threads : pc[t] = "none" /\ pc' = [pc EXCEPT ![t] = "top"]
        /\ Goto(j, "spawned") /\ UNCHANGED <<starting, status>>
     \/ /\ workers < Desired   \* try_spawn_named failed
        /\ Goto(j, "refused") /\ UNCHANGED <<starting, pc, status>>
  /\ UNCHANGED <<flag, queue, workers, job>>

CountsWorker == ~flag

(* The new worker is counted, unless a shutdown started meanwhile: it may  *)
(* have stopped the worker already.                                        *)
EnsureCounts(j) ==
  /\ call[j] = "spawned" /\ LockFree
  /\ \/ /\ CountsWorker
        /\ workers' = workers + 1
        /\ call' = [WokenCalls EXCEPT ![j] = "ensure"]
        /\ UNCHANGED <<starting, status>>
     \/ /\ ~CountsWorker
        /\ starting' = Nil /\ Fail(j)
        /\ call' = [WokenCalls EXCEPT ![j] = "returned"]
        /\ UNCHANGED workers
  /\ pc' = WokenThreads
  /\ UNCHANGED <<flag, queue, job>>

(* No new thread: content with the ones there are. *)
EnsureRefused(j) ==
  /\ call[j] = "refused" /\ LockFree
  /\ starting' = Nil
  /\ IF workers > 0
       THEN Goto(j, "submit") /\ UNCHANGED status
       ELSE Goto(j, "returned") /\ Fail(j)
  /\ UNCHANGED <<flag, queue, workers, pc, job>>

-----------------------------------------------------------------------------
(* spawn_io_result_future after that. *)

Full == Len(queue) >= Capacity

SeesShutdown == flag

SubmitWaits(j) ==
  /\ call[j] = "submit" /\ LockFree /\ Full /\ ~flag
  /\ Goto(j, "toWait")
  /\ UNCHANGED <<flag, queue, workers, starting, pc, job, status>>

SubmitSleeps(j) ==
  /\ call[j] = "toWait" /\ Goto(j, "waiting")
  /\ UNCHANGED <<flag, queue, workers, starting, pc, job, status>>

SubmitRejected(j) ==
  /\ call[j] = "submit" /\ LockFree /\ SeesShutdown
  /\ Goto(j, "returned") /\ Fail(j)
  /\ UNCHANGED <<flag, queue, workers, starting, pc, job>>

SubmitPushes(j) ==
  /\ call[j] = "submit" /\ LockFree /\ ~Full /\ ~SeesShutdown
  /\ queue' = Append(queue, j)
  /\ \/ /\ \A i \in Jobs : call[i] # "waiting"
        /\ \A t \in Threads : pc[t] # "waiting"
        /\ Goto(j, "returned") /\ UNCHANGED pc
     \/ \E i \in Jobs :
          /\ call[i] = "waiting"
          /\ call' = [call EXCEPT ![i] = "submit", ![j] = "returned"] /\ UNCHANGED pc
     \/ \E t \in Threads :
          /\ pc[t] = "waiting"
          /\ pc' = [pc EXCEPT ![t] = "top"] /\ Goto(j, "returned")
  /\ UNCHANGED <<flag, workers, starting, job, status>>

-----------------------------------------------------------------------------
(* io_pool_worker_loop. *)

WorkerWaits(t) ==
  /\ pc[t] = "top" /\ LockFree /\ queue = <<>> /\ ~flag
  /\ pc' = [pc EXCEPT ![t] = "toWait"]
  /\ UNCHANGED <<flag, queue, workers, call, starting, job, status>>

WorkerSleeps(t) ==
  /\ pc[t] = "toWait" /\ pc' = [pc EXCEPT ![t] = "waiting"]
  /\ UNCHANGED <<flag, queue, workers, call, starting, job, status>>

MutExitWithJobs == flag
MayExit == flag /\ queue = <<>>

AfterExit == IF workers = 0 THEN 0 ELSE workers - 1   \* saturating_sub

WorkerExits(t) ==
  /\ pc[t] = "top" /\ LockFree /\ MayExit
  /\ workers' = AfterExit
  /\ call' = WokenCalls
  /\ pc' = [WokenThreads EXCEPT ![t] = "none"]
  /\ UNCHANGED <<flag, queue, starting, job, status>>

WorkerTakes(t) ==
  /\ pc[t] = "top" /\ LockFree /\ queue # <<>> /\ ~MayExit
  /\ job' = [job EXCEPT ![t] = Head(queue)] /\ queue' = Tail(queue)
  /\ call' = WokenCalls
  /\ pc' = [WokenThreads EXCEPT ![t] = "run"]
  /\ UNCHANGED <<flag, workers, starting, status>>

(* The work returns, or panics. *)
WorkerCompletes(t) ==
  /\ pc[t] = "run"
  /\ \E s \in {"Ready", "Failed"} : status' = [status EXCEPT ![job[t]] = s]
  /\ job' = [job EXCEPT ![t] = Nil] /\ pc' = [pc EXCEPT ![t] = "top"]
  /\ UNCHANGED <<flag, queue, workers, call, starting>>

-----------------------------------------------------------------------------
(* stop_runtime_workers, and its retry. *)
Shutdown ==
  /\ flag => \E t \in Threads : pc[t] # "none"
  /\ flag' = TRUE
  /\ call' = WokenCalls /\ pc' = WokenThreads
  /\ UNCHANGED <<queue, workers, starting, job, status>>

(* ori_rt_init after a shutdown that returned 0: no worker is left, and no *)
(* thread of the program is inside a call (Lifecycle!GuardRemoved).        *)
Restart ==
  /\ flag /\ \A t \in Threads : pc[t] = "none"
  /\ \A j \in Jobs : call[j] \in {"new", "returned"}
  /\ flag' = FALSE
  /\ UNCHANGED <<queue, workers, call, starting, pc, job, status>>

Caller(j) ==
  \/ EnsureStarts(j) \/ EnsureChecks(j) \/ EnsureCounts(j) \/ EnsureRefused(j)
  \/ SubmitWaits(j) \/ SubmitSleeps(j) \/ SubmitRejected(j) \/ SubmitPushes(j)

Worker(t) ==
  WorkerWaits(t) \/ WorkerSleeps(t) \/ WorkerExits(t) \/ WorkerTakes(t) \/ WorkerCompletes(t)

Next ==
  \/ \E j \in Jobs : Caller(j)
  \/ \E t \in Threads : Worker(t)
  \/ Shutdown \/ Restart

Spec == Init /\ [][Next]_vars

(* Threads run, the pool's mutex is not withheld from one of them forever, *)
(* blocking work ends, and a host whose shutdown was busy retries it.      *)
Fairness ==
  /\ \A j \in Jobs : SF_vars(Caller(j) /\ call[j] # "new")
  /\ \A t \in Threads : SF_vars(Worker(t))
  /\ WF_vars(Shutdown /\ flag)

FairSpec == Spec /\ Fairness

-----------------------------------------------------------------------------
(* Properties. *)

(* Sharing the condition variable is harmless here: a worker never sleeps  *)
(* on a non-empty queue unless another one is on its way to it, and a      *)
(* caller never sleeps when there is room.  A push, which wakes only one   *)
(* sleeper, thus never wakes a caller in a worker's stead.                 *)
NoLostWakeup ==
  /\ queue # <<>> /\ (\E t \in Threads : pc[t] = "waiting") => \E t \in Threads : pc[t] = "top"
  /\ (\E j \in Jobs : call[j] = "waiting") => Full

(* IoPoolState.workers is the number of live workers whenever no shutdown  *)
(* and no start is in progress: after a restart the pool does not believe  *)
(* in workers that the shutdown stopped.                                   *)
WorkersExact ==
  ~flag /\ starting = Nil => workers = Cardinality({t \in Threads : pc[t] # "none"})

(* The future of every call is settled in the end, shutdowns included. *)
JobSettles == \A j \in Jobs : (call[j] # "new") ~> (status[j] # "Pending")

(* A shutdown, retried, stops every worker and releases every caller. *)
PoolStops ==
  flag ~> (~flag \/ ((\A t \in Threads : pc[t] = "none") /\ \A j \in Jobs : call[j] # "waiting"))
=============================================================================

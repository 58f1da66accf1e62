------------------------------- MODULE Executor -------------------------------
(***************************************************************************)
(* The task executor of the Ori runtime: ori_async_spawn_*, the FIFO queue,*)
(* ori_executor_run_one, ori_task_block_on, and the thread-local           *)
(* TASK_LAST_AWAIT_STATUS through which a task's outcome is decided.       *)
(*                                                                         *)
(* There is no executor thread: a thread that blocks on a future runs the  *)
(* queued tasks on its own stack, on top of whatever it was doing.  If a   *)
(* task itself blocks on a future, the stack grows by one more task.       *)
(***************************************************************************)
EXTENDS Integers, Sequences, FiniteSets

CONSTANTS Tasks,      \* closures given to ori_async_spawn_*
          Events,     \* other futures: timers, I/O
          Threads,    \* threads that run Ori code
          Nil

ASSUME ExecutorAssumption ==
  /\ IsFiniteSet(Tasks) /\ Tasks \cap Events = {}
  /\ Nil \notin Tasks \cup Events

Final == {"Ready", "Failed", "Cancelled"}
Futures == Tasks \cup Events

(* A call on a thread's stack: the program itself (Nil) or a task; the     *)
(* future it blocks on, where it is in that loop, and the status its own   *)
(* last block_on returned.                                                 *)
Frame == [task : Tasks \cup {Nil}, on : Futures \cup {Nil},
          at : {"body", "check", "drain"}, saw : Final]

VARIABLES status,   \* of the futures
          queue,    \* OriExecutor.queue
          order,    \* the tasks spawned so far, in that order
          ran,      \* the ones the executor has started
          stack,    \* of each thread, the innermost call first
          last,     \* TASK_LAST_AWAIT_STATUS of each thread
          settledBy \* how a task's future was settled: by its runner, with
                    \* what its own last block_on had returned, or otherwise

vars == <<status, queue, order, ran, stack, last, settledBy>>

Spawned == {order[i] : i \in DOMAIN order}

(* The types; in particular the thread-local status is always final.       *)
TypeOK ==
  /\ status \in [Futures -> Final \cup {"Pending"}]
  /\ queue \in Seq(Tasks) /\ order \in Seq(Tasks) /\ ran \subseteq Spawned
  /\ \A th \in Threads : stack[th] # <<>> /\ \A i \in DOMAIN stack[th] : stack[th][i] \in Frame
  /\ last \in [Threads -> Final]
  /\ settledBy \in [Tasks -> Final \cup {"nobody", "other"}]

Fresh(t) == [task |-> t, on |-> Nil, at |-> "body", saw |-> "Ready"]

Init ==
  /\ status = [f \in Futures |-> "Pending"]
  /\ queue = <<>> /\ order = <<>> /\ ran = {}
  /\ stack = [th \in Threads |-> <<Fresh(Nil)>>]
  /\ last = [th \in Threads |-> "Ready"]
  /\ settledBy = [t \in Tasks |-> "nobody"]

Top(th) == Head(stack[th])
Replace(th, frame) == stack' = [stack EXCEPT ![th] = <<frame>> \o Tail(@)]

(* set_future_status: the first settle counts. *)
Settle(f, s) == status' = IF status[f] = "Pending" THEN [status EXCEPT ![f] = s] ELSE status

-----------------------------------------------------------------------------
(* async_spawn_with_runner. *)
Spawn(th, t) ==
  /\ Top(th).at = "body" /\ t \notin Spawned
  /\ order' = Append(order, t) /\ queue' = Append(queue, t)
  /\ UNCHANGED <<status, ran, stack, last, settledBy>>

-----------------------------------------------------------------------------
(* ori_task_block_on. *)

(* Tasks wait for events and for tasks spawned before them, so no program  *)
(* of the model makes tasks wait for each other in a circle.               *)
Before(f, t) == \E i, j \in DOMAIN order : i < j /\ order[i] = f /\ order[j] = t

BlockOn(th, f) ==
  /\ Top(th).at = "body" /\ f \in Spawned \cup Events
  /\ Top(th).task # Nil => f \in Events \/ Before(f, Top(th).task)
  /\ Replace(th, [Top(th) EXCEPT !.on = f, !.at = "check"])
  /\ UNCHANGED <<status, queue, order, ran, last, settledBy>>

(* Settled: record the status and return. *)
BlockOnReturns(th) ==
  /\ Top(th).at = "check" /\ status[Top(th).on] # "Pending"
  /\ LET s == status[Top(th).on] IN
       /\ last' = [last EXCEPT ![th] = s]
       /\ Replace(th, [Top(th) EXCEPT !.on = Nil, !.at = "body", !.saw = s])
  /\ UNCHANGED <<status, queue, order, ran, settledBy>>

(* Pending: run what is queued, all of it, then look again. *)
BlockOnDrains(th) ==
  /\ Top(th).at = "check" /\ status[Top(th).on] = "Pending"
  /\ Replace(th, [Top(th) EXCEPT !.at = "drain"])
  /\ UNCHANGED <<status, queue, order, ran, last, settledBy>>

BlockOnLooksAgain(th) ==
  /\ Top(th).at = "drain" /\ queue = <<>>
  /\ Replace(th, [Top(th) EXCEPT !.at = "check"])
  /\ UNCHANGED <<status, queue, order, ran, last, settledBy>>

MutPeek == queue
AfterPop == Tail(queue)

(* ori_executor_run_one: the task starts on this thread's stack. *)
RunOne(th) ==
  /\ Top(th).at = "drain" /\ queue # <<>>
  /\ queue' = AfterPop
  /\ ran' = ran \cup {Head(queue)}
  /\ stack' = [stack EXCEPT ![th] = <<Fresh(Head(queue))>> \o @]
  /\ UNCHANGED <<status, order, last, settledBy>>

-----------------------------------------------------------------------------
(* async_runner_* and complete_future_from_task_status. *)

MutAlwaysReady(th) == "Ready"
Outcome(th) == last[th]

TakeStatus(th) == [last EXCEPT ![th] = "Ready"]

TaskReturns(th) ==
  /\ Top(th).at = "body" /\ Top(th).task # Nil
  /\ LET t == Top(th).task IN
       /\ Settle(t, Outcome(th))
       /\ settledBy' = IF status[t] # "Pending" THEN settledBy
                       ELSE [settledBy EXCEPT ![t] = Top(th).saw]
  /\ last' = TakeStatus(th)
  /\ stack' = [stack EXCEPT ![th] = Tail(@)]
  /\ UNCHANGED <<queue, order, ran>>

(* It panics: async_spawn_job_entry fails the future. *)
TaskPanics(th) ==
  /\ Top(th).at = "body" /\ Top(th).task # Nil
  /\ LET t == Top(th).task IN
       /\ Settle(t, "Failed")
       /\ settledBy' = IF status[t] # "Pending" THEN settledBy
                       ELSE [settledBy EXCEPT ![t] = "other"]
  /\ stack' = [stack EXCEPT ![th] = Tail(@)]
  /\ UNCHANGED <<queue, order, ran, last>>

(* A timer, an I/O worker or a cancellation settles a future. *)
EventSettles(f, s) ==
  /\ f \in Events /\ status[f] = "Pending"
  /\ status' = [status EXCEPT ![f] = s]
  /\ UNCHANGED <<queue, order, ran, stack, last, settledBy>>

Cancel(t) ==
  /\ t \in Spawned /\ status[t] = "Pending"
  /\ status' = [status EXCEPT ![t] = "Cancelled"]
  /\ settledBy' = [settledBy EXCEPT ![t] = "other"]
  /\ UNCHANGED <<queue, order, ran, stack, last>>

-----------------------------------------------------------------------------
Loop(th) == BlockOnReturns(th) \/ BlockOnDrains(th) \/ BlockOnLooksAgain(th) \/ RunOne(th)
Ends(th) == TaskReturns(th) \/ TaskPanics(th)

Next ==
  \/ \E th \in Threads :
       \/ Loop(th) \/ Ends(th)
       \/ \E t \in Tasks : Spawn(th, t)
       \/ \E f \in Futures : BlockOn(th, f)
  \/ \E f \in Events, s \in Final : EventSettles(f, s)
  \/ \E t \in Tasks : Cancel(t)

Spec == Init /\ [][Next]_vars

(* Threads run, a task's body ends, and so does a timer or I/O operation.  *)
Fairness ==
  /\ \A th \in Threads : WF_vars(Loop(th)) /\ SF_vars(Ends(th))
  /\ \A f \in Events : WF_vars(\E s \in Final : EventSettles(f, s))

FairSpec == Spec /\ Fairness

-----------------------------------------------------------------------------
(* Properties. *)

OnStack(t) ==
  {p \in UNION {{th} \X DOMAIN stack[th] : th \in Threads} : stack[p[1]][p[2]].task = t}

Queued(t) == {i \in DOMAIN queue : queue[i] = t}

(* A task is in the queue once, on one stack once, or has ended: however   *)
(* many threads drain the queue, none runs a task a second time and none   *)
(* is lost.                                                                *)
RunsOnce ==
  \A t \in Tasks :
    /\ Cardinality(OnStack(t)) + Cardinality(Queued(t)) <= 1
    /\ t \in ran => Queued(t) = {}
    /\ t \in Spawned \ ran => Queued(t) # {}
    /\ t \in ran /\ OnStack(t) = {} => status[t] # "Pending"

(* A task whose last block_on failed or was cancelled does not complete as *)
(* "Ready", whatever other tasks its thread ran while it waited.           *)
FailurePropagates ==
  \A t \in Tasks : settledBy[t] \in {"Failed", "Cancelled"} => status[t] = settledBy[t]

(* And a task that returns normally, whose own last block_on, if any,      *)
(* succeeded, completes as "Ready". It does not when its thread's last     *)
(* await before it failed (README, known divergences).                     *)
SuccessCompletes ==
  \A t \in Tasks : settledBy[t] = "Ready" => status[t] = "Ready"

(* What the thread's own program waits for. *)
WaitsFor(th) == stack[th][Len(stack[th])].on

NoTaskBlocks ==
  \A th \in Threads : \A i \in DOMAIN stack[th] :
    stack[th][i].task # Nil => stack[th][i].on = Nil

(* Unless a task itself calls block_on, the program's block_on returns:    *)
(* what it waits for is settled, by whichever thread took the task, and it *)
(* notices.  (With a nested block_on a task can be buried for ever beneath *)
(* one that waits for it.)                                                 *)
BlockOnEnds ==
  []NoTaskBlocks => \A th \in Threads : (WaitsFor(th) # Nil) ~> (WaitsFor(th) = Nil)
=============================================================================

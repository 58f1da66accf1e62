-------------------------------- MODULE Timers --------------------------------
(***************************************************************************)
(* The timer thread of the Ori runtime: ori_task_sleep,                    *)
(* schedule_sleep_timer, timer_loop, the compaction of its heap, and how   *)
(* ensure_named_thread and stop_runtime_workers start and stop it.         *)
(*                                                                         *)
(* A step is one critical section of the timer mutex, except that the      *)
(* thread keeps the mutex between its checks and Condvar::wait: a shutdown *)
(* sets its flag and notifies without taking the mutex, so it can fall in  *)
(* between.                                                                *)
(***************************************************************************)
EXTENDS Integers, FiniteSets

CONSTANTS Sleeps,      \* the calls of ori_task_sleep, each with its future
          Delays,      \* the delays they ask for
          MaxTime,     \* bound on the clock
          Interval, MinLen    \* TIMER_COMPACTION_INTERVAL and _MIN_LEN

ASSUME TimersAssumption ==
  /\ IsFiniteSet(Sleeps) /\ Delays \subseteq Nat /\ MaxTime \in Nat
  /\ Interval \in Nat \ {0} /\ MinLen \in Nat

VARIABLES now,         \* Instant::now()
          flag,        \* RUNTIME_SHUTTING_DOWN
          heap,        \* OriTimerState.timers: the sleeps it has entries for
          next,        \* OriTimerState.next_sequence
          due, seq,    \* TimerEntry.due and .sequence, per sleep
          call,        \* where the caller of ori_task_sleep is
          status,      \* of the future
          refs, user,  \* its reference count; does the program hold a handle?
          pc, batch, deadline   \* the timer thread

vars == <<now, flag, heap, next, due, seq, call, status, refs, user, pc, batch,
          deadline>>
entries == <<heap, next, due, seq>>
futures == <<status, refs>>
thread  == <<pc, batch, deadline>>

Never == MaxTime + 1

(* The types; in particular a future has two references at most.           *)
TypeOK ==
  /\ now \in 0..MaxTime /\ flag \in BOOLEAN
  /\ heap \subseteq Sleeps /\ batch \subseteq Sleeps
  /\ next \in 0..Cardinality(Sleeps)
  /\ due \in [Sleeps -> 0..MaxTime] /\ seq \in [Sleeps -> 0..Cardinality(Sleeps)]
  /\ call \in [Sleeps -> {"new", "push", "notify", "returned"}]
  /\ status \in [Sleeps -> {"Pending", "Ready", "Failed", "Cancelled"}]
  /\ refs \in [Sleeps -> 0..2] /\ user \in [Sleeps -> BOOLEAN]
  /\ pc \in {"none", "top", "toWait", "waiting", "ready", "fail", "exiting"}
  /\ deadline \in 0..Never

Init ==
  /\ now = 0 /\ flag = FALSE
  /\ heap = {} /\ next = 0
  /\ due = [s \in Sleeps |-> 0] /\ seq = [s \in Sleeps |-> 0]
  /\ call = [s \in Sleeps |-> "new"]
  /\ status = [s \in Sleeps |-> "Pending"]
  /\ refs = [s \in Sleeps |-> 0] /\ user = [s \in Sleeps |-> FALSE]
  /\ pc = "none" /\ batch = {} /\ deadline = Never

Tick ==
  /\ now < MaxTime /\ now' = now + 1
  /\ UNCHANGED <<flag, entries, call, futures, user, thread>>

(* The heap's order: TimerEntry::cmp. *)
Earlier(a, b) == due[a] < due[b] \/ (due[a] = due[b] /\ seq[a] < seq[b])

First(S) == CHOOSE s \in S : \A x \in S \ {s} : Earlier(s, x)

(* Condvar::notify_one and notify_all: there is one waiter at most. *)
Notified(p) == IF p = "waiting" THEN "top" ELSE p

-----------------------------------------------------------------------------
(* ori_task_sleep. *)

(* A pending future and a second reference for the timer thread; then      *)
(* ensure_timer_thread finds the thread, starts it or fails: during a      *)
(* shutdown, or because the system refuses a thread.                       *)
SleepStarts(s, d) ==
  /\ call[s] = "new" /\ now + d <= MaxTime
  /\ user' = [user EXCEPT ![s] = TRUE]
  /\ \/ /\ pc # "none" \/ ~flag
        /\ pc' = IF pc = "none" THEN "top" ELSE pc
        /\ due' = [due EXCEPT ![s] = now + d]
        /\ call' = [call EXCEPT ![s] = "push"]
        /\ refs' = [refs EXCEPT ![s] = 2]
        /\ UNCHANGED status
     \/ /\ pc = "none"
        /\ call' = [call EXCEPT ![s] = "returned"]
        /\ status' = [status EXCEPT ![s] = "Failed"]
        /\ refs' = [refs EXCEPT ![s] = 1]
        /\ UNCHANGED <<pc, due>>
  /\ UNCHANGED <<now, flag, heap, next, seq, batch, deadline>>

(* What the compaction releases, and what it keeps. *)
MutStaleStay(H, stale) == H
MutForgetRetained(H, stale) == IF stale = {} THEN H ELSE {}
Compacted(H, stale) == H \ stale

SleepPushes(s) ==
  /\ call[s] = "push" /\ pc # "toWait"
  /\ LET H == heap \cup {s}
         stale == IF next % Interval = 0 /\ Cardinality(H) >= MinLen
                    THEN {x \in H : status[x] # "Pending"} ELSE {}
     IN /\ heap' = Compacted(H, stale)
        /\ refs' = [x \in Sleeps |-> IF x \in stale THEN refs[x] - 1 ELSE refs[x]]
  /\ seq' = [seq EXCEPT ![s] = next] /\ next' = next + 1
  /\ call' = [call EXCEPT ![s] = "notify"]
  /\ UNCHANGED <<now, flag, due, status, user, thread>>

(* notify_one, after the mutex was dropped. *)
SleepNotifies(s) ==
  /\ call[s] = "notify"
  /\ call' = [call EXCEPT ![s] = "returned"]
  /\ pc' = Notified(pc)
  /\ UNCHANGED <<now, flag, entries, futures, user, batch, deadline>>

(* The program cancels a sleeping future, or drops its handle. *)
Cancel(s) ==
  /\ call[s] = "returned" /\ user[s] /\ status[s] = "Pending"
  /\ status' = [status EXCEPT ![s] = "Cancelled"]
  /\ UNCHANGED <<now, flag, entries, call, refs, user, thread>>

Drop(s) ==
  /\ call[s] = "returned" /\ user[s]
  /\ user' = [user EXCEPT ![s] = FALSE]
  /\ refs' = [refs EXCEPT ![s] = @ - 1]
  /\ UNCHANGED <<now, flag, entries, call, status, thread>>

-----------------------------------------------------------------------------
(* timer_loop. *)

IsDue(s) == due[s] <= now

Check ==
  /\ pc = "top"
  /\ IF flag
       THEN batch' = heap /\ heap' = {} /\ pc' = "fail" /\ UNCHANGED deadline
     ELSE IF heap # {} /\ IsDue(First(heap))
       THEN /\ batch' = {s \in heap : IsDue(s)} /\ heap' = heap \ batch'
            /\ pc' = "ready" /\ UNCHANGED deadline
     ELSE /\ deadline' = IF heap = {} THEN Never ELSE due[First(heap)]
          /\ pc' = "toWait" /\ UNCHANGED <<heap, batch>>
  /\ UNCHANGED <<now, flag, next, due, seq, call, futures, user>>

Wait ==
  /\ pc = "toWait" /\ pc' = "waiting"
  /\ UNCHANGED <<now, flag, entries, call, futures, user, batch, deadline>>

Timeout ==
  /\ pc = "waiting" /\ now >= deadline
  /\ pc' = "top"
  /\ UNCHANGED <<now, flag, entries, call, futures, user, batch, deadline>>

(* complete_future_owned of the entries taken, in the order they came off  *)
(* the heap, or in any order when the heap was drained.                    *)
CompleteOne(s) ==
  /\ pc \in {"ready", "fail"} /\ s \in batch
  /\ pc = "ready" => s = First(batch)
  /\ batch' = batch \ {s}
  /\ status' = IF status[s] # "Pending" THEN status
               ELSE [status EXCEPT ![s] = IF pc = "ready" THEN "Ready" ELSE "Failed"]
  /\ refs' = [refs EXCEPT ![s] = @ - 1]
  /\ UNCHANGED <<now, flag, entries, call, user, pc, deadline>>

BatchDone ==
  /\ pc \in {"ready", "fail"} /\ batch = {}
  /\ pc' = IF pc = "ready" THEN "top" ELSE "exiting"
  /\ UNCHANGED <<now, flag, entries, call, futures, user, batch, deadline>>

(* The thread ends; until then JoinHandle::is_finished is false. *)
ThreadEnds ==
  /\ pc = "exiting" /\ pc' = "none"
  /\ UNCHANGED <<now, flag, entries, call, futures, user, batch, deadline>>

-----------------------------------------------------------------------------
(* stop_runtime_workers, and its retry: the flag, then notify_all.         *)
Shutdown ==
  /\ flag => pc # "none"
  /\ flag' = TRUE /\ pc' = Notified(pc)
  /\ UNCHANGED <<now, entries, call, futures, user, batch, deadline>>

(* ori_rt_init after a shutdown that succeeded. *)
Restart ==
  /\ flag /\ pc = "none"
  /\ flag' = FALSE
  /\ UNCHANGED <<now, entries, call, futures, user, thread>>

Loop ==
  \/ Check \/ Wait \/ Timeout \/ BatchDone \/ ThreadEnds
  \/ \E s \in Sleeps : CompleteOne(s)

Next ==
  \/ Tick \/ Loop \/ Shutdown \/ Restart
  \/ \E s \in Sleeps, d \in Delays : SleepStarts(s, d)
  \/ \E s \in Sleeps : SleepPushes(s) \/ SleepNotifies(s) \/ Cancel(s) \/ Drop(s)

Spec == Init /\ [][Next]_vars

(* The clock advances, the thread and callers inside ori_task_sleep are    *)
(* scheduled, and a host whose shutdown was busy retries it.               *)
Fairness ==
  /\ WF_vars(Tick) /\ WF_vars(Loop)
  /\ WF_vars(Shutdown /\ flag)
  /\ \A s \in Sleeps : WF_vars(SleepPushes(s) \/ SleepNotifies(s))

FairSpec == Spec /\ Fairness

-----------------------------------------------------------------------------
(* Properties. *)

(* Every entry, in the heap, taken or about to be pushed, owns one         *)
(* reference to its future, and the program its own: compaction, timer     *)
(* thread and drain release each entry once, and no entry outlives its     *)
(* future.                                                                 *)
EntryOwnsFuture ==
  \A s \in Sleeps :
    refs[s] = (IF user[s] THEN 1 ELSE 0)
              + (IF s \in heap \cup batch \/ call[s] = "push" THEN 1 ELSE 0)

(* No sleep ends before its time. *)
NeverEarly == \A s \in Sleeps : status[s] = "Ready" => due[s] <= now

(* Sleeps end in the order of their deadlines, and of the calls where      *)
(* these are equal: one that was scheduled earlier with a deadline no      *)
(* later is never still waiting.                                           *)
DeadlineOrder ==
  \A s, e \in Sleeps :
    status[s] = "Ready" /\ call[e] \in {"notify", "returned"} /\ seq[e] < seq[s] /\ due[e] <= due[s]
      => e \notin heap \cup batch

(* While the thread sleeps, nothing that would need it earlier is in the   *)
(* heap: a push with an earlier deadline has woken it, or is about to.     *)
SleepsUntilFirst ==
  pc = "waiting" => \A s \in heap : deadline <= due[s] \/ call[s] = "notify"

(* A future returned by ori_task_sleep is settled in the end. It is not if *)
(* a shutdown falls into the call (README, known divergences).             *)
SleepSettles == \A s \in Sleeps : (call[s] # "new") ~> (status[s] # "Pending")

(* It is at least as long as the timer thread lives: completed at its time,*)
(* or failed by a shutdown's drain, compactions and later pushes           *)
(* notwithstanding.                                                        *)
SettlesWhileServed ==
  \A s \in Sleeps : (call[s] # "new") ~> (status[s] # "Pending" \/ pc = "none")

(* A shutdown, retried, stops the thread, although a single notification   *)
(* can be lost between its check of the flag and its wait.                 *)
TimerStops == flag ~> (pc = "none" \/ ~flag)
=============================================================================

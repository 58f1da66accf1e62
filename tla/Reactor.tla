------------------------------- MODULE Reactor -------------------------------
(***************************************************************************)
(* The readiness I/O reactor of the Ori runtime: the *_async network calls *)
(* (spawn_readiness_io_future), io_reactor_loop, and the synchronous calls *)
(* that use the same native handles.                                       *)
(*                                                                         *)
(* A handle (connection, listener, UDP socket) is a counted object with a  *)
(* mutex around its socket. What an operation waits for (bytes, a peer,    *)
(* room to send) is one unit of its handle's input. A step of the thread   *)
(* ends where it takes a mutex that others use: the job queue's, a         *)
(* future's, or a handle's. As in Timers, it keeps the queue's mutex       *)
(* between its check and Condvar::wait, and a shutdown notifies without.   *)
(***************************************************************************)
EXTENDS Integers, FiniteSets, Sequences

CONSTANTS Ops,       \* calls of an *_async function, each with its future
          Handles,   \* native handles
          MaxInput,  \* bound on the units of input that arrive
          Nil

ASSUME ReactorAssumption ==
  /\ IsFiniteSet(Ops) /\ IsFiniteSet(Handles) /\ MaxInput \in Nat
  /\ Nil \notin Ops \cup Handles

VARIABLES flag,     \* RUNTIME_SHUTTING_DOWN
          queue,    \* IoReactor.jobs
          call, on, \* where each caller is, and the handle it gave
          fut,      \* the futures
          hnd,      \* the handles
          pc, cur,  \* the reactor thread and the job it has popped
          drained,  \* the jobs it has taken for a shutdown
          arrived   \* units of input that have arrived

vars == <<flag, queue, call, on, fut, hnd, pc, cur, drained, arrived>>
calls == <<call, on>>

TypeOK ==
  /\ flag \in BOOLEAN
  /\ queue \in Seq(Ops) /\ drained \subseteq Ops /\ cur \in Ops \cup {Nil}
  /\ call \in [Ops -> {"new", "push", "notify", "returned"}]
  /\ on \in [Ops -> Handles \cup {Nil}]
  /\ fut \in [Ops -> [status : {"Pending", "Ready", "Failed", "Cancelled"},
                      refs : 0..2, user : BOOLEAN]]
  /\ hnd \in [Handles -> [refs : 0..(1 + Cardinality(Ops)), user : BOOLEAN, open : BOOLEAN,
                          input : 0..MaxInput, holder : {"nobody", "caller", "reactor"},
                          poisoned : BOOLEAN]]
  /\ pc \in {"none", "top", "take", "toWait", "waiting", "check", "probe", "recheck", "work",
             "running", "ready", "failed", "drain", "exiting"}
  /\ arrived \in 0..MaxInput

Init ==
  /\ flag = FALSE /\ queue = <<>>
  /\ call = [o \in Ops |-> "new"] /\ on = [o \in Ops |-> Nil]
  /\ fut = [o \in Ops |-> [status |-> "Pending", refs |-> 0, user |-> FALSE]]
  /\ hnd = [h \in Handles |-> [refs |-> 1, user |-> TRUE, open |-> TRUE, input |-> 0,
                               holder |-> "nobody", poisoned |-> FALSE]]
  /\ pc = "none" /\ cur = Nil /\ drained = {}
  /\ arrived = 0

Notified(p) == IF p = "waiting" THEN "take" ELSE p

-----------------------------------------------------------------------------
(* A closed socket has no input any more. *)
Shut(H, h) == [H EXCEPT ![h].open = FALSE, ![h].input = 0]

(* ori_arc_release; the last reference closes the socket. *)
Release(H, h) ==
  LET R == [H EXCEPT ![h].refs = @ - 1] IN IF R[h].refs = 0 THEN Shut(R, h) ELSE R

(* complete_future_owned: settle the future if it is pending, then release *)
(* the job's reference.                                                    *)
Complete(o, s) ==
  [fut EXCEPT ![o].status = IF @ = "Pending" THEN s ELSE @, ![o].refs = @ - 1]

-----------------------------------------------------------------------------
(* spawn_readiness_io_future. *)

(* The future, then ensure_io_reactor_thread, which may fail during a      *)
(* shutdown or because the system refuses a thread.                        *)
Spawn(o, h) ==
  /\ call[o] = "new" /\ hnd[h].user
  /\ on' = [on EXCEPT ![o] = h]
  /\ \/ /\ pc # "none" \/ ~flag
        /\ pc' = IF pc = "none" THEN "top" ELSE pc
        /\ call' = [call EXCEPT ![o] = "push"]
        /\ fut' = [fut EXCEPT ![o].refs = 2, ![o].user = TRUE]
     \/ /\ pc = "none"
        /\ call' = [call EXCEPT ![o] = "returned"]
        /\ fut' = [fut EXCEPT ![o].refs = 1, ![o].user = TRUE, ![o].status = "Failed"]
        /\ UNCHANGED pc
  /\ UNCHANGED <<flag, queue, hnd, cur, drained, arrived>>

Push(o) ==
  /\ call[o] = "push" /\ pc # "toWait"
  /\ queue' = Append(queue, o)
  /\ hnd' = [hnd EXCEPT ![on[o]].refs = @ + 1]
  /\ call' = [call EXCEPT ![o] = "notify"]
  /\ UNCHANGED <<flag, on, fut, pc, cur, drained, arrived>>

Notify(o) ==
  /\ call[o] = "notify"
  /\ call' = [call EXCEPT ![o] = "returned"]
  /\ pc' = Notified(pc)
  /\ UNCHANGED <<flag, queue, on, fut, hnd, cur, drained, arrived>>

(* The program cancels an operation or drops its future. *)
Cancel(o) ==
  /\ call[o] = "returned" /\ fut[o].user /\ fut[o].status = "Pending"
  /\ fut' = [fut EXCEPT ![o].status = "Cancelled"]
  /\ UNCHANGED <<flag, queue, calls, hnd, pc, cur, drained, arrived>>

DropFuture(o) ==
  /\ call[o] = "returned" /\ fut[o].user
  /\ fut' = [fut EXCEPT ![o].user = FALSE, ![o].refs = @ - 1]
  /\ UNCHANGED <<flag, queue, calls, hnd, pc, cur, drained, arrived>>

-----------------------------------------------------------------------------
(* The program and the network at a handle. *)

NotPassed(h) == \A o \in Ops : call[o] = "push" => on[o] # h

(* ori_net_close and its like: the socket, under its mutex, and then the   *)
(* caller's reference. A dropped handle only loses the reference.          *)
Close(h) ==
  /\ hnd[h].user /\ hnd[h].holder = "nobody" /\ NotPassed(h)
  /\ hnd' = Release(Shut([hnd EXCEPT ![h].user = FALSE], h), h)
  /\ UNCHANGED <<flag, queue, calls, fut, pc, cur, drained, arrived>>

DropHandle(h) ==
  /\ hnd[h].user /\ hnd[h].holder # "caller" /\ NotPassed(h)
  /\ hnd' = Release([hnd EXCEPT ![h].user = FALSE], h)
  /\ UNCHANGED <<flag, queue, calls, fut, pc, cur, drained, arrived>>

Arrive(h) ==
  /\ arrived < MaxInput /\ hnd[h].open
  /\ arrived' = arrived + 1
  /\ hnd' = [hnd EXCEPT ![h].input = @ + 1]
  /\ UNCHANGED <<flag, queue, calls, fut, pc, cur, drained>>

(* ori_net_read_some, ori_net_accept...: the mutex is held while the call  *)
(* blocks for input. One thread of the program makes such calls.           *)
SyncStarts(h) ==
  /\ \A g \in Handles : hnd[g].holder # "caller"
  /\ hnd[h].user /\ hnd[h].open /\ hnd[h].holder = "nobody"
  /\ hnd' = [hnd EXCEPT ![h].holder = "caller"]
  /\ UNCHANGED <<flag, queue, calls, fut, pc, cur, drained, arrived>>

SyncEnds(h) ==
  /\ hnd[h].holder = "caller" /\ hnd[h].input > 0
  /\ hnd' = [hnd EXCEPT ![h].holder = "nobody", ![h].input = @ - 1]
  /\ UNCHANGED <<flag, queue, calls, fut, pc, cur, drained, arrived>>

-----------------------------------------------------------------------------
(* io_reactor_loop. *)

Loop(p) == pc' = p /\ UNCHANGED <<flag, calls, arrived>>

Top ==
  /\ pc = "top"
  /\ IF flag
       THEN /\ drained' = {queue[i] : i \in DOMAIN queue} /\ queue' = <<>>
            /\ Loop("drain")
       ELSE Loop("take") /\ UNCHANGED <<queue, drained>>
  /\ UNCHANGED <<fut, hnd, cur>>

Take ==
  /\ pc = "take"
  /\ IF queue # <<>>
       THEN cur' = Head(queue) /\ queue' = Tail(queue) /\ Loop("check")
       ELSE Loop(IF flag THEN "top" ELSE "toWait") /\ UNCHANGED <<cur, queue>>
  /\ UNCHANGED <<fut, hnd, drained>>

Wait ==
  /\ pc = "toWait" /\ Loop("waiting")
  /\ UNCHANGED <<queue, fut, hnd, cur, drained>>

MutReleaseCancelled(o) ==
  /\ UNCHANGED hnd
  /\ fut' = [fut EXCEPT ![o].refs = @ - 1]

(* release_cancelled_io_job. *)
ReleaseCancelled(o) ==
  /\ hnd' = Release(hnd, on[o])
  /\ fut' = [fut EXCEPT ![o].refs = @ - 1]

MutIsPending(o) == TRUE
IsPending(o) == fut[o].status = "Pending"

(* The future is looked at before the handle is polled and again after.    *)
Check ==
  /\ pc \in {"check", "recheck"}
  /\ IF IsPending(cur)
       THEN Loop(IF pc = "check" THEN "probe" ELSE "work") /\ UNCHANGED <<fut, hnd, cur>>
       ELSE ReleaseCancelled(cur) /\ cur' = Nil /\ Loop("top")
  /\ UNCHANGED <<queue, drained>>

MutRequeue(o) == <<o>> \o queue
Requeue(o) == Append(queue, o)

(* poll_fd_ready: a closed handle counts as ready, so that the operation   *)
(* can report it, and so does one whose mutex is poisoned (lock().ok()?).  *)
(* A job that is not ready goes to the end of the queue.                   *)
Probe ==
  /\ pc = "probe" /\ hnd[on[cur]].holder = "nobody"
  /\ IF hnd[on[cur]].open /\ ~hnd[on[cur]].poisoned /\ hnd[on[cur]].input = 0
       THEN queue' = Requeue(cur) /\ cur' = Nil /\ Loop("top")
       ELSE Loop("recheck") /\ UNCHANGED <<queue, cur>>
  /\ UNCHANGED <<fut, hnd, drained>>

(* The operation, under the handle's mutex: it blocks if what it was ready *)
(* for has gone since, or was never there.                                 *)
WorkStarts ==
  /\ pc = "work" /\ hnd[on[cur]].holder = "nobody"
  /\ hnd' = [hnd EXCEPT ![on[cur]].holder = "reactor"]
  /\ Loop("running")
  /\ UNCHANGED <<queue, fut, cur, drained>>

(* write_all has sent what there was room for, and goes on. *)
WorkGoesOn ==
  /\ pc = "running" /\ hnd[on[cur]].open /\ hnd[on[cur]].input > 0
  /\ hnd' = [hnd EXCEPT ![on[cur]].input = @ - 1]
  /\ Loop("running")
  /\ UNCHANGED <<queue, fut, cur, drained>>

WorkEnds ==
  /\ pc = "running"
  /\ LET h == on[cur] IN
     /\ hnd[h].open => hnd[h].input > 0
     /\ hnd' = [hnd EXCEPT ![h].holder = "nobody", ![h].input = IF @ = 0 THEN 0 ELSE @ - 1]
  /\ Loop("ready")
  /\ UNCHANGED <<queue, fut, cur, drained>>

(* Probe or operation panic; the unwinding releases the mutex, poisoned.   *)
(* Everybody but the probe uses a poisoned mutex as if it were not.        *)
Panic ==
  /\ pc \in {"probe", "running"}
  /\ hnd' = IF pc = "running"
            THEN [hnd EXCEPT ![on[cur]].holder = "nobody", ![on[cur]].poisoned = TRUE]
            ELSE hnd
  /\ Loop("failed")
  /\ UNCHANGED <<queue, fut, cur, drained>>

(* The keepalive reference is released, the future settled and released.   *)
Finish ==
  /\ pc \in {"ready", "failed"}
  /\ hnd' = Release(hnd, on[cur])
  /\ fut' = Complete(cur, IF pc = "ready" THEN "Ready" ELSE "Failed")
  /\ cur' = Nil /\ Loop("top")
  /\ UNCHANGED <<queue, drained>>

DrainOne(o) ==
  /\ pc = "drain" /\ o \in drained
  /\ hnd' = Release(hnd, on[o])
  /\ fut' = Complete(o, "Failed")
  /\ drained' = drained \ {o} /\ Loop("drain")
  /\ UNCHANGED <<queue, cur>>

ThreadEnds ==
  /\ \/ pc = "drain" /\ drained = {} /\ Loop("exiting")
     \/ pc = "exiting" /\ Loop("none")
  /\ UNCHANGED <<queue, fut, hnd, cur, drained>>

-----------------------------------------------------------------------------
(* stop_runtime_workers and its retry; ori_rt_init after it succeeded. *)
Shutdown ==
  /\ flag => pc # "none"
  /\ flag' = TRUE /\ pc' = Notified(pc)
  /\ UNCHANGED <<queue, calls, fut, hnd, cur, drained, arrived>>

Restart ==
  /\ flag /\ pc = "none"
  /\ \A o \in Ops : call[o] \in {"new", "returned"}
  /\ \A h \in Handles : hnd[h].holder = "nobody"
  /\ flag' = FALSE
  /\ UNCHANGED <<queue, calls, fut, hnd, pc, cur, drained, arrived>>

ReactorStep ==
  \/ Top \/ Take \/ Wait \/ Check \/ Probe \/ WorkStarts \/ WorkGoesOn \/ WorkEnds
  \/ Finish
  \/ \E o \in Ops : DrainOne(o)
  \/ ThreadEnds

Next ==
  \/ ReactorStep \/ Panic \/ Shutdown \/ Restart
  \/ \E o \in Ops : Push(o) \/ Notify(o) \/ Cancel(o) \/ DropFuture(o)
                    \/ \E h \in Handles : Spawn(o, h)
  \/ \E h \in Handles : Close(h) \/ DropHandle(h) \/ Arrive(h) \/ SyncStarts(h) \/ SyncEnds(h)

Spec == Init /\ [][Next]_vars

(* The thread and callers inside the runtime are scheduled, and a host     *)
(* whose shutdown was busy retries it. No input need ever arrive.          *)
Fairness ==
  /\ WF_vars(ReactorStep)
  /\ \A o \in Ops : WF_vars(Push(o) \/ Notify(o))
  /\ \A h \in Handles : WF_vars(SyncEnds(h))
  /\ WF_vars(Shutdown /\ flag)

FairSpec == Spec /\ Fairness

-----------------------------------------------------------------------------
(* Properties. *)

Held(o) == cur = o \/ o \in drained \/ \E i \in DOMAIN queue : queue[i] = o
Owed(o) == Held(o) \/ call[o] = "push"
Readable(o) == on[o] # Nil /\ (~hnd[on[o]].open \/ hnd[on[o]].input > 0)
Count(b) == IF b THEN 1 ELSE 0

(* Every job owns one reference to its future and one to its handle, and   *)
(* gives both back once, whichever way it ends: completed, panicked,       *)
(* cancelled before or after the poll, or drained. So the reactor never    *)
(* works on a freed handle, and leaks none.                                *)
JobOwnsBoth ==
  /\ \A o \in Ops : fut[o].refs = Count(fut[o].user) + Count(Owed(o))
  /\ \A h \in Handles :
       hnd[h].refs = Count(hnd[h].user) + Cardinality({o \in Ops : on[o] = h /\ Held(o)})

(* Nothing sleeps on a non-empty queue: a job that is put back or pushed   *)
(* while the thread decides to wait is seen.                               *)
NoJobForgotten ==
  pc = "waiting" /\ queue # <<>> => \E o \in Ops : call[o] = "notify"

(* The thread is stopped at a handle: in an operation that waits for its   *)
(* peer with the mutex held, or for the mutex, which a synchronous call    *)
(* holds while it waits.                                                   *)
Blocked ==
  \/ pc = "running" /\ hnd[on[cur]].open /\ hnd[on[cur]].input = 0
  \/ pc \in {"probe", "work"} /\ hnd[on[cur]].holder = "caller"

(* No peer stops it for good. *)
PeersGoOn == []<>~Blocked

(* One idle socket does not keep the reactor from another's operation      *)
(* (poll_fd_ready, io_reactor_loop): an operation whose handle stays ready *)
(* or is closed is settled, as long as the thread lives and is not stopped *)
(* at some handle for good.  It can be: by a peer that does not read what  *)
(* write_all sends, a synchronous call on the same handle, a handle whose  *)
(* mutex is poisoned.                                                      *)
ReadyIsServed ==
  PeersGoOn =>
    \A o \in Ops :
      Held(o) /\ Readable(o) ~> (fut[o].status # "Pending" \/ ~Readable(o) \/ pc = "none")

(* Cancelling is observed: the job of a cancelled operation is given up,   *)
(* and its handle with it, although the socket stays idle forever, under   *)
(* the same condition.                                                     *)
CancelIsObserved ==
  PeersGoOn =>
    \A o \in Ops : Held(o) /\ fut[o].status = "Cancelled" ~> (~Held(o) \/ pc = "none")

=============================================================================

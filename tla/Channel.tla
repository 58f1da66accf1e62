------------------------------- MODULE Channel -------------------------------
(***************************************************************************)
(* The channel of the Ori runtime (ori_channel_create, _create_bounded,    *)
(* _send, _send_managed, _receive, _close and its destructor): a FIFO      *)
(* queue under one mutex, with ONE condition variable `available` on which *)
(* both blocked senders and blocked receivers sleep.                       *)
(*                                                                         *)
(* A step of this module is a critical section of the code: everything a   *)
(* thread does between taking the channel's mutex (or the ARC mutex) and   *)
(* giving it up, by returning or by waiting.  A thread of `asleep` is in   *)
(* the wait set of `available`; a thread with pc "send" or "recv" outside  *)
(* it is about to (re)test the loop condition.                             *)
(*                                                                         *)
(* Ownership of managed items is kept by counting: rc is the ARC reference *)
(* count of a handle, chanEdges and resEdges are the registered edges from *)
(* the channel and from live result objects, userRefs the references held  *)
(* by the program's variables.  rc = 0 means the object has been freed.    *)
(***************************************************************************)
EXTENDS Integers, Sequences, FiniteSets

CONSTANTS Threads,     \* the threads that share the channel
          Handles,     \* the 64-bit values that are sent; each may be a payload address
          Capacity,    \* of a bounded channel
          MaxCalls     \* bound on the calls made during one behaviour

(* A capacity that is zero or negative yields `none`, never a channel. *)
ASSUME ChannelAssumption ==
  /\ IsFiniteSet(Threads)
  /\ Capacity \in Nat \ {0}
  /\ MaxCalls \in Nat

VARIABLES bounded,    \* ori_channel_create_bounded(Capacity), or ori_channel_create,
                      \* whose capacity is usize::MAX
          queue,      \* OriChannelState.queue: the items, oldest first
          closed,     \* OriChannelState.closed
          dropped,    \* the channel's own last reference has been released
          pc,         \* where each thread is inside a call
          item,       \* the item a thread is sending, or has popped
          asleep,     \* threads waiting on the condition variable
          rc, chanEdges, resEdges, userRefs,
          calls       \* calls made so far

chan == <<bounded, queue, closed, dropped>>
arc  == <<rc, chanEdges, resEdges, userRefs>>
vars == <<bounded, queue, closed, dropped, pc, item, asleep,
          rc, chanEdges, resEdges, userRefs, calls>>

(* OriChannelItem: the ownership class travels with the raw value. *)
Item == [value : Handles, managed : BOOLEAN]
NoItem == [value |-> "none"]

PCs == {"idle", "send", "recv", "popped", "borrowed", "unlinked"}

TypeOK ==
  /\ bounded \in BOOLEAN
  /\ queue \in Seq(Item)
  /\ closed \in BOOLEAN
  /\ dropped \in BOOLEAN
  /\ pc \in [Threads -> PCs]
  /\ item \in [Threads -> Item \cup {NoItem}]
  /\ \A t \in Threads : pc[t] \notin {"idle", "recv"} => item[t] \in Item
  /\ asleep \subseteq {t \in Threads : pc[t] \in {"send", "recv"}}
  /\ rc \in [Handles -> Nat]
  /\ chanEdges \in [Handles -> Nat]
  /\ resEdges \in [Handles -> Nat]
  /\ userRefs \in [Handles -> Nat]
  /\ calls \in 0..MaxCalls

Init ==
  /\ bounded \in BOOLEAN
  /\ queue = <<>>
  /\ closed = FALSE
  /\ dropped = FALSE
  /\ pc = [t \in Threads |-> "idle"]
  /\ item = [t \in Threads |-> NoItem]
  /\ asleep = {}
  /\ rc = [v \in Handles |-> 1]
  /\ chanEdges = [v \in Handles |-> 0]
  /\ resEdges = [v \in Handles |-> 0]
  /\ userRefs = [v \in Handles |-> 1]
  /\ calls = 0

-----------------------------------------------------------------------------
(* The condition variable and the reference counts. *)

MutFull == bounded /\ Len(queue) > Capacity

Full == bounded /\ Len(queue) >= Capacity

MutNoNotify == asleep' = asleep

(* Condvar::notify_one wakes one sleeper, whichever side it is on. *)
NotifyOne ==
  IF asleep = {} THEN asleep' = {}
                 ELSE \E w \in asleep : asleep' = asleep \ {w}

NotifyAll == asleep' = {}

Plus(f, v, n) == [f EXCEPT ![v] = @ + n]

(* ori_arc_release: a handle that is no longer registered is ignored. *)
Release(f, v) == IF f[v] > 0 THEN Plus(f, v, -1) ELSE f

(* A thread that has its turn: inside a call and not in the wait set. *)
Awake(t, at) == pc[t] = at /\ t \notin asleep

Return(t) == pc' = [pc EXCEPT ![t] = "idle"] /\ item' = [item EXCEPT ![t] = NoItem]

-----------------------------------------------------------------------------
(* ori_channel_send and ori_channel_send_managed. *)

(* The caller owns a managed value it passes, or passes a stale handle. *)
CallSend(t, v, m) ==
  /\ ~dropped /\ pc[t] = "idle" /\ calls < MaxCalls
  /\ m => (userRefs[v] > 0 \/ rc[v] = 0)
  /\ pc' = [pc EXCEPT ![t] = "send"]
  /\ item' = [item EXCEPT ![t] = [value |-> v, managed |-> m]]
  /\ calls' = calls + 1
  /\ UNCHANGED <<chan, arc, asleep>>

(* `while len >= capacity { ...; available.wait(guard) }` *)
SendWait(t) ==
  /\ Awake(t, "send") /\ Full /\ ~closed
  /\ asleep' = asleep \cup {t}
  /\ UNCHANGED <<chan, arc, pc, item, calls>>

(* Closed, tested in the loop and after it: err. *)
SendClosed(t) ==
  /\ Awake(t, "send") /\ closed
  /\ Return(t)
  /\ UNCHANGED <<chan, arc, asleep, calls>>

(* try_register_arc_edge refuses a payload that is not live: err. *)
SendInvalid(t) ==
  /\ Awake(t, "send") /\ ~Full /\ ~closed
  /\ item[t].managed /\ rc[item[t].value] = 0
  /\ Return(t)
  /\ UNCHANGED <<chan, arc, asleep, calls>>

(* Register the channel's edge, queue the item, notify one sleeper: ok. *)
SendPush(t) ==
  /\ Awake(t, "send") /\ ~Full /\ ~closed
  /\ IF item[t].managed
       THEN /\ rc[item[t].value] > 0
            /\ rc' = Plus(rc, item[t].value, 1)
            /\ chanEdges' = Plus(chanEdges, item[t].value, 1)
       ELSE UNCHANGED <<rc, chanEdges>>
  /\ queue' = Append(queue, item[t])
  /\ NotifyOne
  /\ Return(t)
  /\ UNCHANGED <<bounded, closed, dropped, resEdges, userRefs, calls>>

-----------------------------------------------------------------------------
(* ori_channel_receive. *)

CallReceive(t) ==
  /\ ~dropped /\ pc[t] = "idle" /\ calls < MaxCalls
  /\ pc' = [pc EXCEPT ![t] = "recv"]
  /\ calls' = calls + 1
  /\ UNCHANGED <<chan, arc, item, asleep>>

(* The receive side trusts the class recorded with the slot. *)
OwnsReference(it) == it.managed

(* Pop the oldest item and notify one sleeper.  A scalar is returned as it *)
(* is; a managed item still has its channel edge to hand over.             *)
RecvPop(t) ==
  /\ Awake(t, "recv") /\ queue # <<>>
  /\ queue' = Tail(queue)
  /\ NotifyOne
  /\ IF OwnsReference(Head(queue))
       THEN /\ pc' = [pc EXCEPT ![t] = "popped"]
            /\ item' = [item EXCEPT ![t] = Head(queue)]
       ELSE Return(t)
  /\ UNCHANGED <<bounded, closed, dropped, arc, calls>>

(* Closed and empty: err. *)
RecvClosed(t) ==
  /\ Awake(t, "recv") /\ queue = <<>> /\ closed
  /\ Return(t)
  /\ UNCHANGED <<chan, arc, asleep, calls>>

RecvWait(t) ==
  /\ Awake(t, "recv") /\ queue = <<>> /\ ~closed
  /\ asleep' = asleep \cup {t}
  /\ UNCHANGED <<chan, arc, pc, item, calls>>

(* new_result_borrowed, outside the channel's mutex: the result object's   *)
(* edge is registered if the payload is registered.  (ori_alloc aborts the *)
(* process when memory runs out: the code's null branch is never taken.)   *)
BorrowResult(t) ==
  /\ pc[t] = "popped"
  /\ pc' = [pc EXCEPT ![t] = "borrowed"]
  /\ IF rc[item[t].value] > 0
       THEN /\ rc' = Plus(rc, item[t].value, 1)
            /\ resEdges' = Plus(resEdges, item[t].value, 1)
       ELSE UNCHANGED <<rc, resEdges>>
  /\ UNCHANGED <<chan, item, asleep, chanEdges, userRefs, calls>>

(* ori_arc_unregister_edge(channel, value): the edge goes in one critical  *)
(* section, the reference it stood for in the next.                        *)
UnlinkSlot(t) ==
  /\ pc[t] = "borrowed"
  /\ IF chanEdges[item[t].value] > 0
       THEN /\ chanEdges' = Plus(chanEdges, item[t].value, -1)
            /\ pc' = [pc EXCEPT ![t] = "unlinked"]
            /\ UNCHANGED item
       ELSE Return(t) /\ UNCHANGED chanEdges
  /\ UNCHANGED <<chan, asleep, rc, resEdges, userRefs, calls>>

ReleaseSlot(t) ==
  /\ pc[t] = "unlinked"
  /\ rc' = Release(rc, item[t].value)
  /\ Return(t)
  /\ UNCHANGED <<chan, asleep, chanEdges, resEdges, userRefs, calls>>

-----------------------------------------------------------------------------
(* ori_channel_close, and the release of the channel itself. *)

Close ==
  /\ ~dropped /\ ~closed
  /\ closed' = TRUE
  /\ NotifyAll
  /\ UNCHANGED <<bounded, queue, dropped, pc, item, arc, calls>>

(* Condvar::wait may return without a notification. *)
SpuriousWake(t) ==
  /\ t \in asleep
  /\ asleep' = asleep \ {t}
  /\ UNCHANGED <<chan, pc, item, arc, calls>>

MutDtorBeforeTake == chanEdges

(* What the ARC registry still holds of the channel's edges once the final *)
(* release has taken the channel's children out of it: nothing.            *)
EdgesAfterTake == [v \in Handles |-> 0]

Queued(v) == Cardinality({i \in DOMAIN queue : queue[i].managed /\ queue[i].value = v})

(* ori_channel_dtor unregisters each managed item left in the queue; only  *)
(* an edge that is still registered costs the child a reference.           *)
DtorReleases(v) ==
  IF Queued(v) < EdgesAfterTake[v] THEN Queued(v) ELSE EdgesAfterTake[v]

(* The last reference to the channel goes away (no call is in progress:    *)
(* a caller owns one): children taken, destructor run, children released.  *)
DropChannel ==
  /\ ~dropped /\ \A t \in Threads : pc[t] = "idle"
  /\ dropped' = TRUE
  /\ queue' = <<>>
  /\ chanEdges' = [v \in Handles |-> 0]
  /\ rc' = [v \in Handles |-> rc[v] - chanEdges[v] - DtorReleases(v)]
  /\ UNCHANGED <<bounded, closed, pc, item, asleep, resEdges, userRefs, calls>>

(* The program drops a variable; an in-progress send borrows its caller's. *)
DropRef(v) ==
  /\ userRefs[v] > 0
  /\ userRefs[v] > 1 \/ \A t \in Threads : pc[t] = "send" => item[t].value # v
  /\ userRefs' = Plus(userRefs, v, -1)
  /\ rc' = Release(rc, v)
  /\ UNCHANGED <<chan, pc, item, asleep, chanEdges, resEdges, calls>>

(* The program drops a received result, and with it the result's edge. *)
DropResult(v) ==
  /\ resEdges[v] > 0
  /\ resEdges' = Plus(resEdges, v, -1)
  /\ rc' = Release(rc, v)
  /\ UNCHANGED <<chan, pc, item, asleep, chanEdges, userRefs, calls>>

-----------------------------------------------------------------------------
(* What a thread that is inside a call, and not asleep, does next. *)
Step(t) ==
  \/ SendWait(t) \/ SendClosed(t) \/ SendInvalid(t) \/ SendPush(t)
  \/ RecvPop(t) \/ RecvClosed(t) \/ RecvWait(t)
  \/ BorrowResult(t) \/ UnlinkSlot(t) \/ ReleaseSlot(t)

Call(t) ==
  \/ \E v \in Handles, m \in BOOLEAN : CallSend(t, v, m)
  \/ CallReceive(t)

Program == Close \/ DropChannel \/ \E v \in Handles : DropRef(v) \/ DropResult(v)

Next ==
  \/ \E t \in Threads : Call(t) \/ Step(t) \/ SpuriousWake(t)
  \/ Program

Spec == Init /\ [][Next]_vars

(* A runnable thread is scheduled and the mutex does not starve it.        *)
(* Nothing is promised about callers, Close or spurious wakeups.           *)
Fairness == \A t \in Threads : WF_vars(Step(t))

FairSpec == Spec /\ Fairness

-----------------------------------------------------------------------------
(* Properties. *)

Pending(v) == {t \in Threads : pc[t] = "unlinked" /\ item[t].value = v}

(* Every reference of a sent value is accounted for at every critical      *)
(* section: the count is what the program, the queue's slots, the results  *)
(* and the receivers between unlinking and releasing a slot hold.  A       *)
(* value is freed exactly when the last of these is gone.                  *)
RefCountExact ==
  \A v \in Handles :
    rc[v] = userRefs[v] + chanEdges[v] + resEdges[v] + Cardinality(Pending(v))

InTransfer(v) ==
  {t \in Threads : pc[t] \in {"popped", "borrowed"} /\ item[t].value = v}

(* The channel owns one edge for each managed item in its queue or popped  *)
(* by a receiver that has not unlinked it yet, and none for a scalar that  *)
(* happens to equal a live payload's address: a queued object is never     *)
(* freed under the receiver and never leaks.                               *)
SlotOwnership ==
  \A v \in Handles : chanEdges[v] = Queued(v) + Cardinality(InTransfer(v))

(* Nobody sleeps on a closed channel: close wakes every sender and every   *)
(* receiver, and neither loop goes back to sleep afterwards.               *)
ClosedNobodySleeps == closed => asleep = {}

(* On an unbounded channel, a receive that sleeps over a non-empty queue   *)
(* is always about to be served: some other receive is awake.              *)
NoLostWakeup ==
  ~bounded /\ queue # <<>> /\ (\E t \in asleep : pc[t] = "recv")
     => \E u \in Threads : pc[u] = "recv" /\ u \notin asleep

AwakeReceivers == {t \in Threads : pc[t] = "recv" /\ t \notin asleep}

(* Why an unbounded channel loses no wakeup: senders never sleep there,    *)
(* and while a receiver sleeps, one receiver is on its way for each queued *)
(* item.  (Bounded channels break this: a pop may wake the wrong side.)    *)
WakeCredit ==
  ~bounded => /\ \A t \in asleep : pc[t] = "recv"
              /\ asleep # {} => Cardinality(AwakeReceivers) >= Len(queue)

(* A queued value never waits for ever while a receive is waiting for one: *)
(* what ori_channel_receive is documented to do.  It does not hold of a    *)
(* bounded channel (README, known divergences).                            *)
ReceiverServed ==
  \A t \in Threads : (queue # <<>> /\ pc[t] = "recv") ~> (queue = <<>> \/ pc[t] # "recv")

(* On an unbounded channel it does not, whichever receivers race for it.   *)
UnboundedReceiverServed ==
  \A t \in Threads :
    (~bounded /\ queue # <<>> /\ pc[t] = "recv") ~> (queue = <<>> \/ pc[t] # "recv")

=============================================================================

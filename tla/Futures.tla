------------------------------- MODULE Futures -------------------------------
(***************************************************************************)
(* Futures and cancel tokens of the Ori runtime: set_future_status and its *)
(* callers (ori_future_complete_*, _fail, _cancel, complete_future_owned), *)
(* ori_future_on_ready, ori_task_associate, ori_task_cancel,               *)
(* deregister_future_from_token, and the destructors.                      *)
(*                                                                         *)
(* A future is pending until the first thread to take its mutex settles    *)
(* it.  It may be linked to one token: the future's cancel_token owns a    *)
(* reference to the token, the token's list one to the future, and both    *)
(* are raw counts the cycle collector does not see.  A step is one         *)
(* critical section of the future's mutex, the token's mutex or the ARC    *)
(* registry.  ori_task_associate takes the token's mutex inside the        *)
(* future's: what it does under the two is one step, and the only nesting. *)
(***************************************************************************)
EXTENDS Integers, FiniteSets, Sequences

CONSTANTS Futs, Tokens, Threads,
          Waiters,    \* closures registered with ori_future_on_ready
          Handles,    \* references the program starts with, per object
          Nil

ASSUME FuturesAssumption ==
  /\ Handles \in [Futs \cup Tokens -> Nat \ {0}]
  /\ IsFiniteSet(Threads) /\ IsFiniteSet(Futs) /\ IsFiniteSet(Tokens)
  /\ Futs \cap Tokens = {} /\ Nil \notin Futs \cup Tokens

Final == {"Ready", "Failed", "Cancelled"}

VARIABLES status, waiters, link, managed,   \* OriFutureState, per future
          cancelled, assoc,                 \* RuntimeCancelToken, per token
          queue,                            \* OriExecutor.queue
          done,                             \* closures that ran or were dropped
          rc,                               \* reference counts (0: freed)
          user,                             \* how many of them the program holds
          vrc,                              \* references to managed result values
          pc, fut, tok, unlink, woken, batch, own   \* each thread's call

future == <<status, waiters, link, managed, vrc>>
token  == <<cancelled, assoc>>
exec   == <<queue, done>>
counts == <<rc, user>>
vars   == <<status, waiters, link, managed, vrc, cancelled, assoc, queue, done,
            rc, user, pc, fut, tok, unlink, woken, batch, own>>

Objects == Futs \cup Tokens

(* The types; in particular no count of a future or token underflows.      *)
TypeOK ==
  /\ status \in [Futs -> Final \cup {"Pending"}]
  /\ waiters \in [Futs -> Seq(Waiters)]
  /\ link \in [Futs -> Tokens \cup {Nil}]
  /\ managed \in [Futs -> BOOLEAN]
  /\ cancelled \in [Tokens -> BOOLEAN]
  /\ assoc \in [Tokens -> [Futs -> Nat]]
  /\ queue \in Seq(Waiters) /\ done \in Seq(Waiters)
  /\ rc \in [Objects -> Nat] /\ user \in [Objects -> Nat] /\ vrc \in Int
  /\ pc \in [Threads -> {"idle", "dereg", "relToken", "schedule", "settled",
                         "take", "next", "assocCancel"}]
  /\ fut \in [Threads -> Futs \cup {Nil}]
  /\ tok \in [Threads -> Tokens \cup {Nil}]
  /\ unlink \in [Threads -> Tokens \cup {Nil}]
  /\ woken \in [Threads -> Seq(Waiters)]
  /\ batch \in [Threads -> [Futs -> Nat]]
  /\ own \in [Threads -> {"owned", "borrowed", "batch"}]

Init ==
  /\ status = [f \in Futs |-> "Pending"]
  /\ waiters = [f \in Futs |-> <<>>]
  /\ link = [f \in Futs |-> Nil]
  /\ managed = [f \in Futs |-> FALSE] /\ vrc = 0
  /\ cancelled = [k \in Tokens |-> FALSE]
  /\ assoc = [k \in Tokens |-> [f \in Futs |-> 0]]
  /\ queue = <<>> /\ done = <<>>
  /\ rc = Handles /\ user = Handles
  /\ pc = [t \in Threads |-> "idle"]
  /\ fut = [t \in Threads |-> Nil]
  /\ tok = [t \in Threads |-> Nil]
  /\ unlink = [t \in Threads |-> Nil]
  /\ woken = [t \in Threads |-> <<>>]
  /\ batch = [t \in Threads |-> [f \in Futs |-> 0]]
  /\ own = [t \in Threads |-> "borrowed"]

-----------------------------------------------------------------------------
(* Reference counts. *)

Plus(fn, x, n) == [fn EXCEPT ![x] = @ + n]

(* ori_arc_release of a future.  The last one runs ori_future_dtor: the    *)
(* waiters are dropped without running and a managed value is released.    *)
(* (Its deregister branch is never taken: see RefCountExact.)              *)
ReleaseFuture(f) ==
  IF rc[f] = 1
    THEN /\ rc' = [rc EXCEPT ![f] = 0]
         /\ done' = done \o waiters[f] /\ waiters' = [waiters EXCEPT ![f] = <<>>]
         /\ managed' = [managed EXCEPT ![f] = FALSE]
         /\ vrc' = IF managed[f] THEN vrc - 1 ELSE vrc
         /\ UNCHANGED <<status, link, queue>>
    ELSE rc' = Plus(rc, f, -1) /\ UNCHANGED <<future, exec>>

Goto(t, l) == pc' = [pc EXCEPT ![t] = l]

-----------------------------------------------------------------------------
(* set_future_status(f, s, value, m), called by thread t. *)

(* What becomes of the value of a settle that lost the race. *)
MutKeepValue(m) == IF m THEN vrc + 1 ELSE vrc
LoserValue(m) == vrc

MutResettle(f) == TRUE
Unsettled(f) == status[f] = "Pending"

Settle(t, f, s, m) ==
  /\ fut' = [fut EXCEPT ![t] = f]
  /\ IF Unsettled(f)
       THEN /\ status' = [status EXCEPT ![f] = s]
            /\ managed' = [managed EXCEPT ![f] = m /\ s = "Ready"]
            /\ vrc' = IF m /\ s = "Ready" THEN vrc + 1 ELSE vrc
            /\ woken' = [woken EXCEPT ![t] = waiters[f]]
            /\ waiters' = [waiters EXCEPT ![f] = <<>>]
            /\ unlink' = [unlink EXCEPT ![t] = link[f]]
            /\ link' = [link EXCEPT ![f] = Nil]
            /\ Goto(t, IF link[f] = Nil THEN "schedule" ELSE "dereg")
       ELSE /\ Goto(t, "settled")
            /\ vrc' = LoserValue(m)
            /\ unlink' = [unlink EXCEPT ![t] = Nil]
            /\ woken' = [woken EXCEPT ![t] = <<>>]
            /\ UNCHANGED <<status, waiters, link, managed>>

MutNoListRelease(n) == 0
ListReleases(n) == IF n > 0 THEN 1 ELSE 0

(* deregister_future_from_token, first half: under the token's mutex, the  *)
(* list gives up its entry, and the reference it owns, if it still has it. *)
Deregister(t) ==
  /\ pc[t] = "dereg"
  /\ LET n == assoc[unlink[t]][fut[t]] IN
       /\ assoc' = [assoc EXCEPT ![unlink[t]][fut[t]] = IF n > 0 THEN n - 1 ELSE n]
       /\ rc' = Plus(rc, fut[t], - ListReleases(n))
  /\ Goto(t, "relToken")
  /\ UNCHANGED <<future, cancelled, exec, user, fut, tok, unlink, woken, batch, own>>

(* Second half, outside the mutex: the link's reference to the token. *)
ReleaseLink(t) ==
  /\ pc[t] = "relToken"
  /\ rc' = Plus(rc, unlink[t], -1)
  /\ unlink' = [unlink EXCEPT ![t] = Nil]
  /\ Goto(t, "schedule")
  /\ UNCHANGED <<future, token, exec, user, fut, tok, woken, batch, own>>

(* schedule_future_waiters, one executor push at a time. *)
Schedule(t) ==
  /\ pc[t] = "schedule"
  /\ IF woken[t] = <<>>
       THEN Goto(t, "settled") /\ UNCHANGED <<queue, woken>>
       ELSE /\ queue' = Append(queue, Head(woken[t]))
            /\ woken' = [woken EXCEPT ![t] = Tail(@)]
            /\ UNCHANGED pc
  /\ UNCHANGED <<future, token, done, counts, fut, tok, unlink, batch, own>>

(* The caller's reference: complete_future_owned and the loop of           *)
(* ori_task_cancel release one they own, the others only borrowed theirs.  *)
Settled(t) ==
  /\ pc[t] = "settled"
  /\ fut' = [fut EXCEPT ![t] = Nil]
  /\ Goto(t, IF own[t] = "batch" THEN "next" ELSE "idle")
  /\ IF own[t] = "borrowed"
       THEN user' = Plus(user, fut[t], 1) /\ UNCHANGED <<rc, future, exec>>
       ELSE ReleaseFuture(fut[t]) /\ UNCHANGED user
  /\ UNCHANGED <<token, tok, unlink, woken, batch, own>>

(* A completion, a failure or a cancellation of f by whoever holds it. *)
Complete(t, f, s, m, o) ==
  /\ pc[t] = "idle" /\ user[f] > 0
  /\ m => s = "Ready"
  /\ user' = Plus(user, f, -1)
  /\ own' = [own EXCEPT ![t] = o]
  /\ Settle(t, f, s, m)
  /\ UNCHANGED <<token, exec, rc, tok, batch>>

-----------------------------------------------------------------------------
(* ori_task_cancel. *)

CancelToken(t, k) ==
  /\ pc[t] = "idle" /\ user[k] > 0
  /\ user' = Plus(user, k, -1)
  /\ cancelled' = [cancelled EXCEPT ![k] = TRUE]
  /\ tok' = [tok EXCEPT ![t] = k]
  /\ Goto(t, "take")
  /\ UNCHANGED <<future, assoc, exec, rc, fut, unlink, woken, batch, own>>

(* mem::take of the list, references included. *)
TakeList(t) ==
  /\ pc[t] = "take"
  /\ batch' = [batch EXCEPT ![t] = assoc[tok[t]]]
  /\ assoc' = [assoc EXCEPT ![tok[t]] = [f \in Futs |-> 0]]
  /\ Goto(t, "next")
  /\ UNCHANGED <<future, cancelled, exec, counts, fut, tok, unlink, woken, own>>

CancelNext(t, f) ==
  /\ pc[t] = "next" /\ batch[t][f] > 0
  /\ batch' = [batch EXCEPT ![t][f] = @ - 1]
  /\ own' = [own EXCEPT ![t] = "batch"]
  /\ Settle(t, f, "Cancelled", FALSE)
  /\ UNCHANGED <<token, exec, counts, tok>>

CancelReturns(t) ==
  /\ pc[t] = "next" /\ \A f \in Futs : batch[t][f] = 0
  /\ user' = Plus(user, tok[t], 1)
  /\ tok' = [tok EXCEPT ![t] = Nil]
  /\ Goto(t, "idle")
  /\ UNCHANGED <<future, token, exec, rc, fut, unlink, woken, batch, own>>

-----------------------------------------------------------------------------
(* ori_task_associate; it returns at once unless the future is pending and *)
(* not linked.                                                             *)

MutIgnoreCancelled(k) == FALSE
SeesCancelled(k) == cancelled[k]

Unlinked(f) == link[f] = Nil

MutBorrowedEntry(k, f) == Plus(rc, k, 1)
LinkRetains(k, f) == Plus(Plus(rc, k, 1), f, 1)

Associable(t, k, f) ==
  /\ pc[t] = "idle" /\ user[k] > 0 /\ user[f] > 0
  /\ status[f] = "Pending" /\ Unlinked(f)

Associate(t, k, f) ==
  /\ Associable(t, k, f) /\ ~SeesCancelled(k)
  /\ link' = [link EXCEPT ![f] = k]
  /\ assoc' = [assoc EXCEPT ![k][f] = @ + 1]
  /\ rc' = LinkRetains(k, f)
  /\ UNCHANGED <<status, waiters, managed, vrc, cancelled, exec, user, pc,
                 fut, tok, unlink, woken, batch, own>>

(* The token was cancelled meanwhile: the tentative link is undone under   *)
(* both mutexes, its reference given back and the future cancelled later.  *)
AssociateLate(t, k, f) ==
  /\ Associable(t, k, f) /\ SeesCancelled(k)
  /\ rc' = Plus(rc, k, 1)
  /\ user' = Plus(user, f, -1)
  /\ fut' = [fut EXCEPT ![t] = f] /\ unlink' = [unlink EXCEPT ![t] = k]
  /\ own' = [own EXCEPT ![t] = "borrowed"]
  /\ Goto(t, "assocCancel")
  /\ UNCHANGED <<future, token, exec, tok, woken, batch>>

AssociateCancels(t) ==
  /\ pc[t] = "assocCancel"
  /\ rc' = Plus(rc, unlink[t], -1)
  /\ Settle(t, fut[t], "Cancelled", FALSE)
  /\ UNCHANGED <<token, exec, user, tok, batch, own>>

-----------------------------------------------------------------------------
(* ori_future_on_ready, the executor, and the program's own references. *)

InSeq(w, s) == \E i \in DOMAIN s : s[i] = w

Fresh(w) ==
  /\ ~InSeq(w, queue) /\ ~InSeq(w, done)
  /\ \A f \in Futs : ~InSeq(w, waiters[f])
  /\ \A t \in Threads : ~InSeq(w, woken[t])

OnReady(f, w) ==
  /\ user[f] > 0 /\ Fresh(w)
  /\ IF Unsettled(f)
       THEN waiters' = [waiters EXCEPT ![f] = Append(@, w)] /\ UNCHANGED queue
       ELSE queue' = Append(queue, w) /\ UNCHANGED waiters
  /\ UNCHANGED <<status, link, managed, vrc, token, done, counts, pc,
                 fut, tok, unlink, woken, batch, own>>

RunOne ==
  /\ queue # <<>>
  /\ queue' = Tail(queue) /\ done' = Append(done, Head(queue))
  /\ UNCHANGED <<future, token, counts, pc, fut, tok, unlink, woken, batch, own>>

DropFuture(f) ==
  /\ user[f] > 0
  /\ user' = Plus(user, f, -1)
  /\ ReleaseFuture(f)
  /\ UNCHANGED <<token, pc, fut, tok, unlink, woken, batch, own>>

DropToken(k) ==
  /\ user[k] > 0
  /\ user' = Plus(user, k, -1) /\ rc' = Plus(rc, k, -1)
  /\ UNCHANGED <<future, token, exec, pc, fut, tok, unlink, woken, batch, own>>

-----------------------------------------------------------------------------
Call(t) ==
  \/ \E f \in Futs, s \in Final, m \in BOOLEAN, o \in {"owned", "borrowed"} :
       Complete(t, f, s, m, o)
  \/ \E k \in Tokens : CancelToken(t, k)
  \/ \E k \in Tokens, f \in Futs : Associate(t, k, f) \/ AssociateLate(t, k, f)

Step(t) ==
  \/ Deregister(t) \/ ReleaseLink(t) \/ Schedule(t) \/ Settled(t)
  \/ TakeList(t) \/ CancelReturns(t) \/ AssociateCancels(t)
  \/ \E f \in Futs : CancelNext(t, f)

Next ==
  \/ \E t \in Threads : Call(t) \/ Step(t)
  \/ \E f \in Futs, w \in Waiters : OnReady(f, w)
  \/ RunOne
  \/ \E f \in Futs : DropFuture(f)
  \/ \E k \in Tokens : DropToken(k)

Spec == Init /\ [][Next]_vars

(* A thread inside a call is scheduled; some thread drains the executor    *)
(* (ori_task_block_on does so while it waits).                             *)
Fairness == WF_vars(RunOne) /\ \A t \in Threads : WF_vars(Step(t))

FairSpec == Spec /\ Fairness
-----------------------------------------------------------------------------
(* Properties. *)

(* Threads that own a reference to o through one of their own pointers. *)
HeldBy(o, ptr) == Cardinality({t \in Threads : ptr[t] = o})

InLists(f) == Cardinality({k \in Tokens : assoc[k][f] > 0})
InBatches(f) == Cardinality({t \in Threads : batch[t][f] > 0})

(* Every count is exactly the references that exist: the program's, the    *)
(* ones calls in progress hold, the entries of the token lists and of the  *)
(* lists a cancellation took, and the links.  Neither the settle that races*)
(* with ori_task_cancel nor a late association releases one twice or       *)
(* forgets one.  A freed future is linked to no token.                     *)
RefCountExact ==
  /\ \A f \in Futs : rc[f] = user[f] + HeldBy(f, fut) + InLists(f) + InBatches(f)
  /\ \A k \in Tokens :
       rc[k] = user[k] + HeldBy(k, tok) + HeldBy(k, unlink)
               + Cardinality({f \in Futs : link[f] = k})
  /\ \A f \in Futs : rc[f] = 0 => link[f] = Nil

(* deregister_future_from_token releases the future while it holds the     *)
(* token's mutex: that release is never the last one, so no destructor     *)
(* (of the future, its waiters or its value) runs under the mutex.         *)
NoDestructorUnderTokenLock ==
  [][\A t \in Threads, f \in Futs :
       pc[t] = "dereg" /\ pc'[t] = "relToken" /\ fut[t] = f => rc'[f] > 0]_vars

(* No future escapes a cancelled token: as long as one is linked to it, a  *)
(* thread inside ori_task_cancel is going to take the list, or has taken   *)
(* it and is going to cancel that future.  It is what makes associating    *)
(* while another thread cancels safe.                                      *)
CancelReaches ==
  \A k \in Tokens, f \in Futs : cancelled[k] /\ link[f] = k =>
    \E t \in Threads : tok[t] = k /\ (pc[t] = "take" \/ batch[t][f] > 0)

(* A managed value has exactly the one reference the settled future owns:  *)
(* the loser of the race gives its value up, the destructor releases it.   *)
ValueOwned == vrc = Cardinality({f \in Futs : managed[f]})

Places(w) ==
  {<<"fut", f, i>> : f \in Futs, i \in 1..Cardinality(Waiters)}
  \cup {<<"thr", t, i>> : t \in Threads, i \in 1..Cardinality(Waiters)}
  \cup {<<"que", Nil, i>> : i \in 1..Cardinality(Waiters)}
  \cup {<<"end", Nil, i>> : i \in 1..Cardinality(Waiters)}

At(p, w) ==
  LET s == CASE p[1] = "fut" -> waiters[p[2]]
             [] p[1] = "thr" -> woken[p[2]]
             [] p[1] = "que" -> queue
             [] p[1] = "end" -> done
  IN  p[3] \in DOMAIN s /\ s[p[3]] = w

(* A waiter is owned by one place at a time (a future, a settling thread,  *)
(* the executor) and so runs, or is dropped, at most once; and no settled  *)
(* future keeps one, which nobody would ever schedule.                     *)
WaiterOwnedOnce ==
  /\ \A w \in Waiters : Cardinality({p \in Places(w) : At(p, w)}) <= 1
  /\ \A f \in Futs : status[f] # "Pending" => waiters[f] = <<>>

(* The first settle wins: a settled future keeps its status, and its value *)
(* until it is freed.                                                      *)
SettledOnce ==
  [][\A f \in Futs : status[f] # "Pending" =>
       /\ status'[f] = status[f]
       /\ managed'[f] = managed[f] \/ rc'[f] = 0]_vars

(* A future linked to a cancelled token is settled in the end. *)
CancelSettles ==
  \A k \in Tokens, f \in Futs :
    (cancelled[k] /\ link[f] = k) ~> (status[f] # "Pending")

(* A closure registered with ori_future_on_ready on a future that is, or   *)
(* will be, settled runs in the end.                                       *)
WaiterRuns ==
  \A f \in Futs, w \in Waiters :
    [](InSeq(w, waiters[f]) /\ <>(status[f] # "Pending") => <>InSeq(w, done))
=============================================================================

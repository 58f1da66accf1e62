-------------------------- MODULE SchedulingProofs --------------------------
(***************************************************************************)
(* The four parts of the runtime that hold work for later, each for any    *)
(* number of threads and operations: the task executor, whose queue the    *)
(* threads that block drain on their own stacks, the blocking-I/O pool with*)
(* its worker threads, the readiness reactor and the timer thread.         *)
(*                                                                         *)
(* No task of the executor runs twice or is lost, and a failed await is    *)
(* never reported as success.  In the pool no wakeup is lost on the        *)
(* condition variable that workers and callers share, and its own count of *)
(* its workers is exact again after every shutdown and restart.  In the    *)
(* reactor each job owns its future and its handle until it ends.  In the  *)
(* timer's heap each entry owns its future, and sleeps end in the order of *)
(* their deadlines and never early.                                        *)
(***************************************************************************)
EXTENDS Executor, FiniteSetTheorems, NaturalsInduction, TLAPS

(* The program is at the bottom of its thread's stack, and every call      *)
(* beneath the innermost one is draining the queue for some future.        *)
StackOK(s) ==
  /\ s # <<>> /\ s[Len(s)].task = Nil
  /\ \A i \in DOMAIN s : i > 1 => s[i].at = "drain"
  /\ \A i \in DOMAIN s : s[i].at # "body" => s[i].on \in Futures

Stacks == stack \in [Threads -> Seq(Frame)] /\ \A th \in Threads : StackOK(stack[th])

(* A call that has just awaited a failure finds it in the thread-local.    *)
Seen ==
  \A th \in Threads :
    LET f == stack[th][1] IN f.at = "body" /\ f.saw # "Ready" => last[th] = f.saw

(* Where a task is. *)
Waiting ==
  /\ \A i \in DOMAIN queue : queue[i] \in Spawned \ ran
  /\ \A i, k \in DOMAIN queue : queue[i] = queue[k] => i = k
  /\ \A t \in Spawned \ ran : \E i \in DOMAIN queue : queue[i] = t

Running ==
  /\ \A th \in Threads : \A i \in DOMAIN stack[th] :
       stack[th][i].task # Nil => stack[th][i].task \in ran
  /\ \A th, uh \in Threads : \A i \in DOMAIN stack[th], k \in DOMAIN stack[uh] :
       stack[th][i].task = stack[uh][k].task /\ stack[th][i].task # Nil => th = uh /\ i = k
  /\ \A t \in ran : status[t] = "Pending" =>
       \E th \in Threads : \E i \in DOMAIN stack[th] : stack[th][i].task = t

XInv == TypeOK /\ Stacks /\ Seen /\ FailurePropagates /\ Waiting /\ Running

-----------------------------------------------------------------------------
(* Sequences: a first element that is replaced, added or removed. *)
LEMMA FirstReplaced ==
  ASSUME NEW S, NEW s \in Seq(S), s # <<>>, NEW x \in S, NEW r, r = <<x>> \o Tail(s)
  PROVE  /\ r \in Seq(S) /\ Len(r) = Len(s) /\ DOMAIN r = DOMAIN s /\ 1 \in DOMAIN s
         /\ r[1] = x /\ \A i \in DOMAIN s : i > 1 => r[i] = s[i]
<1>1. Len(s) \in Nat /\ Len(s) > 0 /\ Tail(s) \in Seq(S) /\ Len(Tail(s)) = Len(s) - 1
  OBVIOUS
<1>2. <<x>> \in Seq(S) /\ Len(<<x>>) = 1 /\ <<x>>[1] = x
  OBVIOUS
<1>3. r \in Seq(S) /\ Len(r) = Len(s)
  BY <1>1, <1>2
<1>4. r[1] = x
  BY <1>1, <1>2
<1>5. ASSUME NEW i \in DOMAIN s, i > 1 PROVE r[i] = s[i]
  <2>1. i \in 1..Len(s)
    BY <1>5
  <2>2. r[i] = Tail(s)[i - 1]
    BY <1>1, <1>2, <1>5, <2>1
  <2>3. Tail(s)[i - 1] = s[i]
    BY <1>1, <1>5, <2>1
  <2> QED
    BY <2>2, <2>3
<1> QED
  BY <1>1, <1>3, <1>4, <1>5

(* One more element in front. *)
LEMMA FirstAdded ==
  ASSUME NEW S, NEW s \in Seq(S), NEW x \in S, NEW r, r = <<x>> \o s
  PROVE  /\ r \in Seq(S) /\ Len(s) \in Nat /\ Len(r) = Len(s) + 1 /\ DOMAIN r = 1..(Len(s) + 1)
         /\ DOMAIN s = 1..Len(s) /\ r # <<>>
         /\ r[1] = x /\ \A i \in 2..(Len(s) + 1) : i - 1 \in DOMAIN s /\ r[i] = s[i - 1]
<1>1. Len(s) \in Nat
  OBVIOUS
<1>2. <<x>> \in Seq(S) /\ Len(<<x>>) = 1 /\ <<x>>[1] = x
  OBVIOUS
<1>3. r \in Seq(S) /\ Len(r) = Len(s) + 1
  BY <1>1, <1>2
<1>4. r[1] = x
  BY <1>1, <1>2
<1>5. ASSUME NEW i \in 2..(Len(s) + 1) PROVE i - 1 \in DOMAIN s /\ r[i] = s[i - 1]
  BY <1>1, <1>2
<1> QED
  BY <1>1, <1>3, <1>4, <1>5

(* One element less in front. *)
LEMMA FirstRemoved ==
  ASSUME NEW S, NEW s \in Seq(S), s # <<>>
  PROVE  /\ Tail(s) \in Seq(S) /\ Len(s) \in Nat /\ Len(s) > 0 /\ Len(Tail(s)) = Len(s) - 1
         /\ DOMAIN s = 1..Len(s) /\ DOMAIN Tail(s) = 1..(Len(s) - 1)
         /\ \A i \in 1..(Len(s) - 1) : i + 1 \in DOMAIN s /\ Tail(s)[i] = s[i + 1]
  OBVIOUS

(* Replace changes the innermost call and keeps the tasks of all. *)
LEMMA ReplaceMoves ==
  ASSUME Stacks, NEW th \in Threads, NEW f \in Frame, f.task = Top(th).task, Replace(th, f),
         f.at # "body" => f.on \in Futures
  PROVE  /\ Stacks' /\ stack'[th][1] = f /\ \A u \in Threads \ {th} : stack'[u] = stack[u]
         /\ \A u \in Threads : DOMAIN stack'[u] = DOMAIN stack[u]
         /\ \A u \in Threads : \A i \in DOMAIN stack[u] : stack'[u][i].task = stack[u][i].task
<1>1. /\ stack \in [Threads -> Seq(Frame)] /\ stack[th] \in Seq(Frame) /\ stack[th] # <<>>
      /\ stack' = [stack EXCEPT ![th] = <<f>> \o Tail(stack[th])]
  BY DEF Stacks, StackOK, Replace
<1>2. PICK r : r = <<f>> \o Tail(stack[th])
  OBVIOUS
<1>3. /\ r \in Seq(Frame) /\ Len(r) = Len(stack[th]) /\ DOMAIN r = DOMAIN stack[th]
      /\ 1 \in DOMAIN stack[th]
      /\ r[1] = f /\ \A i \in DOMAIN stack[th] : i > 1 => r[i] = stack[th][i]
  BY <1>1, <1>2, FirstReplaced
<1>4. /\ stack' \in [Threads -> Seq(Frame)] /\ stack'[th] = r
      /\ \A u \in Threads \ {th} : stack'[u] = stack[u]
  BY <1>1, <1>2, <1>3
<1>5. \A i \in DOMAIN stack[th] : i \in Nat /\ i >= 1
  BY <1>1
<1>6. Top(th) = stack[th][1]
  BY <1>1 DEF Top
<1>7. \A i \in DOMAIN stack[th] : r[i].task = stack[th][i].task
  BY <1>3, <1>5, <1>6
<1>8. Stacks'
  <2>1. Len(stack[th]) \in DOMAIN stack[th] /\ r # <<>>
    BY <1>1, <1>3
  <2>2. StackOK(stack[th])
    BY DEF Stacks
  <2>3. StackOK(r)
    BY <1>3, <1>5, <1>7, <2>1, <2>2 DEF StackOK
  <2> QED
    BY <1>4, <2>3 DEF Stacks
<1> QED
  BY <1>3, <1>4, <1>7, <1>8

(* A task that starts is a new innermost call; the others move one down. *)
LEMMA PushMoves ==
  ASSUME Stacks, NEW th \in Threads, stack[th][1].at = "drain", NEW f \in Frame,
         f.at = "body", stack' = [stack EXCEPT ![th] = <<f>> \o @]
  PROVE  /\ Stacks' /\ \A u \in Threads \ {th} : stack'[u] = stack[u]
         /\ Len(stack[th]) \in Nat /\ DOMAIN stack[th] = 1..Len(stack[th])
         /\ DOMAIN stack'[th] = 1..(Len(stack[th]) + 1) /\ stack'[th][1] = f
         /\ \A i \in 2..(Len(stack[th]) + 1) :
              i - 1 \in DOMAIN stack[th] /\ stack'[th][i] = stack[th][i - 1]
<1>1. /\ stack \in [Threads -> Seq(Frame)] /\ stack[th] \in Seq(Frame) /\ stack[th] # <<>>
  BY DEF Stacks, StackOK
<1>2. PICK s \in Seq(Frame) : s = stack[th]
  BY <1>1
<1>3. PICK r : r = <<f>> \o s
  OBVIOUS
<1>4. /\ r \in Seq(Frame) /\ Len(s) \in Nat /\ Len(r) = Len(s) + 1 /\ DOMAIN r = 1..(Len(s) + 1)
      /\ DOMAIN s = 1..Len(s) /\ r # <<>>
      /\ r[1] = f /\ \A i \in 2..(Len(s) + 1) : i - 1 \in DOMAIN s /\ r[i] = s[i - 1]
  BY <1>3, FirstAdded
<1>5. stack' = [stack EXCEPT ![th] = r]
  BY <1>2, <1>3
<1>6. /\ stack' \in [Threads -> Seq(Frame)] /\ stack'[th] = r
      /\ \A u \in Threads \ {th} : stack'[u] = stack[u]
  BY <1>1, <1>4, <1>5
<1>7. StackOK(r)
  <2>1. StackOK(s) /\ s[1].at = "drain" /\ Len(s) > 0
    BY <1>1, <1>2 DEF Stacks
  <2>2. r[Len(r)] = s[Len(s)]
    <3>1. Len(s) + 1 \in 2..(Len(s) + 1) /\ (Len(s) + 1) - 1 = Len(s)
      BY <1>4, <2>1
    <3> QED
      BY <1>4, <3>1
  <2>3. ASSUME NEW i \in DOMAIN r, i > 1 PROVE r[i].at = "drain"
    <3>1. i \in 2..(Len(s) + 1)
      BY <1>4, <2>3
    <3>2. i - 1 \in DOMAIN s /\ r[i] = s[i - 1] /\ (i - 1 = 1 \/ i - 1 > 1)
      BY <1>4, <3>1
    <3> QED
      BY <2>1, <3>2 DEF StackOK
  <2>4. ASSUME NEW i \in DOMAIN r, r[i].at # "body" PROVE r[i].on \in Futures
    <3>1. i \in 2..(Len(s) + 1)
      BY <1>4, <2>4
    <3>2. i - 1 \in DOMAIN s /\ r[i] = s[i - 1]
      BY <1>4, <3>1
    <3> QED
      BY <2>1, <2>4, <3>2 DEF StackOK
  <2> QED
    BY <1>4, <2>1, <2>2, <2>3, <2>4 DEF StackOK
<1>8. Stacks'
  BY <1>6, <1>7 DEF Stacks
<1> QED
  BY <1>2, <1>4, <1>6, <1>8

(* A task that ends uncovers a call that is draining; one was beneath it. *)
LEMMA PopMoves ==
  ASSUME Stacks, NEW th \in Threads, stack[th][1].task # Nil,
         stack' = [stack EXCEPT ![th] = Tail(@)]
  PROVE  /\ Stacks' /\ \A u \in Threads \ {th} : stack'[u] = stack[u]
         /\ Len(stack[th]) \in Nat /\ DOMAIN stack[th] = 1..Len(stack[th])
         /\ DOMAIN stack'[th] = 1..(Len(stack[th]) - 1) /\ stack'[th][1].at = "drain"
         /\ \A i \in 1..(Len(stack[th]) - 1) :
              i + 1 \in DOMAIN stack[th] /\ stack'[th][i] = stack[th][i + 1]
<1>1. /\ stack \in [Threads -> Seq(Frame)] /\ stack[th] \in Seq(Frame) /\ stack[th] # <<>>
  BY DEF Stacks, StackOK
<1>2. PICK s \in Seq(Frame) : s = stack[th]
  BY <1>1
<1>3. PICK r : r = Tail(s)
  OBVIOUS
<1>4. /\ r \in Seq(Frame) /\ Len(s) \in Nat /\ Len(s) > 0 /\ Len(r) = Len(s) - 1
      /\ DOMAIN s = 1..Len(s) /\ DOMAIN r = 1..(Len(s) - 1)
      /\ \A i \in 1..(Len(s) - 1) : i + 1 \in DOMAIN s /\ r[i] = s[i + 1]
  BY <1>1, <1>2, <1>3, FirstRemoved
<1>5. stack' = [stack EXCEPT ![th] = r]
  BY <1>2, <1>3
<1>6. /\ stack' \in [Threads -> Seq(Frame)] /\ stack'[th] = r
      /\ \A u \in Threads \ {th} : stack'[u] = stack[u]
  BY <1>1, <1>4, <1>5
<1>7. StackOK(s) /\ Len(s) > 1
  <2>1. StackOK(s) /\ s[1].task # Nil
    BY <1>2 DEF Stacks
  <2> QED
    BY <1>4, <2>1 DEF StackOK
<1>8. ASSUME NEW i \in DOMAIN r PROVE r[i].at = "drain" /\ r[i].on \in Futures
  BY <1>4, <1>7 DEF StackOK
<1>9. StackOK(r)
  <2>1. r # <<>> /\ Len(s) - 1 \in 1..(Len(s) - 1)
    BY <1>4, <1>7
  <2>2. r[Len(r)] = s[Len(s)]
    BY <1>4, <2>1
  <2> QED
    BY <1>7, <1>8, <2>1, <2>2 DEF StackOK
<1>10. Stacks'
  BY <1>6, <1>9 DEF Stacks
<1>11. r[1].at = "drain"
  BY <1>4, <1>7, <1>8
<1> QED
  BY <1>2, <1>4, <1>6, <1>10, <1>11

(* What every step starts from. *)
LEMMA Parts ==
  ASSUME XInv
  PROVE  /\ TypeOK /\ Stacks /\ Seen /\ FailurePropagates /\ Waiting /\ Running
         /\ \A th \in Threads : Top(th) = stack[th][1] /\ stack[th][1] \in Frame
              /\ 1 \in DOMAIN stack[th]
         /\ \A th \in Threads : Top(th).at # "body" => Top(th).on \in Futures
         /\ Spawned \subseteq Tasks /\ Nil \notin Tasks /\ Nil \notin Events
<1>1. TypeOK /\ Stacks /\ Seen /\ FailurePropagates /\ Waiting /\ Running
  BY DEF XInv
<1>2. ASSUME NEW th \in Threads
      PROVE  Top(th) = stack[th][1] /\ stack[th][1] \in Frame /\ 1 \in DOMAIN stack[th]
  <2>1. stack[th] \in Seq(Frame) /\ stack[th] # <<>>
    BY <1>1 DEF Stacks, StackOK
  <2> QED
    BY <2>1 DEF Top
<1>3. Spawned \subseteq Tasks
  BY <1>1 DEF TypeOK, Spawned
<1>4. \A th \in Threads : Top(th).at # "body" => Top(th).on \in Futures
  BY <1>1, <1>2 DEF Stacks, StackOK
<1> QED
  BY <1>1, <1>2, <1>3, <1>4, ExecutorAssumption DEF ExecutorAssumption

(* The stacks of TypeOK are among what Stacks says. *)
LEMMA TypesOfStacks ==
  ASSUME Stacks,
         /\ status \in [Futures -> Final \cup {"Pending"}]
         /\ queue \in Seq(Tasks) /\ order \in Seq(Tasks) /\ ran \subseteq Spawned
         /\ last \in [Threads -> Final]
         /\ settledBy \in [Tasks -> Final \cup {"nobody", "other"}]
  PROVE  TypeOK
<1>1. ASSUME NEW th \in Threads
      PROVE  stack[th] # <<>> /\ \A i \in DOMAIN stack[th] : stack[th][i] \in Frame
  <2>1. stack[th] \in Seq(Frame) /\ stack[th] # <<>>
    BY DEF Stacks, StackOK
  <2> QED
    BY <2>1
<1> QED
  BY <1>1 DEF TypeOK

(* A step of the loop in ori_task_block_on is one of the innermost call.   *)
LEMMA LoopKeeps ==
  ASSUME XInv, NEW th \in Threads, NEW f \in Frame, f.task = Top(th).task, Replace(th, f),
         f.at # "body" => f.on \in Futures, f.at = "body" /\ f.saw # "Ready" => last'[th] = f.saw,
         last' \in [Threads -> Final], \A u \in Threads \ {th} : last'[u] = last[u],
         UNCHANGED <<status, queue, order, ran, settledBy>>
  PROVE  XInv'
<1>0. /\ TypeOK /\ Stacks /\ Seen /\ FailurePropagates /\ Waiting /\ Running
  BY Parts
<1>1. /\ Stacks' /\ stack'[th][1] = f /\ \A u \in Threads \ {th} : stack'[u] = stack[u]
      /\ \A u \in Threads : DOMAIN stack'[u] = DOMAIN stack[u]
      /\ \A u \in Threads : \A i \in DOMAIN stack[u] : stack'[u][i].task = stack[u][i].task
  BY <1>0, ReplaceMoves
<1>2. Spawned' = Spawned
  BY DEF Spawned
<1>3. TypeOK'
  <2>1. /\ status' \in [Futures -> Final \cup {"Pending"}]
        /\ queue' \in Seq(Tasks) /\ order' \in Seq(Tasks) /\ ran' \subseteq Spawned'
        /\ settledBy' \in [Tasks -> Final \cup {"nobody", "other"}]
    BY <1>0, <1>2 DEF TypeOK
  <2> QED
    BY <1>1, <2>1 DEF TypeOK, Stacks, StackOK
<1>4. Seen'
  BY <1>0, <1>1 DEF Seen
<1>5. FailurePropagates' /\ Waiting'
  BY <1>0, <1>2 DEF FailurePropagates, Waiting
<1>6. Running'
  BY <1>0, <1>1 DEF Running
<1> QED
  BY <1>1, <1>3, <1>4, <1>5, <1>6 DEF XInv

\* Blocking, draining and looking again leave the thread-local status alone.
LEMMA BlockOnKeeps ==
  ASSUME XInv, NEW th \in Threads,
         \/ \E f \in Futures : BlockOn(th, f)
         \/ BlockOnDrains(th) \/ BlockOnLooksAgain(th)
  PROVE  XInv'
<1>0. /\ TypeOK /\ Top(th) \in Frame /\ Spawned \subseteq Tasks
  BY Parts
<1>1. \A f \in Futures : [Top(th) EXCEPT !.on = f, !.at = "check"] \in Frame
                         /\ [Top(th) EXCEPT !.on = f, !.at = "check"].task = Top(th).task
                         /\ [Top(th) EXCEPT !.on = f, !.at = "check"].at = "check"
                         /\ [Top(th) EXCEPT !.on = f, !.at = "check"].on = f
  BY <1>0 DEF Frame
<1>2. \A p \in {"check", "drain"} : [Top(th) EXCEPT !.at = p] \in Frame
                         /\ [Top(th) EXCEPT !.at = p].task = Top(th).task
                         /\ [Top(th) EXCEPT !.at = p].at = p
                         /\ [Top(th) EXCEPT !.at = p].on = Top(th).on
  BY <1>0 DEF Frame
<1>3. PICK f \in Frame : /\ f.task = Top(th).task /\ f.at # "body" /\ f.on \in Futures
                         /\ Replace(th, f)
  BY <1>1, <1>2, Parts DEF BlockOn, BlockOnDrains, BlockOnLooksAgain
<1>4. UNCHANGED <<status, queue, order, ran, last, settledBy>> /\ last \in [Threads -> Final]
  BY <1>0 DEF BlockOn, BlockOnDrains, BlockOnLooksAgain, TypeOK
<1> QED
  BY <1>3, <1>4, LoopKeeps

\* block_on returns: call and thread-local learn the same status.
LEMMA ReturnsKeeps ==
  ASSUME XInv, NEW th \in Threads, BlockOnReturns(th)
  PROVE  XInv'
<1>0. /\ TypeOK /\ Top(th) \in Frame /\ Nil \notin Tasks /\ Nil \notin Events
  BY Parts
<1>1. PICK s \in Final : /\ last' = [last EXCEPT ![th] = s]
                         /\ Replace(th, [Top(th) EXCEPT !.on = Nil, !.at = "body", !.saw = s])
  <2>1. Top(th).on \in Futures
    BY Parts DEF BlockOnReturns
  <2> QED
    BY <1>0, <2>1 DEF BlockOnReturns, TypeOK
<1>2. PICK f \in Frame : /\ f = [Top(th) EXCEPT !.on = Nil, !.at = "body", !.saw = s]
                         /\ f.task = Top(th).task /\ f.saw = s /\ f.at = "body"
  <2>1. PICK b \in Frame : b = Top(th)
    BY <1>0
  <2>2. PICK f : f = [b EXCEPT !.on = Nil, !.at = "body", !.saw = s]
    OBVIOUS
  <2>3. f.task = b.task /\ f.saw = s /\ f.at = "body" /\ f.on = Nil
    BY <2>2 DEF Frame
  <2>4. f \in Frame
    BY <2>2 DEF Frame
  <2> QED
    BY <2>1, <2>2, <2>3, <2>4
<1>3. /\ last'[th] = s /\ last' \in [Threads -> Final]
      /\ \A u \in Threads \ {th} : last'[u] = last[u]
  BY <1>0, <1>1 DEF TypeOK
<1>4. UNCHANGED <<status, queue, order, ran, settledBy>>
  BY DEF BlockOnReturns
<1> QED
  BY <1>1, <1>2, <1>3, <1>4, LoopKeeps

(* A task that is spawned goes to the end of the queue. *)
LEMMA SpawnKeeps ==
  ASSUME XInv, NEW th \in Threads, NEW t \in Tasks, Spawn(th, t)
  PROVE  XInv'
<1>0. /\ TypeOK /\ Stacks /\ Seen /\ FailurePropagates /\ Waiting /\ Running
  BY Parts
<1>1. /\ queue \in Seq(Tasks) /\ order \in Seq(Tasks) /\ Len(queue) \in Nat /\ Len(order) \in Nat
      /\ queue' = Append(queue, t) /\ order' = Append(order, t) /\ t \notin Spawned
      /\ UNCHANGED <<status, ran, stack, last, settledBy>>
  BY <1>0 DEF Spawn, TypeOK
<1>2. /\ queue' \in Seq(Tasks) /\ DOMAIN queue = 1..Len(queue)
      /\ DOMAIN queue' = 1..(Len(queue) + 1)
      /\ queue'[Len(queue) + 1] = t /\ \A i \in 1..Len(queue) : queue'[i] = queue[i]
  BY <1>1
<1>3. /\ order' \in Seq(Tasks) /\ DOMAIN order = 1..Len(order)
      /\ DOMAIN order' = 1..(Len(order) + 1)
      /\ order'[Len(order) + 1] = t /\ \A i \in 1..Len(order) : order'[i] = order[i]
  BY <1>1
<1>4. Spawned' = Spawned \cup {t}
  <2>1. Len(order) + 1 \in DOMAIN order' /\ \A i \in DOMAIN order : i \in DOMAIN order'
    BY <1>1, <1>3
  <2>2. \A i \in DOMAIN order' : i \in DOMAIN order \/ i = Len(order) + 1
    BY <1>1, <1>3
  <2>3. ASSUME NEW x \in Spawned' PROVE x \in Spawned \cup {t}
    BY <1>3, <2>2 DEF Spawned
  <2>4. ASSUME NEW x \in Spawned \cup {t} PROVE x \in Spawned'
    BY <1>3, <2>1 DEF Spawned
  <2> QED
    BY <2>3, <2>4
<1>5. TypeOK'
  BY <1>0, <1>1, <1>2, <1>3, <1>4 DEF TypeOK
<1>6. Waiting'
  <2>1. t \notin ran
    BY <1>0, <1>1 DEF TypeOK
  <2>2. \A i \in DOMAIN queue' : i \in DOMAIN queue \/ i = Len(queue) + 1
    BY <1>1, <1>2
  <2>3. \A i \in DOMAIN queue : i \in DOMAIN queue' /\ queue'[i] = queue[i] /\ queue[i] \in Spawned
    BY <1>0, <1>1, <1>2 DEF Waiting
  <2>4. \A i \in DOMAIN queue' : queue'[i] \in Spawned' \ ran'
    BY <1>0, <1>1, <1>2, <1>4, <2>1, <2>2, <2>3 DEF Waiting
  <2>5. \A i, k \in DOMAIN queue' : queue'[i] = queue'[k] => i = k
    BY <1>0, <1>1, <1>2, <2>2, <2>3 DEF Waiting
  <2>6. \A x \in Spawned' \ ran' : \E i \in DOMAIN queue' : queue'[i] = x
    <3>1. Len(queue) + 1 \in DOMAIN queue'
      BY <1>1, <1>2
    <3> QED
      BY <1>0, <1>1, <1>2, <1>4, <2>3, <3>1 DEF Waiting
  <2> QED
    BY <2>4, <2>5, <2>6 DEF Waiting
<1>7. Stacks' /\ Seen' /\ FailurePropagates' /\ Running'
  BY <1>0, <1>1 DEF Stacks, StackOK, Seen, FailurePropagates, Running
<1> QED
  BY <1>5, <1>6, <1>7 DEF XInv

(* ori_executor_run_one moves the first task from the queue to a stack. *)
LEMMA RunOneKeeps ==
  ASSUME XInv, NEW th \in Threads, RunOne(th)
  PROVE  XInv'
<1>0. /\ TypeOK /\ Stacks /\ Seen /\ FailurePropagates /\ Waiting /\ Running /\ Nil \notin Tasks
      /\ Top(th) = stack[th][1] /\ 1 \in DOMAIN stack[th]
  BY Parts
<1>1. PICK t \in Tasks : t = Head(queue)
  BY <1>0 DEF RunOne, TypeOK
<1>2. /\ queue \in Seq(Tasks) /\ queue # <<>> /\ queue' = Tail(queue) /\ ran' = ran \cup {t}
      /\ stack[th][1].at = "drain" /\ stack' = [stack EXCEPT ![th] = <<Fresh(t)>> \o @]
      /\ UNCHANGED <<status, order, last, settledBy>>
  BY <1>0, <1>1 DEF RunOne, AfterPop, TypeOK
<1>3. /\ queue' \in Seq(Tasks) /\ Len(queue) \in Nat /\ Len(queue) > 0
      /\ DOMAIN queue = 1..Len(queue) /\ DOMAIN queue' = 1..(Len(queue) - 1)
      /\ \A i \in 1..(Len(queue) - 1) : i + 1 \in DOMAIN queue /\ queue'[i] = queue[i + 1]
  BY <1>2, FirstRemoved
<1>4. 1 \in DOMAIN queue /\ queue[1] = t /\ t \in Spawned \ ran
  BY <1>0, <1>1, <1>2, <1>3 DEF Waiting
<1>5. Fresh(t) \in Frame /\ Fresh(t).task = t /\ Fresh(t).at = "body" /\ Fresh(t).saw = "Ready"
  BY DEF Fresh, Frame, Final
<1>6. /\ Stacks' /\ \A u \in Threads \ {th} : stack'[u] = stack[u]
      /\ Len(stack[th]) \in Nat /\ DOMAIN stack[th] = 1..Len(stack[th])
      /\ DOMAIN stack'[th] = 1..(Len(stack[th]) + 1) /\ stack'[th][1] = Fresh(t)
      /\ \A i \in 2..(Len(stack[th]) + 1) :
           i - 1 \in DOMAIN stack[th] /\ stack'[th][i] = stack[th][i - 1]
  BY <1>0, <1>2, <1>5, PushMoves
<1>7. Spawned' = Spawned
  BY <1>2 DEF Spawned
<1>8. TypeOK'
  <2>1. \A u \in Threads : stack'[u] # <<>> /\ \A i \in DOMAIN stack'[u] : stack'[u][i] \in Frame
    <3>1. ASSUME NEW u \in Threads
          PROVE  stack'[u] # <<>> /\ \A i \in DOMAIN stack'[u] : stack'[u][i] \in Frame
      <4>1. stack'[u] \in Seq(Frame) /\ stack'[u] # <<>>
        BY <1>6 DEF Stacks, StackOK
      <4> QED
        BY <4>1
    <3> QED
      BY <3>1
  <2> QED
    BY <1>0, <1>2, <1>3, <1>4, <1>7, <2>1 DEF TypeOK
<1>9. Seen' /\ FailurePropagates'
  BY <1>0, <1>2, <1>5, <1>6 DEF Seen, FailurePropagates
<1>10. Waiting'
  <2>1. ASSUME NEW i \in DOMAIN queue' PROVE queue'[i] \in Spawned' \ ran'
    <3>1. i + 1 \in DOMAIN queue /\ queue'[i] = queue[i + 1] /\ i + 1 # 1
      BY <1>3
    <3>2. queue[i + 1] # t
      BY <1>0, <1>4, <3>1 DEF Waiting
    <3> QED
      BY <1>0, <1>2, <1>7, <3>1, <3>2 DEF Waiting
  <2>2. ASSUME NEW i \in DOMAIN queue', NEW k \in DOMAIN queue', queue'[i] = queue'[k] PROVE i = k
    <3>1. i \in Nat /\ k \in Nat /\ i + 1 \in DOMAIN queue /\ k + 1 \in DOMAIN queue
          /\ queue[i + 1] = queue[k + 1]
      BY <1>3, <2>2
    <3>2. i + 1 = k + 1
      BY <1>0, <3>1 DEF Waiting
    <3> QED
      BY <3>1, <3>2
  <2>3. ASSUME NEW x \in Spawned' \ ran' PROVE \E i \in DOMAIN queue' : queue'[i] = x
    <3>1. PICK k \in DOMAIN queue : queue[k] = x
      BY <1>0, <1>2, <1>7 DEF Waiting
    <3>2. x # t
      BY <1>2
    <3>3. k # 1 /\ k \in 1..Len(queue)
      BY <1>3, <1>4, <3>1, <3>2
    <3>4. k - 1 \in 1..(Len(queue) - 1) /\ (k - 1) + 1 = k
      BY <1>3, <3>3
    <3>5. k - 1 \in DOMAIN queue' /\ queue'[k - 1] = x
      BY <1>3, <3>1, <3>4
    <3> QED
      BY <3>5
  <2> QED
    BY <2>1, <2>2, <2>3 DEF Waiting
<1>11. Running'
  <2>1. ASSUME NEW u \in Threads, NEW i \in DOMAIN stack'[u], stack'[u][i].task # Nil
        PROVE  \/ u = th /\ i = 1 /\ stack'[u][i].task = t
               \/ /\ u # th /\ i \in DOMAIN stack[u] /\ stack[u][i].task = stack'[u][i].task
                  /\ stack'[u][i].task \in ran
               \/ /\ u = th /\ i - 1 \in DOMAIN stack[u] /\ stack[u][i - 1].task = stack'[u][i].task
                  /\ stack'[u][i].task \in ran
    <3>1. CASE u # th
      BY <1>0, <1>6, <2>1, <3>1 DEF Running
    <3>2. CASE u = th /\ i = 1
      BY <1>5, <1>6, <3>2
    <3>3. CASE u = th /\ i # 1
      <4>1. i \in 2..(Len(stack[th]) + 1)
        BY <1>6, <2>1, <3>3
      <4>2. i - 1 \in DOMAIN stack[th] /\ stack'[th][i] = stack[th][i - 1]
        BY <1>6, <4>1
      <4> QED
        BY <1>0, <2>1, <3>3, <4>2 DEF Running
    <3> QED
      BY <3>1, <3>2, <3>3
  <2>2. \A u \in Threads : \A i \in DOMAIN stack'[u] :
          stack'[u][i].task # Nil => stack'[u][i].task \in ran'
    BY <1>2, <2>1
  <2>3. ASSUME NEW u \in Threads, NEW w \in Threads, NEW i \in DOMAIN stack'[u],
               NEW k \in DOMAIN stack'[w],
               stack'[u][i].task = stack'[w][k].task, stack'[u][i].task # Nil
        PROVE  u = w /\ i = k
    <3>0. i \in Int /\ k \in Int
      <4>1. stack'[u] \in Seq(Frame) /\ stack'[w] \in Seq(Frame)
        BY <1>6 DEF Stacks
      <4> QED
        BY <4>1
    <3>1. CASE stack'[u][i].task = t
      BY <1>4, <2>1, <2>3, <3>1
    <3>2. CASE stack'[u][i].task # t
      <4>1. PICK a \in DOMAIN stack[u] : /\ stack[u][a].task = stack'[u][i].task
                                         /\ a = IF u = th THEN i - 1 ELSE i
        BY <2>1, <2>3, <3>2
      <4>2. PICK b \in DOMAIN stack[w] : /\ stack[w][b].task = stack'[w][k].task
                                         /\ b = IF w = th THEN k - 1 ELSE k
        BY <2>1, <2>3, <3>2
      <4>3. u = w /\ a = b
        BY <1>0, <2>3, <4>1, <4>2 DEF Running
      <4> QED
        BY <3>0, <4>1, <4>2, <4>3
    <3> QED
      BY <3>1, <3>2
  <2>4. ASSUME NEW x \in ran', status'[x] = "Pending"
        PROVE  \E u \in Threads : \E i \in DOMAIN stack'[u] : stack'[u][i].task = x
    <3>1. CASE x = t
      <4>1. 1 \in DOMAIN stack'[th]
        BY <1>6
      <4> QED
        BY <1>5, <1>6, <3>1, <4>1
    <3>2. CASE x # t
      <4>0. PICK u \in Threads : \E a \in DOMAIN stack[u] : stack[u][a].task = x
        BY <1>0, <1>2, <2>4, <3>2 DEF Running
      <4>1. PICK a \in DOMAIN stack[u] : stack[u][a].task = x
        BY <4>0
      <4>2. CASE u # th
        BY <1>6, <4>1, <4>2
      <4>3. CASE u = th
        <5>1. a + 1 \in 2..(Len(stack[th]) + 1) /\ (a + 1) - 1 = a
          BY <1>6, <4>1, <4>3
        <5>2. a + 1 \in DOMAIN stack'[th] /\ stack'[th][a + 1] = stack[th][a]
          BY <1>6, <5>1
        <5> QED
          BY <4>1, <4>3, <5>2
      <4> QED
        BY <4>2, <4>3
    <3> QED
      BY <3>1, <3>2
  <2> QED
    BY <2>2, <2>3, <2>4 DEF Running
<1> QED
  BY <1>6, <1>8, <1>9, <1>10, <1>11 DEF XInv

(* A task that ends settles its future, unless somebody was faster, and    *)
(* leaves its thread to a call that is still waiting.                      *)
LEMMA EndsKeeps ==
  ASSUME XInv, NEW th \in Threads, NEW t \in Tasks, Top(th).task = t, NEW s \in Final,
         NEW b \in Final \cup {"other"}, b \in {"Failed", "Cancelled"} => s = b,
         Settle(t, s),
         settledBy' = IF status[t] # "Pending" THEN settledBy ELSE [settledBy EXCEPT ![t] = b],
         stack' = [stack EXCEPT ![th] = Tail(@)],
         last' \in [Threads -> Final], \A u \in Threads \ {th} : last'[u] = last[u],
         UNCHANGED <<queue, order, ran>>
  PROVE  XInv'
<1>0. /\ TypeOK /\ Stacks /\ Seen /\ FailurePropagates /\ Waiting /\ Running /\ Nil \notin Tasks
      /\ Top(th) = stack[th][1] /\ 1 \in DOMAIN stack[th]
  BY Parts
<1>1. /\ Stacks' /\ \A u \in Threads \ {th} : stack'[u] = stack[u]
      /\ Len(stack[th]) \in Nat /\ DOMAIN stack[th] = 1..Len(stack[th])
      /\ DOMAIN stack'[th] = 1..(Len(stack[th]) - 1) /\ stack'[th][1].at = "drain"
      /\ \A i \in 1..(Len(stack[th]) - 1) :
           i + 1 \in DOMAIN stack[th] /\ stack'[th][i] = stack[th][i + 1]
  <2>1. stack[th][1].task # Nil
    BY <1>0
  <2> QED
    BY <1>0, <2>1, PopMoves
<1>2. t \in Futures /\ status \in [Futures -> Final \cup {"Pending"}]
      /\ settledBy \in [Tasks -> Final \cup {"nobody", "other"}] /\ "Pending" \notin Final
  BY <1>0 DEF TypeOK, Futures, Final
<1>3. /\ status' \in [Futures -> Final \cup {"Pending"}] /\ status'[t] # "Pending"
      /\ \A x \in Futures : status[x] # "Pending" => status'[x] = status[x]
      /\ \A x \in Futures \ {t} : status'[x] = status[x]
      /\ status[t] = "Pending" => status'[t] = s
  BY <1>2 DEF Settle
<1>4. /\ settledBy' \in [Tasks -> Final \cup {"nobody", "other"}]
      /\ \A x \in Tasks \ {t} : settledBy'[x] = settledBy[x]
      /\ settledBy'[t] = IF status[t] # "Pending" THEN settledBy[t] ELSE b
  BY <1>2
<1>5. Spawned' = Spawned
  BY DEF Spawned
<1>6. TypeOK'
  <2>1. \A u \in Threads : stack'[u] # <<>> /\ \A i \in DOMAIN stack'[u] : stack'[u][i] \in Frame
    <3>1. ASSUME NEW u \in Threads
          PROVE  stack'[u] # <<>> /\ \A i \in DOMAIN stack'[u] : stack'[u][i] \in Frame
      <4>1. stack'[u] \in Seq(Frame) /\ stack'[u] # <<>>
        BY <1>1 DEF Stacks, StackOK
      <4> QED
        BY <4>1
    <3> QED
      BY <3>1
  <2> QED
    BY <1>0, <1>3, <1>4, <1>5, <2>1 DEF TypeOK
<1>7. Seen'
  BY <1>0, <1>1 DEF Seen
<1>8. FailurePropagates'
  <2>1. ASSUME NEW x \in Tasks, settledBy'[x] \in {"Failed", "Cancelled"}
        PROVE  status'[x] = settledBy'[x]
    <3>1. x \in Futures
      BY DEF Futures
    <3>2. CASE x = t /\ status[t] = "Pending"
      BY <1>3, <1>4, <2>1, <3>2
    <3>3. CASE x # t \/ status[t] # "Pending"
      <4>1. settledBy'[x] = settledBy[x]
        BY <1>4, <3>3
      <4>2. status[x] = settledBy[x]
        BY <1>0, <2>1, <4>1 DEF FailurePropagates
      <4> QED
        BY <1>3, <2>1, <3>1, <4>1, <4>2
    <3> QED
      BY <3>2, <3>3
  <2> QED
    BY <2>1 DEF FailurePropagates
<1>9. Waiting'
  BY <1>0, <1>5 DEF Waiting
<1>10. Running'
  <2>1. ASSUME NEW u \in Threads, NEW i \in DOMAIN stack'[u]
        PROVE  \E a \in DOMAIN stack[u] : /\ stack[u][a].task = stack'[u][i].task
                                          /\ a = IF u = th THEN i + 1 ELSE i
    <3>1. CASE u # th
      BY <1>1, <2>1, <3>1
    <3>2. CASE u = th
      BY <1>1, <2>1, <3>2
    <3> QED
      BY <3>1, <3>2
  <2>2. \A u \in Threads : \A i \in DOMAIN stack'[u] :
          stack'[u][i].task # Nil => stack'[u][i].task \in ran'
    BY <1>0, <2>1 DEF Running
  <2>3. ASSUME NEW u \in Threads, NEW w \in Threads,
               NEW i \in DOMAIN stack'[u], NEW k \in DOMAIN stack'[w],
               stack'[u][i].task = stack'[w][k].task, stack'[u][i].task # Nil
        PROVE  u = w /\ i = k
    <3>0. i \in Int /\ k \in Int
      <4>1. stack'[u] \in Seq(Frame) /\ stack'[w] \in Seq(Frame)
        BY <1>1 DEF Stacks
      <4> QED
        BY <4>1
    <3>1. PICK a \in DOMAIN stack[u] : /\ stack[u][a].task = stack'[u][i].task
                                       /\ a = IF u = th THEN i + 1 ELSE i
      BY <2>1
    <3>2. PICK c \in DOMAIN stack[w] : /\ stack[w][c].task = stack'[w][k].task
                                       /\ c = IF w = th THEN k + 1 ELSE k
      BY <2>1
    <3>3. u = w /\ a = c
      BY <1>0, <2>3, <3>1, <3>2 DEF Running
    <3> QED
      BY <3>0, <3>1, <3>2, <3>3
  <2>4. ASSUME NEW x \in ran', status'[x] = "Pending"
        PROVE  \E u \in Threads : \E i \in DOMAIN stack'[u] : stack'[u][i].task = x
    <3>1. x \in Futures /\ x \in ran
      BY <1>0, Parts DEF TypeOK, Futures
    <3>2. x # t /\ status[x] = "Pending"
      BY <1>2, <1>3, <2>4, <3>1
    <3>3. PICK u \in Threads : \E a \in DOMAIN stack[u] : stack[u][a].task = x
      BY <1>0, <3>1, <3>2 DEF Running
    <3>4. PICK a \in DOMAIN stack[u] : stack[u][a].task = x
      BY <3>3
    <3>5. CASE u # th
      BY <1>1, <3>4, <3>5
    <3>6. CASE u = th
      <4>1. a # 1
        BY <1>0, <3>2, <3>4, <3>6
      <4>2. a - 1 \in 1..(Len(stack[th]) - 1) /\ (a - 1) + 1 = a
        BY <1>1, <3>4, <3>6, <4>1
      <4>3. a - 1 \in DOMAIN stack'[th] /\ stack'[th][a - 1] = stack[th][a]
        BY <1>1, <4>2
      <4> QED
        BY <3>4, <3>6, <4>3
    <3> QED
      BY <3>5, <3>6
  <2> QED
    BY <2>2, <2>3, <2>4 DEF Running
<1> QED
  BY <1>1, <1>6, <1>7, <1>8, <1>9, <1>10 DEF XInv

(* A task that returns settles with the thread's last await status, which  *)
(* is its own if that was a failure; one that panics settles as failed.    *)
LEMMA TaskEndsKeeps ==
  ASSUME XInv, NEW th \in Threads, Ends(th)
  PROVE  XInv'
<1>0. /\ TypeOK /\ Seen /\ Nil \notin Tasks
      /\ Top(th) = stack[th][1] /\ Top(th) \in Frame /\ last \in [Threads -> Final]
  BY Parts DEF TypeOK
<1>1. PICK t \in Tasks : Top(th).task = t
  BY <1>0 DEF Ends, TaskReturns, TaskPanics, Frame
<1>2. CASE TaskReturns(th)
  <2>1. last[th] \in Final /\ Top(th).saw \in Final
    BY <1>0 DEF Frame
  <2>2. Top(th).saw \in {"Failed", "Cancelled"} => last[th] = Top(th).saw
    BY <1>0, <1>2 DEF Seen, TaskReturns
  <2>3. /\ last' = [last EXCEPT ![th] = "Ready"] /\ "Ready" \in Final
        /\ last' \in [Threads -> Final] /\ \A u \in Threads \ {th} : last'[u] = last[u]
    BY <1>0, <1>2 DEF TaskReturns, TakeStatus, Final
  <2>4. /\ Settle(t, last[th]) /\ stack' = [stack EXCEPT ![th] = Tail(@)]
        /\ settledBy' = IF status[t] # "Pending" THEN settledBy
                        ELSE [settledBy EXCEPT ![t] = Top(th).saw]
        /\ UNCHANGED <<queue, order, ran>>
    BY <1>1, <1>2 DEF TaskReturns, Outcome
  <2> QED
    BY <1>1, <2>1, <2>2, <2>3, <2>4, EndsKeeps
<1>3. CASE TaskPanics(th)
  <2>1. /\ Settle(t, "Failed") /\ stack' = [stack EXCEPT ![th] = Tail(@)]
        /\ settledBy' = IF status[t] # "Pending" THEN settledBy
                        ELSE [settledBy EXCEPT ![t] = "other"]
        /\ UNCHANGED <<queue, order, ran, last>>
    BY <1>1, <1>3 DEF TaskPanics
  <2>2. "Failed" \in Final
    BY DEF Final
  <2> QED
    BY <1>0, <1>1, <2>1, <2>2, EndsKeeps
<1> QED
  BY <1>2, <1>3 DEF Ends

(* Events that settle and cancellations do not touch what is settled. *)
LEMMA OthersKeep ==
  ASSUME XInv, (\E f \in Events, s \in Final : EventSettles(f, s)) \/ \E t \in Tasks : Cancel(t)
  PROVE  XInv'
<1>0. /\ TypeOK /\ Stacks /\ Seen /\ FailurePropagates /\ Waiting /\ Running
  BY Parts
<1>1. PICK f \in Futures, s \in Final :
        /\ status[f] = "Pending" /\ status' = [status EXCEPT ![f] = s]
        /\ \/ f \notin Tasks /\ settledBy' = settledBy
           \/ settledBy' = [settledBy EXCEPT ![f] = "other"]
  BY ExecutorAssumption DEF EventSettles, Cancel, Futures, Final, ExecutorAssumption
<1>2. UNCHANGED <<queue, order, ran, stack, last>>
  BY DEF EventSettles, Cancel
<1>3. /\ status \in [Futures -> Final \cup {"Pending"}] /\ "Pending" \notin Final
      /\ settledBy \in [Tasks -> Final \cup {"nobody", "other"}]
  BY <1>0 DEF TypeOK, Final
<1>4. /\ status' \in [Futures -> Final \cup {"Pending"}]
      /\ \A x \in Futures : status[x] # "Pending" => status'[x] = status[x]
      /\ settledBy' \in [Tasks -> Final \cup {"nobody", "other"}]
      /\ \A x \in Tasks : settledBy'[x] = settledBy[x] \/ settledBy'[x] = "other"
      /\ \A x \in Futures : status'[x] = "Pending" => status[x] = "Pending"
  BY <1>1, <1>3
<1>5. Spawned' = Spawned
  BY <1>2 DEF Spawned
<1>6. TypeOK' /\ Stacks' /\ Seen' /\ Waiting'
  BY <1>0, <1>2, <1>4, <1>5 DEF TypeOK, Stacks, StackOK, Seen, Waiting
<1>7. FailurePropagates'
  BY <1>0, <1>4 DEF FailurePropagates, Futures
<1>8. Running'
  <2>1. ran \subseteq Futures
    BY <1>0, Parts DEF TypeOK, Futures
  <2> QED
    BY <1>0, <1>2, <1>4, <2>1 DEF Running
<1> QED
  BY <1>6, <1>7, <1>8 DEF XInv

\* Nothing spawned and every thread in its program.
LEMMA ExecutorInit == Init => XInv
<1> SUFFICES ASSUME Init PROVE XInv
  OBVIOUS
<1>1. /\ Fresh(Nil) \in Frame /\ Fresh(Nil).task = Nil /\ Fresh(Nil).at = "body"
      /\ Fresh(Nil).saw = "Ready"
  BY DEF Fresh, Frame, Final
<1>2. PICK r : r = <<Fresh(Nil)>>
  OBVIOUS
<1>3. r \in Seq(Frame) /\ r # <<>> /\ Len(r) = 1 /\ DOMAIN r = {1} /\ r[1] = Fresh(Nil)
  BY <1>1, <1>2
<1>4. stack \in [Threads -> Seq(Frame)] /\ \A th \in Threads : stack[th] = r
  BY <1>2, <1>3 DEF Init
<1>5. StackOK(r)
  BY <1>1, <1>3 DEF StackOK
<1>6. Stacks
  BY <1>4, <1>5 DEF Stacks
<1>7. TypeOK
  <2>1. \A th \in Threads : stack[th] # <<>> /\ \A i \in DOMAIN stack[th] : stack[th][i] \in Frame
    BY <1>1, <1>3, <1>4
  <2> QED
    BY <2>1 DEF Init, TypeOK, Final
<1>8. Seen /\ FailurePropagates
  BY <1>1, <1>3, <1>4 DEF Init, Seen, FailurePropagates
<1>9. Waiting /\ Running
  BY <1>1, <1>3, <1>4 DEF Init, Waiting, Running, Spawned
<1> QED
  BY <1>6, <1>7, <1>8, <1>9 DEF XInv

\* XInv is inductive.
LEMMA ExecutorNext == XInv /\ [Next]_vars => XInv'
<1> SUFFICES ASSUME XInv, [Next]_vars PROVE XInv'
  OBVIOUS
<1>1. CASE UNCHANGED vars
  BY <1>1 DEF vars, XInv, TypeOK, Stacks, StackOK, Seen, FailurePropagates, Waiting, Running,
       Spawned
<1>2. ASSUME NEW th \in Threads, Loop(th) PROVE XInv'
  BY <1>2, BlockOnKeeps, ReturnsKeeps, RunOneKeeps DEF Loop
<1>3. ASSUME NEW th \in Threads, Ends(th) PROVE XInv'
  BY <1>3, TaskEndsKeeps
<1>4. ASSUME NEW th \in Threads, NEW t \in Tasks, Spawn(th, t) PROVE XInv'
  BY <1>4, SpawnKeeps
<1>5. ASSUME NEW th \in Threads, NEW f \in Futures, BlockOn(th, f) PROVE XInv'
  BY <1>5, BlockOnKeeps
<1> QED
  BY <1>1, <1>2, <1>3, <1>4, <1>5, OthersKeep DEF Next

\* XInv holds in every reachable state.
LEMMA ExecutorAlways == Spec => []XInv
  BY ExecutorInit, ExecutorNext, PTL DEF Spec

(* The types: TASK_LAST_AWAIT_STATUS is always a final status, so a task    *)
(* never leaves its future pending, and no thread loses its own program.   *)
THEOREM ExecutorTypeCorrect == Spec => []TypeOK
<1>1. XInv => TypeOK
  BY DEF XInv
<1> QED
  BY <1>1, ExecutorAlways, PTL

(* A task whose last block_on failed or was cancelled does not complete as *)
(* "Ready": what async_runner_* reads from TASK_LAST_AWAIT_STATUS is then  *)
(* what its own block_on left there, whatever tasks the thread ran on top  *)
(* of it while it waited.                                                  *)
THEOREM FailuresPropagate == Spec => []FailurePropagates
<1>1. XInv => FailurePropagates
  BY DEF XInv
<1> QED
  BY <1>1, ExecutorAlways, PTL

(* However many threads drain the queue, each task is in it once, on one   *)
(* stack once, or has ended with its future settled: ori_executor_run_one  *)
(* runs none twice and loses none.                                         *)
THEOREM TasksRunOnce == Spec => []RunsOnce
<1>1. ASSUME XInv, NEW t \in Tasks
      PROVE  /\ Cardinality(OnStack(t)) + Cardinality(Queued(t)) <= 1
             /\ t \in ran => Queued(t) = {}
             /\ t \in Spawned \ ran => Queued(t) # {}
             /\ t \in ran /\ OnStack(t) = {} => status[t] # "Pending"
  <2>0. Waiting /\ Running /\ Nil \notin Tasks
    BY <1>1, Parts
  <2>1. \A p : p \in OnStack(t) <=>
          \E th \in Threads : \E i \in DOMAIN stack[th] : p = <<th, i>> /\ stack[th][i].task = t
    BY DEF OnStack
  <2>2. \A p, q \in OnStack(t) : p = q
    BY <2>0, <2>1 DEF Running
  <2>3. \A i, k \in Queued(t) : i = k
    BY <2>0 DEF Queued, Waiting
  <2>4. t \in ran => Queued(t) = {}
    BY <2>0 DEF Queued, Waiting
  <2>5. OnStack(t) # {} => t \in ran
    BY <2>0, <2>1 DEF Running
  <2>6. Cardinality(OnStack(t)) + Cardinality(Queued(t)) <= 1
    <3>1. \A x : Cardinality({x}) = 1
      BY FS_Singleton
    <3>2. Cardinality({}) = 0
      BY FS_EmptySet
    <3>3. CASE OnStack(t) = {}
      <4>1. Queued(t) = {} \/ \E i \in Queued(t) : Queued(t) = {i}
        BY <2>3
      <4>2. Cardinality(Queued(t)) = 0 \/ Cardinality(Queued(t)) = 1
        BY <3>1, <3>2, <4>1
      <4> QED
        BY <3>2, <3>3, <4>2
    <3>4. CASE OnStack(t) # {}
      <4>1. PICK p \in OnStack(t) : OnStack(t) = {p}
        BY <2>2, <3>4
      <4>2. Cardinality(OnStack(t)) = 1 /\ Cardinality(Queued(t)) = 0
        BY <2>4, <2>5, <3>1, <3>2, <3>4, <4>1
      <4> QED
        BY <4>2
    <3> QED
      BY <3>3, <3>4
  <2>7. t \in Spawned \ ran => Queued(t) # {}
    BY <2>0 DEF Queued, Waiting
  <2>8. t \in ran /\ OnStack(t) = {} => status[t] # "Pending"
    <3>1. ASSUME NEW th \in Threads, NEW i \in DOMAIN stack[th], stack[th][i].task = t
          PROVE  <<th, i>> \in OnStack(t)
      BY <2>1, <3>1
    <3> QED
      BY <2>0, <3>1 DEF Running
  <2> QED
    BY <2>4, <2>6, <2>7, <2>8
<1>2. XInv => RunsOnce
  BY <1>1 DEF RunsOnce
<1> QED
  BY <1>2, ExecutorAlways, PTL

-----------------------------------------------------------------------------
(* The blocking-I/O pool, a second system beside the executor: it shares   *)
(* no state with it.  What its module assumes of the parameters is a       *)
(* hypothesis of the theorems.                                             *)
CONSTANTS Jobs, PoolThreads, Desired, Capacity
VARIABLES flag, poolQueue, workers, call, starting, pc, job, poolStatus

Pool == INSTANCE IoPool WITH Threads <- PoolThreads, queue <- poolQueue, status <- poolStatus

(* Whoever has decided to wait holds the mutex: the queue is still as it   *)
(* was found.                                                              *)
Decided ==
  /\ \A j \in Jobs : call[j] = "toWait" => Pool!Full
  /\ \A t \in PoolThreads : pc[t] = "toWait" => poolQueue = <<>>

(* IO_POOL_START is held by the one call inside ensure_io_worker_pool. *)
Ensuring == {"ensure", "spawned", "refused"}
Starter == \A j \in Jobs : call[j] \in Ensuring <=> starting = j

Live == {t \in PoolThreads : pc[t] # "none"}
Uncounted == \E j \in Jobs : call[j] = "spawned"

(* No more workers are counted than there are; and while no shutdown is in *)
(* progress all are but the one that has just been created.                *)
Counted ==
  /\ workers <= Cardinality(Live)
  /\ ~flag => Cardinality(Live) = IF Uncounted THEN workers + 1 ELSE workers

PInv == Pool!IoPoolAssumption /\ Pool!TypeOK /\ Decided /\ Pool!NoLostWakeup /\ Starter /\ Counted

-----------------------------------------------------------------------------
(* What IoPoolAssumption says of the parameters. *)
LEMMA PoolFinite ==
  ASSUME Pool!IoPoolAssumption
  PROVE  IsFiniteSet(PoolThreads) /\ Capacity \in Nat \ {0} /\ Nil \notin Jobs
<1>1. Pool!IsFiniteSet(PoolThreads) /\ Capacity \in Nat \ {0} /\ Nil \notin Jobs
  BY DEF Pool!IoPoolAssumption
<1>2. IsFiniteSet(PoolThreads)
  BY <1>1, Zenon DEF Pool!IsFiniteSet, IsFiniteSet
<1> QED
  BY <1>1, <1>2

(* The number of elements is the same operator in both modules. *)
LEMMA PoolCardinality ==
  ASSUME NEW S
  PROVE  Pool!Cardinality(S) = Cardinality(S)
<1>1. ASSUME NEW T PROVE Pool!IsFiniteSet(T) <=> IsFiniteSet(T)
  BY Zenon DEF Pool!IsFiniteSet, IsFiniteSet
<1> QED
  BY <1>1, Zenon DEF Pool!Cardinality, Cardinality

(* The live threads are finitely many. *)
LEMMA LiveFinite ==
  ASSUME Pool!IoPoolAssumption
  PROVE  IsFiniteSet(Live) /\ Cardinality(Live) \in Nat
  BY PoolFinite, FS_Subset, FS_CardinalityType DEF Live

(* A step after which the same threads exist does not change their number. *)
LEMMA LiveSame ==
  ASSUME \A t \in PoolThreads : pc'[t] = "none" <=> pc[t] = "none"
  PROVE  Cardinality(Live') = Cardinality(Live)
<1>1. Live' = Live
  BY DEF Live
<1> QED
  BY <1>1

(* A thread that is created is one more. *)
LEMMA LiveMore ==
  ASSUME Pool!IoPoolAssumption, NEW t \in PoolThreads, pc[t] = "none", pc'[t] # "none",
         \A u \in PoolThreads \ {t} : pc'[u] = pc[u]
  PROVE  Cardinality(Live') = Cardinality(Live) + 1
<1>1. Live' = Live \cup {t} /\ t \notin Live
  BY DEF Live
<1> QED
  BY <1>1, LiveFinite, FS_AddElement

(* A thread that exits is one less. *)
LEMMA LiveLess ==
  ASSUME Pool!IoPoolAssumption, NEW t \in PoolThreads, pc[t] # "none", pc'[t] = "none",
         \A u \in PoolThreads \ {t} : pc'[u] = "none" <=> pc[u] = "none"
  PROVE  Cardinality(Live') = Cardinality(Live) - 1
<1>1. Live' = Live \ {t} /\ t \in Live
  BY DEF Live
<1> QED
  BY <1>1, LiveFinite, FS_RemoveElement

(* notify_all makes runnable whoever slept, and nobody else. *)
LEMMA Wakes ==
  ASSUME Pool!TypeOK
  PROVE  /\ Pool!WokenCalls \in [Jobs -> {"new", "ensure", "spawned", "refused", "submit", "toWait",
                                     "returned"}]
         /\ \A j \in Jobs : Pool!WokenCalls[j] # "submit" => Pool!WokenCalls[j] = call[j]
         /\ \A j \in Jobs : call[j] # "waiting" => Pool!WokenCalls[j] = call[j]
         /\ \A j \in Jobs : call[j] = "waiting" => Pool!WokenCalls[j] = "submit"
         /\ Pool!WokenThreads \in [PoolThreads -> {"none", "top", "toWait", "run"}]
         /\ \A t \in PoolThreads : Pool!WokenThreads[t] # "top" => Pool!WokenThreads[t] = pc[t]
         /\ \A t \in PoolThreads : pc[t] # "waiting" => Pool!WokenThreads[t] = pc[t]
         /\ \A t \in PoolThreads : pc[t] = "waiting" => Pool!WokenThreads[t] = "top"
<1>1. /\ \A j \in Jobs : call[j] \in {"new", "ensure", "spawned", "refused", "submit", "toWait",
                                      "waiting", "returned"}
      /\ \A t \in PoolThreads : pc[t] \in {"none", "top", "toWait", "waiting", "run"}
  BY DEF Pool!TypeOK
<1> QED
  BY <1>1 DEF Pool!WokenCalls, Pool!WokenThreads

(* Facts every step starts from. *)
LEMMA Numbers ==
  ASSUME PInv
  PROVE  /\ Pool!TypeOK /\ Decided /\ Pool!NoLostWakeup /\ Starter /\ Counted
         /\ workers \in Nat /\ Cardinality(Live) \in Nat /\ Len(poolQueue) \in Nat
              /\ Capacity \in Nat
         /\ Pool!IoPoolAssumption /\ Nil \notin Jobs
         /\ starting = Nil => \A j \in Jobs : call[j] \notin Ensuring
         /\ \A i, j \in Jobs : call[i] \in Ensuring /\ call[j] \in Ensuring => i = j
  BY LiveFinite, PoolFinite DEF PInv, Starter, Pool!TypeOK

(* A call takes IO_POOL_START only when nobody holds it. *)
LEMMA EnsureStartsKeeps ==
  ASSUME PInv, NEW j \in Jobs, Pool!EnsureStarts(j)
  PROVE  PInv'
<1>0. /\ Pool!TypeOK /\ Decided /\ Pool!NoLostWakeup /\ Starter /\ Counted
      /\ workers \in Nat /\ Cardinality(Live) \in Nat /\ Len(poolQueue) \in Nat /\ Capacity \in Nat
      /\ Pool!IoPoolAssumption /\ Nil \notin Jobs
  BY Numbers
<1>1. Pool!TypeOK'
  BY <1>0 DEF Pool!EnsureStarts, Pool!Goto, Pool!TypeOK
<1>2. Decided'
  BY <1>0 DEF Pool!EnsureStarts, Pool!Goto, Pool!TypeOK, Decided, Pool!Full
<1>3. Pool!NoLostWakeup'
  BY <1>0 DEF Pool!EnsureStarts, Pool!Goto, Pool!TypeOK, Decided, Pool!NoLostWakeup, Pool!Full
<1>4. Starter'
  BY <1>0, Numbers DEF Pool!EnsureStarts, Pool!Goto, Pool!TypeOK, Starter, Ensuring
<1>5. Counted'
  <2>1. Cardinality(Live') = Cardinality(Live)
    BY <1>0, LiveSame DEF Pool!EnsureStarts, Pool!Goto, Pool!TypeOK
  <2> QED
    BY <1>0, <2>1, Numbers DEF Pool!EnsureStarts, Pool!Goto, Pool!TypeOK, Counted, Uncounted,
         Ensuring
<1> QED
  BY <1>1, <1>2, <1>3, <1>4, <1>5 DEF PInv

\* A worker that ensure_io_worker_pool creates is uncounted until its creator counts it.
LEMMA EnsureChecksKeeps ==
  ASSUME PInv, NEW j \in Jobs, Pool!EnsureChecks(j)
  PROVE  PInv'
<1>0. /\ Pool!TypeOK /\ Decided /\ Pool!NoLostWakeup /\ Starter /\ Counted
      /\ workers \in Nat /\ Cardinality(Live) \in Nat /\ Len(poolQueue) \in Nat /\ Capacity \in Nat
      /\ Pool!IoPoolAssumption /\ Nil \notin Jobs
  BY Numbers
<1>1. Pool!TypeOK'
  BY <1>0 DEF Pool!EnsureChecks, Pool!Goto, Pool!Fail, Pool!TypeOK
<1>2. Decided'
  BY <1>0 DEF Pool!EnsureChecks, Pool!Goto, Pool!LockFree, Pool!TypeOK, Decided, Pool!Full
<1>3. Pool!NoLostWakeup'
  BY <1>0 DEF Pool!EnsureChecks, Pool!Goto, Pool!TypeOK, Decided, Pool!NoLostWakeup, Pool!Full
<1>4. Starter'
  BY <1>0, Numbers DEF Pool!EnsureChecks, Pool!Goto, Pool!TypeOK, Starter, Ensuring
<1>5. Counted'
  <2>1. CASE pc' = pc /\ call'[j] # "spawned"
    <3>1. Cardinality(Live') = Cardinality(Live)
      BY <2>1, LiveSame
    <3>2. ~Uncounted /\ ~Uncounted'
      BY <1>0, <2>1, Numbers DEF Pool!EnsureChecks, Pool!Goto, Pool!TypeOK, Uncounted, Ensuring
    <3> QED
      BY <1>0, <3>1, <3>2 DEF Pool!EnsureChecks, Counted
  <2>2. CASE ~flag /\ call'[j] = "spawned"
             /\ \E t \in PoolThreads : pc[t] = "none" /\ pc' = [pc EXCEPT ![t] = "top"]
    <3>1. PICK t \in PoolThreads : pc[t] = "none" /\ pc' = [pc EXCEPT ![t] = "top"]
      BY <2>2
    <3>2. Cardinality(Live') = Cardinality(Live) + 1
      BY <1>0, <3>1, LiveMore DEF Pool!TypeOK
    <3>3. ~Uncounted /\ Uncounted'
      BY <1>0, <2>2, Numbers DEF Pool!EnsureChecks, Uncounted, Ensuring
    <3> QED
      BY <1>0, <2>2, <3>2, <3>3 DEF Pool!EnsureChecks, Counted
  <2> QED
    BY <1>0, <2>1, <2>2 DEF Pool!EnsureChecks, Pool!Goto, Pool!TypeOK
<1> QED
  BY <1>1, <1>2, <1>3, <1>4, <1>5 DEF PInv

\* The creator counts it unless a shutdown is in progress; then it may be gone already.
LEMMA EnsureCountsKeeps ==
  ASSUME PInv, NEW j \in Jobs, Pool!EnsureCounts(j)
  PROVE  PInv'
<1>0. /\ Pool!TypeOK /\ Decided /\ Pool!NoLostWakeup /\ Starter /\ Counted
      /\ workers \in Nat /\ Cardinality(Live) \in Nat /\ Len(poolQueue) \in Nat /\ Capacity \in Nat
      /\ Pool!IoPoolAssumption /\ Nil \notin Jobs
  BY Numbers
<1>1. Pool!TypeOK'
  BY <1>0, Wakes DEF Pool!EnsureCounts, Pool!Fail, Pool!CountsWorker, Pool!TypeOK
<1>2. Decided'
  BY <1>0, Wakes DEF Pool!EnsureCounts, Pool!LockFree, Pool!CountsWorker, Pool!TypeOK, Decided,
       Pool!Full
<1>3. Pool!NoLostWakeup'
  BY <1>0, Wakes DEF Pool!EnsureCounts, Pool!CountsWorker, Pool!TypeOK, Decided,
       Pool!NoLostWakeup, Pool!Full
<1>4. Starter'
  BY <1>0, Wakes, Numbers DEF Pool!EnsureCounts, Pool!CountsWorker, Pool!TypeOK, Starter,
       Ensuring
<1>5. Counted'
  <2>1. Cardinality(Live') = Cardinality(Live)
    BY <1>0, Wakes, LiveSame DEF Pool!EnsureCounts, Pool!CountsWorker, Pool!TypeOK
  <2> QED
    BY <1>0, <2>1, Wakes, Numbers DEF Pool!EnsureCounts, Pool!CountsWorker, Pool!TypeOK, Counted,
         Uncounted,
         Ensuring
<1> QED
  BY <1>1, <1>2, <1>3, <1>4, <1>5 DEF PInv

(* Without a new thread nothing changes for the workers. *)
LEMMA EnsureRefusedKeeps ==
  ASSUME PInv, NEW j \in Jobs, Pool!EnsureRefused(j)
  PROVE  PInv'
<1>0. /\ Pool!TypeOK /\ Decided /\ Pool!NoLostWakeup /\ Starter /\ Counted
      /\ workers \in Nat /\ Cardinality(Live) \in Nat /\ Len(poolQueue) \in Nat /\ Capacity \in Nat
      /\ Pool!IoPoolAssumption /\ Nil \notin Jobs
  BY Numbers
<1>1. Pool!TypeOK'
  BY <1>0 DEF Pool!EnsureRefused, Pool!Goto, Pool!Fail, Pool!TypeOK
<1>2. Decided'
  BY <1>0 DEF Pool!EnsureRefused, Pool!Goto, Pool!LockFree, Pool!TypeOK, Decided, Pool!Full
<1>3. Pool!NoLostWakeup'
  BY <1>0 DEF Pool!EnsureRefused, Pool!Goto, Pool!TypeOK, Decided, Pool!NoLostWakeup, Pool!Full
<1>4. Starter'
  BY <1>0, Numbers DEF Pool!EnsureRefused, Pool!Goto, Pool!TypeOK, Starter, Ensuring
<1>5. Counted'
  <2>1. Cardinality(Live') = Cardinality(Live)
    BY <1>0, LiveSame DEF Pool!EnsureRefused, Pool!Goto, Pool!TypeOK
  <2> QED
    BY <1>0, <2>1, Numbers DEF Pool!EnsureRefused, Pool!Goto, Pool!TypeOK, Counted, Uncounted,
         Ensuring
<1> QED
  BY <1>1, <1>2, <1>3, <1>4, <1>5 DEF PInv

(* A caller decides to wait only on a full queue. *)
LEMMA SubmitWaitsKeeps ==
  ASSUME PInv, NEW j \in Jobs, Pool!SubmitWaits(j)
  PROVE  PInv'
<1>0. /\ Pool!TypeOK /\ Decided /\ Pool!NoLostWakeup /\ Starter /\ Counted
      /\ workers \in Nat /\ Cardinality(Live) \in Nat /\ Len(poolQueue) \in Nat /\ Capacity \in Nat
      /\ Pool!IoPoolAssumption /\ Nil \notin Jobs
  BY Numbers
<1>1. Pool!TypeOK'
  BY <1>0 DEF Pool!SubmitWaits, Pool!Goto, Pool!TypeOK
<1>2. Decided'
  BY <1>0 DEF Pool!SubmitWaits, Pool!Goto, Pool!LockFree, Pool!TypeOK, Decided, Pool!Full
<1>3. Pool!NoLostWakeup'
  BY <1>0 DEF Pool!SubmitWaits, Pool!Goto, Pool!TypeOK, Decided, Pool!NoLostWakeup, Pool!Full
<1>4. Starter'
  BY <1>0 DEF Pool!SubmitWaits, Pool!Goto, Pool!TypeOK, Starter, Ensuring
<1>5. Counted'
  <2>1. Cardinality(Live') = Cardinality(Live)
    BY <1>0, LiveSame DEF Pool!SubmitWaits, Pool!Goto, Pool!TypeOK
  <2> QED
    BY <1>0, <2>1, Numbers DEF Pool!SubmitWaits, Pool!Goto, Pool!TypeOK, Counted, Uncounted,
         Ensuring
<1> QED
  BY <1>1, <1>2, <1>3, <1>4, <1>5 DEF PInv

(* Nobody can have made room since it decided to. *)
LEMMA SubmitSleepsKeeps ==
  ASSUME PInv, NEW j \in Jobs, Pool!SubmitSleeps(j)
  PROVE  PInv'
<1>0. /\ Pool!TypeOK /\ Decided /\ Pool!NoLostWakeup /\ Starter /\ Counted
      /\ workers \in Nat /\ Cardinality(Live) \in Nat /\ Len(poolQueue) \in Nat /\ Capacity \in Nat
      /\ Pool!IoPoolAssumption /\ Nil \notin Jobs
  BY Numbers
<1>1. Pool!TypeOK'
  BY <1>0 DEF Pool!SubmitSleeps, Pool!Goto, Pool!TypeOK
<1>2. Decided'
  BY <1>0 DEF Pool!SubmitSleeps, Pool!Goto, Pool!TypeOK, Decided, Pool!Full
<1>3. Pool!NoLostWakeup'
  BY <1>0 DEF Pool!SubmitSleeps, Pool!Goto, Pool!TypeOK, Decided, Pool!NoLostWakeup, Pool!Full
<1>4. Starter'
  BY <1>0 DEF Pool!SubmitSleeps, Pool!Goto, Pool!TypeOK, Starter, Ensuring
<1>5. Counted'
  <2>1. Cardinality(Live') = Cardinality(Live)
    BY <1>0, LiveSame DEF Pool!SubmitSleeps, Pool!Goto, Pool!TypeOK
  <2> QED
    BY <1>0, <2>1, Numbers DEF Pool!SubmitSleeps, Pool!Goto, Pool!TypeOK, Counted, Uncounted,
         Ensuring
<1> QED
  BY <1>1, <1>2, <1>3, <1>4, <1>5 DEF PInv

(* A call that sees the shutdown leaves the queue alone. *)
LEMMA SubmitRejectedKeeps ==
  ASSUME PInv, NEW j \in Jobs, Pool!SubmitRejected(j)
  PROVE  PInv'
<1>0. /\ Pool!TypeOK /\ Decided /\ Pool!NoLostWakeup /\ Starter /\ Counted
      /\ workers \in Nat /\ Cardinality(Live) \in Nat /\ Len(poolQueue) \in Nat /\ Capacity \in Nat
      /\ Pool!IoPoolAssumption /\ Nil \notin Jobs
  BY Numbers
<1>1. Pool!TypeOK'
  BY <1>0 DEF Pool!SubmitRejected, Pool!Goto, Pool!Fail, Pool!TypeOK
<1>2. Decided'
  BY <1>0 DEF Pool!SubmitRejected, Pool!Goto, Pool!LockFree, Pool!TypeOK, Decided, Pool!Full
<1>3. Pool!NoLostWakeup'
  BY <1>0 DEF Pool!SubmitRejected, Pool!Goto, Pool!TypeOK, Decided, Pool!NoLostWakeup, Pool!Full
<1>4. Starter'
  BY <1>0 DEF Pool!SubmitRejected, Pool!Goto, Pool!TypeOK, Starter, Ensuring
<1>5. Counted'
  <2>1. Cardinality(Live') = Cardinality(Live)
    BY <1>0, LiveSame DEF Pool!SubmitRejected, Pool!Goto, Pool!TypeOK
  <2> QED
    BY <1>0, <2>1, Numbers DEF Pool!SubmitRejected, Pool!Goto, Pool!TypeOK, Counted, Uncounted,
         Ensuring
<1> QED
  BY <1>1, <1>2, <1>3, <1>4, <1>5 DEF PInv

\* When there is room no caller sleeps, so the one notification goes to a worker.
LEMMA SubmitPushesKeeps ==
  ASSUME PInv, NEW j \in Jobs, Pool!SubmitPushes(j)
  PROVE  PInv'
<1>0. /\ Pool!TypeOK /\ Decided /\ Pool!NoLostWakeup /\ Starter /\ Counted
      /\ workers \in Nat /\ Cardinality(Live) \in Nat /\ Len(poolQueue) \in Nat /\ Capacity \in Nat
      /\ Pool!IoPoolAssumption /\ Nil \notin Jobs
  BY Numbers
<1>1. Pool!TypeOK'
  <2>1. poolQueue' \in Seq(Jobs) /\ Len(poolQueue') <= Capacity
    <3>1. poolQueue \in Seq(Jobs) /\ poolQueue' = Append(poolQueue, j)
            /\ ~(Len(poolQueue) >= Capacity)
      BY <1>0 DEF Pool!SubmitPushes, Pool!TypeOK, Pool!Full
    <3>2. poolQueue' \in Seq(Jobs) /\ Len(poolQueue') = Len(poolQueue) + 1
      BY <3>1
    <3> QED
      BY <1>0, <3>1, <3>2
  <2>2. call' \in [Jobs -> {"new", "ensure", "spawned", "refused", "submit", "toWait",
                           "waiting", "returned"}]
    BY <1>0 DEF Pool!SubmitPushes, Pool!Goto, Pool!TypeOK
  <2>3. pc' \in [PoolThreads -> {"none", "top", "toWait", "waiting", "run"}]
    BY <1>0 DEF Pool!SubmitPushes, Pool!TypeOK
  <2> QED
    BY <1>0, <2>1, <2>2, <2>3 DEF Pool!SubmitPushes, Pool!TypeOK
<1>2. Decided'
  BY <1>0 DEF Pool!SubmitPushes, Pool!Goto, Pool!LockFree, Pool!TypeOK, Decided, Pool!Full
<1>3. Pool!NoLostWakeup'
  BY <1>0 DEF Pool!SubmitPushes, Pool!Goto, Pool!TypeOK, Decided, Pool!NoLostWakeup, Pool!Full
<1>4. Starter'
  BY <1>0 DEF Pool!SubmitPushes, Pool!Goto, Pool!TypeOK, Starter, Ensuring
<1>5. Counted'
  <2>1. Cardinality(Live') = Cardinality(Live)
    BY <1>0, LiveSame DEF Pool!SubmitPushes, Pool!Goto, Pool!TypeOK
  <2> QED
    BY <1>0, <2>1, Numbers DEF Pool!SubmitPushes, Pool!Goto, Pool!TypeOK, Counted, Uncounted,
         Ensuring
<1> QED
  BY <1>1, <1>2, <1>3, <1>4, <1>5 DEF PInv

(* A worker decides to wait only on an empty queue. *)
LEMMA WorkerWaitsKeeps ==
  ASSUME PInv, NEW t \in PoolThreads, Pool!WorkerWaits(t)
  PROVE  PInv'
<1>0. /\ Pool!TypeOK /\ Decided /\ Pool!NoLostWakeup /\ Starter /\ Counted
      /\ workers \in Nat /\ Cardinality(Live) \in Nat /\ Len(poolQueue) \in Nat /\ Capacity \in Nat
      /\ Pool!IoPoolAssumption /\ Nil \notin Jobs
  BY Numbers
<1>1. Pool!TypeOK'
  BY <1>0 DEF Pool!WorkerWaits, Pool!TypeOK
<1>2. Decided'
  BY <1>0 DEF Pool!WorkerWaits, Pool!LockFree, Pool!TypeOK, Decided, Pool!Full
<1>3. Pool!NoLostWakeup'
  BY <1>0 DEF Pool!WorkerWaits, Pool!TypeOK, Decided, Pool!NoLostWakeup, Pool!Full
<1>4. Starter'
  BY <1>0 DEF Pool!WorkerWaits, Pool!TypeOK, Starter, Ensuring
<1>5. Counted'
  <2>1. Cardinality(Live') = Cardinality(Live)
    BY <1>0, LiveSame DEF Pool!WorkerWaits, Pool!TypeOK
  <2> QED
    BY <1>0, <2>1, Numbers DEF Pool!WorkerWaits, Pool!TypeOK, Counted, Uncounted, Ensuring
<1> QED
  BY <1>1, <1>2, <1>3, <1>4, <1>5 DEF PInv

(* Nobody can have pushed since it decided to. *)
LEMMA WorkerSleepsKeeps ==
  ASSUME PInv, NEW t \in PoolThreads, Pool!WorkerSleeps(t)
  PROVE  PInv'
<1>0. /\ Pool!TypeOK /\ Decided /\ Pool!NoLostWakeup /\ Starter /\ Counted
      /\ workers \in Nat /\ Cardinality(Live) \in Nat /\ Len(poolQueue) \in Nat /\ Capacity \in Nat
      /\ Pool!IoPoolAssumption /\ Nil \notin Jobs
  BY Numbers
<1>1. Pool!TypeOK'
  BY <1>0 DEF Pool!WorkerSleeps, Pool!TypeOK
<1>2. Decided'
  BY <1>0 DEF Pool!WorkerSleeps, Pool!TypeOK, Decided, Pool!Full
<1>3. Pool!NoLostWakeup'
  BY <1>0 DEF Pool!WorkerSleeps, Pool!TypeOK, Decided, Pool!NoLostWakeup, Pool!Full
<1>4. Starter'
  BY <1>0 DEF Pool!WorkerSleeps, Pool!TypeOK, Starter, Ensuring
<1>5. Counted'
  <2>1. Cardinality(Live') = Cardinality(Live)
    BY <1>0, LiveSame DEF Pool!WorkerSleeps, Pool!TypeOK
  <2> QED
    BY <1>0, <2>1, Numbers DEF Pool!WorkerSleeps, Pool!TypeOK, Counted, Uncounted, Ensuring
<1> QED
  BY <1>1, <1>2, <1>3, <1>4, <1>5 DEF PInv

\* A worker that exits wakes all others and is counted once less, never below zero.
LEMMA WorkerExitsKeeps ==
  ASSUME PInv, NEW t \in PoolThreads, Pool!WorkerExits(t)
  PROVE  PInv'
<1>0. /\ Pool!TypeOK /\ Decided /\ Pool!NoLostWakeup /\ Starter /\ Counted
      /\ workers \in Nat /\ Cardinality(Live) \in Nat /\ Len(poolQueue) \in Nat /\ Capacity \in Nat
      /\ Pool!IoPoolAssumption /\ Nil \notin Jobs
  BY Numbers
<1>1. Pool!TypeOK'
  BY <1>0, Wakes DEF Pool!WorkerExits, Pool!MayExit, Pool!AfterExit, Pool!TypeOK
<1>2. Decided'
  BY <1>0, Wakes DEF Pool!WorkerExits, Pool!LockFree, Pool!MayExit, Pool!TypeOK, Decided, Pool!Full
<1>3. Pool!NoLostWakeup'
  BY <1>0, Wakes DEF Pool!WorkerExits, Pool!MayExit, Pool!TypeOK, Decided, Pool!NoLostWakeup,
       Pool!Full
<1>4. Starter'
  BY <1>0, Wakes DEF Pool!WorkerExits, Pool!MayExit, Pool!TypeOK, Starter, Ensuring
<1>5. Counted'
  <2>1. Cardinality(Live') = Cardinality(Live) - 1
    BY <1>0, Wakes, LiveLess DEF Pool!WorkerExits, Pool!MayExit, Pool!TypeOK
  <2>2. Cardinality(Live') \in Nat
    BY <1>0, PoolFinite, FS_Subset, FS_CardinalityType DEF Live
  <2>3. workers' <= Cardinality(Live')
    BY <1>0, <2>1, <2>2 DEF Pool!WorkerExits, Pool!AfterExit, Counted
  <2> QED
    BY <2>3 DEF Pool!WorkerExits, Pool!MayExit, Counted
<1> QED
  BY <1>1, <1>2, <1>3, <1>4, <1>5 DEF PInv

\* A worker that takes a job wakes everybody, the callers it makes room for included.
LEMMA WorkerTakesKeeps ==
  ASSUME PInv, NEW t \in PoolThreads, Pool!WorkerTakes(t)
  PROVE  PInv'
<1>0. /\ Pool!TypeOK /\ Decided /\ Pool!NoLostWakeup /\ Starter /\ Counted
      /\ workers \in Nat /\ Cardinality(Live) \in Nat /\ Len(poolQueue) \in Nat /\ Capacity \in Nat
      /\ Pool!IoPoolAssumption /\ Nil \notin Jobs
  BY Numbers
<1>1. Pool!TypeOK'
  BY <1>0, Wakes DEF Pool!WorkerTakes, Pool!TypeOK
<1>2. Decided'
  BY <1>0, Wakes DEF Pool!WorkerTakes, Pool!LockFree, Pool!TypeOK, Decided, Pool!Full
<1>3. Pool!NoLostWakeup'
  BY <1>0, Wakes DEF Pool!WorkerTakes, Pool!TypeOK, Decided, Pool!NoLostWakeup, Pool!Full
<1>4. Starter'
  BY <1>0, Wakes DEF Pool!WorkerTakes, Pool!TypeOK, Starter, Ensuring
<1>5. Counted'
  <2>1. Cardinality(Live') = Cardinality(Live)
    BY <1>0, Wakes, LiveSame DEF Pool!WorkerTakes, Pool!TypeOK
  <2> QED
    BY <1>0, <2>1, Wakes, Numbers DEF Pool!WorkerTakes, Pool!TypeOK, Counted, Uncounted, Ensuring
<1> QED
  BY <1>1, <1>2, <1>3, <1>4, <1>5 DEF PInv

(* A worker that completes its job is on its way to the queue. *)
LEMMA WorkerCompletesKeeps ==
  ASSUME PInv, NEW t \in PoolThreads, Pool!WorkerCompletes(t)
  PROVE  PInv'
<1>0. /\ Pool!TypeOK /\ Decided /\ Pool!NoLostWakeup /\ Starter /\ Counted
      /\ workers \in Nat /\ Cardinality(Live) \in Nat /\ Len(poolQueue) \in Nat /\ Capacity \in Nat
      /\ Pool!IoPoolAssumption /\ Nil \notin Jobs
  BY Numbers
<1>1. Pool!TypeOK'
  BY <1>0 DEF Pool!WorkerCompletes, Pool!TypeOK
<1>2. Decided'
  BY <1>0 DEF Pool!WorkerCompletes, Pool!TypeOK, Decided, Pool!Full
<1>3. Pool!NoLostWakeup'
  BY <1>0 DEF Pool!WorkerCompletes, Pool!TypeOK, Decided, Pool!NoLostWakeup, Pool!Full
<1>4. Starter'
  BY <1>0 DEF Pool!WorkerCompletes, Pool!TypeOK, Starter, Ensuring
<1>5. Counted'
  <2>1. Cardinality(Live') = Cardinality(Live)
    BY <1>0, LiveSame DEF Pool!WorkerCompletes, Pool!TypeOK
  <2> QED
    BY <1>0, <2>1, Numbers DEF Pool!WorkerCompletes, Pool!TypeOK, Counted, Uncounted, Ensuring
<1> QED
  BY <1>1, <1>2, <1>3, <1>4, <1>5 DEF PInv

(* The shutdown wakes everybody. *)
LEMMA ShutdownKeeps ==
  ASSUME PInv, Pool!Shutdown
  PROVE  PInv'
<1>0. /\ Pool!TypeOK /\ Decided /\ Pool!NoLostWakeup /\ Starter /\ Counted
      /\ workers \in Nat /\ Cardinality(Live) \in Nat /\ Len(poolQueue) \in Nat /\ Capacity \in Nat
      /\ Pool!IoPoolAssumption /\ Nil \notin Jobs
  BY Numbers
<1>1. Pool!TypeOK'
  BY <1>0, Wakes DEF Pool!Shutdown, Pool!TypeOK
<1>2. Decided'
  BY <1>0, Wakes DEF Pool!Shutdown, Pool!TypeOK, Decided, Pool!Full
<1>3. Pool!NoLostWakeup'
  BY <1>0, Wakes DEF Pool!Shutdown, Pool!TypeOK, Decided, Pool!NoLostWakeup, Pool!Full
<1>4. Starter'
  BY <1>0, Wakes DEF Pool!Shutdown, Pool!TypeOK, Starter, Ensuring
<1>5. Counted'
  <2>1. Cardinality(Live') = Cardinality(Live)
    BY <1>0, Wakes, LiveSame DEF Pool!Shutdown, Pool!TypeOK
  <2> QED
    BY <1>0, <2>1, Wakes, Numbers DEF Pool!Shutdown, Pool!TypeOK, Counted, Uncounted, Ensuring
<1> QED
  BY <1>1, <1>2, <1>3, <1>4, <1>5 DEF PInv

(* At a restart no worker is left, so none is counted. *)
LEMMA RestartKeeps ==
  ASSUME PInv, Pool!Restart
  PROVE  PInv'
<1>0. /\ Pool!TypeOK /\ Decided /\ Pool!NoLostWakeup /\ Starter /\ Counted
      /\ workers \in Nat /\ Cardinality(Live) \in Nat /\ Len(poolQueue) \in Nat /\ Capacity \in Nat
      /\ Pool!IoPoolAssumption /\ Nil \notin Jobs
  BY Numbers
<1>1. Pool!TypeOK'
  BY <1>0 DEF Pool!Restart, Pool!TypeOK
<1>2. Decided'
  BY <1>0 DEF Pool!Restart, Pool!TypeOK, Decided, Pool!Full
<1>3. Pool!NoLostWakeup'
  BY <1>0 DEF Pool!Restart, Pool!TypeOK, Decided, Pool!NoLostWakeup, Pool!Full
<1>4. Starter'
  BY <1>0 DEF Pool!Restart, Pool!TypeOK, Starter, Ensuring
<1>5. Counted'
  <2>1. Cardinality(Live') = Cardinality(Live)
    BY <1>0, LiveSame DEF Pool!Restart, Pool!TypeOK
  <2>2. Live = {} /\ Cardinality(Live) = 0
    BY <1>0, FS_EmptySet DEF Pool!Restart, Live
  <2>3. workers = 0
    BY <1>0, <2>2 DEF Counted
  <2>4. ~Uncounted'
    BY DEF Pool!Restart, Uncounted
  <2> QED
    BY <2>1, <2>2, <2>3, <2>4 DEF Pool!Restart, Counted
<1> QED
  BY <1>1, <1>2, <1>3, <1>4, <1>5 DEF PInv

-----------------------------------------------------------------------------
\* An empty pool satisfies the invariant.
LEMMA PoolInit == Pool!IoPoolAssumption /\ Pool!Init => PInv
<1> SUFFICES ASSUME Pool!IoPoolAssumption, Pool!Init PROVE PInv
  OBVIOUS
<1>1. Pool!TypeOK
  <2>1. poolQueue \in Seq(Jobs) /\ Len(poolQueue) = 0 /\ Capacity \in Nat
    BY PoolFinite DEF Pool!Init
  <2>2. Len(poolQueue) <= Capacity
    BY <2>1
  <2> QED
    BY <2>1, <2>2 DEF Pool!Init, Pool!TypeOK
<1>2. Decided /\ Pool!NoLostWakeup /\ Starter
  BY PoolFinite DEF Pool!Init, Decided, Pool!NoLostWakeup, Starter, Ensuring
<1>3. Counted
  <2>1. Live = {} /\ Cardinality(Live) = 0
    BY FS_EmptySet DEF Pool!Init, Live
  <2> QED
    BY <2>1 DEF Pool!Init, Counted, Uncounted
<1> QED
  BY <1>1, <1>2, <1>3 DEF PInv

\* Every step of callers, workers and host keeps it.
LEMMA PoolNext == PInv /\ [Pool!Next]_(Pool!vars) => PInv'
<1> SUFFICES ASSUME PInv, [Pool!Next]_(Pool!vars) PROVE PInv'
  OBVIOUS
<1>1. CASE UNCHANGED Pool!vars
  BY <1>1 DEF Pool!vars, PInv, Pool!TypeOK, Decided, Pool!NoLostWakeup, Pool!Full, Starter,
       Counted, Live, Uncounted
<1>2. CASE \E j \in Jobs : Pool!Caller(j)
  BY <1>2, EnsureStartsKeeps, EnsureChecksKeeps, EnsureCountsKeeps, EnsureRefusedKeeps,
     SubmitWaitsKeeps, SubmitSleepsKeeps, SubmitRejectedKeeps, SubmitPushesKeeps DEF Pool!Caller
<1>3. CASE \E t \in PoolThreads : Pool!Worker(t)
  BY <1>3, WorkerWaitsKeeps, WorkerSleepsKeeps, WorkerExitsKeeps, WorkerTakesKeeps,
     WorkerCompletesKeeps DEF Pool!Worker
<1>4. CASE Pool!Shutdown \/ Pool!Restart
  BY <1>4, ShutdownKeeps, RestartKeeps
<1> QED
  BY <1>1, <1>2, <1>3, <1>4 DEF Pool!Next

\* PInv holds in every reachable state.
LEMMA PoolAlways == Pool!IoPoolAssumption /\ Pool!Spec => []PInv
  BY PoolInit, PoolNext, PTL DEF Pool!Spec

-----------------------------------------------------------------------------
(* The queue stays within IO_POOL_QUEUE_CAPACITY however many callers one  *)
(* pop has woken, and the count of workers never wraps.                    *)
THEOREM PoolTypeCorrect == Pool!IoPoolAssumption /\ Pool!Spec => []Pool!TypeOK
<1>1. PInv => Pool!TypeOK
  BY DEF PInv
<1> QED
  BY <1>1, PoolAlways, PTL

(* Callers and workers sleep on one condition variable and a push notifies *)
(* one sleeper only; still no worker sleeps while a job is queued and      *)
(* nobody is on the way to it, and no caller sleeps while there is room.   *)
THEOREM PoolLosesNoWakeup == Pool!IoPoolAssumption /\ Pool!Spec => []Pool!NoLostWakeup
<1>1. PInv => Pool!NoLostWakeup
  BY DEF PInv
<1> QED
  BY <1>1, PoolAlways, PTL

(* IoPoolState.workers is the number of workers there are whenever no      *)
(* shutdown and no start is in progress, though a worker created as a      *)
(* shutdown begins may exit before its creator counts it.                  *)
THEOREM PoolCountIsExact == Pool!IoPoolAssumption /\ Pool!Spec => []Pool!WorkersExact
<1>1. PInv => Pool!WorkersExact
  <2>1. Pool!Cardinality(Live) = Cardinality(Live)
    BY PoolCardinality
  <2> QED
    BY <2>1, Numbers DEF Pool!WorkersExact, Counted, Uncounted, Live, Ensuring
<1> QED
  BY <1>1, PoolAlways, PTL

-----------------------------------------------------------------------------
(* The readiness reactor, the third of these systems. *)
CONSTANTS Ops, Handles, MaxInput
VARIABLES reactorQueue, reactorCall, on, fut, hnd, reactorPc, cur, drained, arrived

React == INSTANCE Reactor
           WITH queue <- reactorQueue, call <- reactorCall, pc <- reactorPc

(* What a future and a handle consist of, and where the thread can be. *)
FutRec == [status : {"Pending", "Ready", "Failed", "Cancelled"}, refs : Nat, user : BOOLEAN]
HandleRec == [refs : Nat, user : BOOLEAN, open : BOOLEAN, input : Nat,
              holder : {"nobody", "caller", "reactor"}, poisoned : BOOLEAN]
Places == {"none", "top", "take", "toWait", "waiting", "check", "probe", "recheck", "work",
           "running", "ready", "failed", "drain", "exiting"}
Busy == {"check", "probe", "recheck", "work", "running", "ready", "failed"}

(* The types without bounds on counts. *)
Types ==
  /\ flag \in BOOLEAN
  /\ reactorQueue \in Seq(Ops) /\ drained \subseteq Ops /\ cur \in Ops \cup {Nil}
  /\ reactorCall \in [Ops -> {"new", "push", "notify", "returned"}]
  /\ on \in [Ops -> Handles \cup {Nil}]
  /\ fut \in [Ops -> FutRec] /\ hnd \in [Handles -> HandleRec]
  /\ reactorPc \in Places /\ arrived \in 0..MaxInput

Elems(q) == {q[i] : i \in DOMAIN q}
Distinct(q) == \A i, k \in DOMAIN q : q[i] = q[k] => i = k

(* A job is in one place at most. *)
Placed ==
  /\ Distinct(reactorQueue) /\ cur \notin Elems(reactorQueue) \cup drained
       /\ Elems(reactorQueue) \cap drained = {}
  /\ cur # Nil <=> reactorPc \in Busy
  /\ drained # {} => reactorPc = "drain"

(* The program keeps the handle it passes until the job owns it too. *)
Passed ==
  \A o \in Ops :
    /\ reactorCall[o] = "new" => ~fut[o].user
    /\ React!Held(o) => reactorCall[o] \in {"notify", "returned"} /\ on[o] \in Handles
    /\ reactorCall[o] = "push" => on[o] \in Handles /\ hnd[on[o]].user

Holders(h) == {o \in Ops : on[o] = h /\ React!Held(o)}

FutOwned(o) == fut[o].refs = React!Count(fut[o].user) + React!Count(React!Owed(o))
HandleOwned(h) == hnd[h].refs = React!Count(hnd[h].user) + Cardinality(Holders(h))
Owned == (\A o \in Ops : FutOwned(o)) /\ \A h \in Handles : HandleOwned(h)

Inputs == \A h \in Handles : hnd[h].input <= arrived

Waits == (reactorPc = "toWait" => reactorQueue = <<>>) /\ React!NoJobForgotten


RInv == React!ReactorAssumption /\ Types /\ Placed /\ Passed /\ Owned /\ Inputs /\ Waits

-----------------------------------------------------------------------------
(* A queue without repetitions, with one element more at its end. *)
LEMMA AppendElems ==
  ASSUME NEW q \in Seq(Ops), Distinct(q), NEW x \in Ops, x \notin Elems(q),
         NEW r \in Seq(Ops), r = Append(q, x)
  PROVE  r \in Seq(Ops) /\ r # <<>> /\ Elems(r) = Elems(q) \cup {x} /\ Distinct(r)
<1>1. /\ r \in Seq(Ops) /\ r # <<>> /\ Len(q) \in Nat /\ Len(r) = Len(q) + 1
      /\ DOMAIN q = 1..Len(q) /\ DOMAIN r = 1..(Len(q) + 1)
      /\ r[Len(q) + 1] = x /\ \A i \in 1..Len(q) : r[i] = q[i]
  OBVIOUS
<1>2. \A i \in DOMAIN r : i \in DOMAIN q \/ i = Len(q) + 1
  BY <1>1
<1>3. \A i \in DOMAIN q : q[i] # x
  BY DEF Elems
<1>4. Distinct(r)
  BY <1>1, <1>2, <1>3 DEF Distinct
<1>5. Elems(r) = Elems(q) \cup {x}
  <2>1. Len(q) + 1 \in DOMAIN r /\ \A i \in DOMAIN q : i \in DOMAIN r
    BY <1>1
  <2> QED
    BY <1>1, <1>2, <2>1 DEF Elems
<1> QED
  BY <1>1, <1>4, <1>5

(* And with its first element taken. *)
LEMMA TailElems ==
  ASSUME NEW q \in Seq(Ops), q # <<>>, Distinct(q), NEW x, x = Head(q), NEW r, r = Tail(q)
  PROVE  /\ r \in Seq(Ops) /\ x \in Ops /\ x \in Elems(q) /\ x \notin Elems(r)
         /\ Elems(q) = Elems(r) \cup {x} /\ Distinct(r)
<1>1. /\ r \in Seq(Ops) /\ Len(q) \in Nat /\ Len(q) > 0 /\ Len(r) = Len(q) - 1
      /\ DOMAIN q = 1..Len(q) /\ DOMAIN r = 1..(Len(q) - 1)
      /\ x = q[1] /\ \A i \in 1..(Len(q) - 1) : r[i] = q[i + 1]
  OBVIOUS
<1>2. 1 \in DOMAIN q /\ x \in Ops /\ x \in Elems(q)
  BY <1>1 DEF Elems
<1>3. \A i \in DOMAIN r : i + 1 \in DOMAIN q /\ i + 1 # 1 /\ r[i] = q[i + 1]
  BY <1>1
<1>4. \A i \in DOMAIN q : i = 1 \/ (i - 1 \in DOMAIN r /\ q[i] = r[i - 1])
  BY <1>1
<1>5. x \notin Elems(r)
  BY <1>1, <1>2, <1>3 DEF Elems, Distinct
<1>6. Elems(q) = Elems(r) \cup {x}
  <2>1. ASSUME NEW y \in Elems(q) PROVE y \in Elems(r) \cup {x}
    <3>1. PICK i \in DOMAIN q : y = q[i]
      BY DEF Elems
    <3> QED
      BY <1>1, <1>4, <3>1 DEF Elems
  <2>2. ASSUME NEW y \in Elems(r) PROVE y \in Elems(q)
    <3>1. PICK i \in DOMAIN r : y = r[i]
      BY <2>2 DEF Elems
    <3> QED
      BY <1>3, <3>1 DEF Elems
  <2> QED
    BY <1>2, <2>1, <2>2
<1>7. Distinct(r)
  <2>1. \A i, k \in DOMAIN r : r[i] = r[k] => i + 1 = k + 1
    BY <1>3 DEF Distinct
  <2>2. \A i \in DOMAIN r : i \in Nat
    BY <1>1
  <2> QED
    BY <2>1, <2>2 DEF Distinct
<1> QED
  BY <1>1, <1>2, <1>5, <1>6, <1>7

-----------------------------------------------------------------------------
(* What ReactorAssumption says of the parameters. *)
LEMMA ReactorParameters ==
  ASSUME React!ReactorAssumption
  PROVE  IsFiniteSet(Ops) /\ MaxInput \in Nat /\ Nil \notin Ops
<1>1. React!IsFiniteSet(Ops) /\ MaxInput \in Nat /\ Nil \notin Ops
  BY DEF React!ReactorAssumption
<1>2. IsFiniteSet(Ops)
  BY <1>1, Zenon DEF React!IsFiniteSet, IsFiniteSet
<1> QED
  BY <1>1, <1>2

(* The number of elements is the same operator in both modules. *)
LEMMA ReactorCardinality ==
  ASSUME NEW S
  PROVE  React!Cardinality(S) = Cardinality(S)
<1>1. ASSUME NEW T PROVE React!IsFiniteSet(T) <=> IsFiniteSet(T)
  BY Zenon DEF React!IsFiniteSet, IsFiniteSet
<1> QED
  BY <1>1, Zenon DEF React!Cardinality, Cardinality

(* The jobs that own a handle are finitely many. *)
LEMMA HoldersFinite ==
  ASSUME React!ReactorAssumption, NEW h
  PROVE  IsFiniteSet(Holders(h)) /\ Cardinality(Holders(h)) \in Nat
         /\ Cardinality(Holders(h)) <= Cardinality(Ops)
<1>1. Holders(h) \subseteq Ops /\ IsFiniteSet(Ops)
  BY ReactorParameters DEF Holders
<1> QED
  BY <1>1, FS_Subset, FS_CardinalityType

(* One job more owns it. *)
LEMMA HoldersMore ==
  ASSUME React!ReactorAssumption, NEW h, NEW o \in Ops, ~React!Held(o), on'[o] = h, React!Held(o)',
         \A p \in Ops \ {o} : on'[p] = on[p] /\ (React!Held(p)' <=> React!Held(p))
  PROVE  Cardinality(Holders(h)') = Cardinality(Holders(h)) + 1
<1>1. Holders(h)' = Holders(h) \cup {o} /\ o \notin Holders(h)
  BY DEF Holders
<1> QED
  BY <1>1, HoldersFinite, FS_AddElement

(* One less. *)
LEMMA HoldersLess ==
  ASSUME React!ReactorAssumption, NEW h, NEW o \in Ops, on[o] = h, React!Held(o), ~React!Held(o)',
         \A p \in Ops \ {o} : on'[p] = on[p] /\ (React!Held(p)' <=> React!Held(p))
  PROVE  Cardinality(Holders(h)') = Cardinality(Holders(h)) - 1
<1>1. Holders(h)' = Holders(h) \ {o} /\ o \in Holders(h)
  BY DEF Holders
<1> QED
  BY <1>1, HoldersFinite, FS_RemoveElement

(* The same ones, although another job changes hands. *)
LEMMA HoldersSame ==
  ASSUME NEW h, \A p \in Ops : (on'[p] = h /\ React!Held(p)') <=> (on[p] = h /\ React!Held(p))
  PROVE  Holders(h)' = Holders(h)
  BY DEF Holders

(* Where a job can be. *)
LEMMA HeldIs ==
  ASSUME NEW o
  PROVE  /\ React!Held(o) <=> cur = o \/ o \in drained \/ o \in Elems(reactorQueue)
         /\ React!Held(o)' <=> cur' = o \/ o \in drained' \/ o \in Elems(reactorQueue')
  BY DEF React!Held, Elems

-----------------------------------------------------------------------------
(* Shut closes the socket and leaves the counts alone. *)
LEMMA ShutDoes ==
  ASSUME NEW H \in [Handles -> HandleRec], NEW h \in Handles, NEW R, R = React!Shut(H, h)
  PROVE  /\ R \in [Handles -> HandleRec] /\ \A g \in Handles \ {h} : R[g] = H[g]
         /\ R[h].refs = H[h].refs /\ R[h].user = H[h].user /\ R[h].input <= H[h].input
<1>1. PICK e \in HandleRec : e = [H[h] EXCEPT !.open = FALSE, !.input = 0]
  BY DEF HandleRec
<1>2. R = [H EXCEPT ![h] = e]
  BY <1>1 DEF React!Shut
<1>3. R \in [Handles -> HandleRec] /\ R[h] = e /\ \A g \in Handles \ {h} : R[g] = H[g]
  BY <1>2
<1>4. H[h] \in HandleRec
  OBVIOUS
<1>5. e.refs = H[h].refs /\ e.user = H[h].user /\ e.input = 0 /\ H[h].input \in Nat
  BY <1>1, <1>4 DEF HandleRec
<1> QED
  BY <1>3, <1>5

(* Release takes one reference from the handle, whether or not it closes.  *)
LEMMA ReleaseDoes ==
  ASSUME NEW H \in [Handles -> HandleRec], NEW h \in Handles, H[h].refs # 0,
         NEW R, R = React!Release(H, h)
  PROVE  /\ R \in [Handles -> HandleRec] /\ \A g \in Handles \ {h} : R[g] = H[g]
         /\ R[h].refs = H[h].refs - 1 /\ R[h].user = H[h].user /\ R[h].input <= H[h].input
<1>1. H[h] \in HandleRec
  OBVIOUS
<1>2. H[h].refs \in Nat /\ H[h].refs - 1 \in Nat /\ H[h].input \in Nat
  BY <1>1 DEF HandleRec
<1>3. PICK e \in HandleRec : e = [H[h] EXCEPT !.refs = H[h].refs - 1]
  BY <1>1, <1>2 DEF HandleRec
<1>4. e.refs = H[h].refs - 1 /\ e.user = H[h].user /\ e.input = H[h].input
  BY <1>1, <1>3 DEF HandleRec
<1>5. PICK Q : Q = [H EXCEPT ![h] = e]
  OBVIOUS
<1>6. /\ Q \in [Handles -> HandleRec] /\ Q[h] = e /\ \A g \in Handles \ {h} : Q[g] = H[g]
  BY <1>5
<1>7. Q = [H EXCEPT ![h].refs = @ - 1]
  BY <1>3, <1>5
<1>8. R = Q \/ R = React!Shut(Q, h)
  BY <1>7 DEF React!Release
<1>9. CASE R = Q
  BY <1>2, <1>4, <1>6, <1>9
<1>10. CASE R = React!Shut(Q, h)
  <2>1. /\ R \in [Handles -> HandleRec] /\ \A g \in Handles \ {h} : R[g] = Q[g]
        /\ R[h].refs = Q[h].refs /\ R[h].user = Q[h].user /\ R[h].input <= Q[h].input
    BY <1>6, <1>10, ShutDoes
  <2> QED
    BY <1>4, <1>6, <2>1
<1> QED
  BY <1>8, <1>9, <1>10

-----------------------------------------------------------------------------
(* A step that moves no job between owners keeps the counts. *)
LEMMA OwnedSame ==
  ASSUME Owned, on' = on, \A o \in Ops : React!Held(o)' <=> React!Held(o),
         \A o \in Ops : React!Owed(o)' <=> React!Owed(o),
         \A o \in Ops : fut'[o].refs = fut[o].refs /\ fut'[o].user = fut[o].user,
         \A h \in Handles : hnd'[h].refs = hnd[h].refs /\ hnd'[h].user = hnd[h].user
  PROVE  Owned'
<1>1. ASSUME NEW o \in Ops PROVE FutOwned(o)'
  BY DEF Owned, FutOwned, React!Count
<1>2. ASSUME NEW h \in Handles PROVE HandleOwned(h)'
  <2>1. Holders(h)' = Holders(h)
    BY HoldersSame
  <2> QED
    BY <2>1 DEF Owned, HandleOwned, React!Count
<1> QED
  BY <1>1, <1>2 DEF Owned

(* What the counts say of a job: neither of its references is missing. *)
LEMMA JobCounts ==
  ASSUME React!ReactorAssumption, Types, Passed, Owned, NEW o \in Ops, React!Held(o)
  PROVE  /\ on[o] \in Handles /\ reactorCall[o] # "new" /\ reactorCall[o] # "push"
         /\ fut[o].refs \in Nat /\ fut[o].refs # 0
         /\ hnd[on[o]].refs \in Nat /\ hnd[on[o]].refs # 0
<1>1. on[o] \in Handles /\ reactorCall[o] # "new" /\ reactorCall[o] # "push"
  BY DEF Passed
<1>2. fut[o] \in FutRec /\ hnd[on[o]] \in HandleRec
  BY <1>1 DEF Types
<1>3. fut[o].refs \in Nat /\ hnd[on[o]].refs \in Nat
  BY <1>2 DEF FutRec, HandleRec
<1>4. fut[o].refs # 0
  BY DEF Owned, FutOwned, React!Owed, React!Count
<1>5. hnd[on[o]].refs # 0
  <2>1. Holders(on[o]) # {}
    BY DEF Holders
  <2>2. Cardinality(Holders(on[o])) # 0 /\ Cardinality(Holders(on[o])) \in Nat
    BY <2>1, HoldersFinite, FS_EmptySet
  <2>3. hnd[on[o]].refs = React!Count(hnd[on[o]].user) + Cardinality(Holders(on[o]))
    BY <1>1 DEF Owned, HandleOwned
  <2> QED
    BY <2>2, <2>3 DEF React!Count
<1> QED
  BY <1>1, <1>3, <1>4, <1>5

(* A job that gives both its references back, and is no longer anywhere. *)
LEMMA GivesBack ==
  ASSUME React!ReactorAssumption, Types, Passed, Owned, Inputs, NEW o \in Ops, React!Held(o),
         ~React!Held(o)',
         \A p \in Ops \ {o} : React!Held(p)' <=> React!Held(p),
         on' = on, reactorCall' = reactorCall, arrived' = arrived, hnd' = React!Release(hnd, on[o]),
         NEW f \in FutRec, fut' = [fut EXCEPT ![o] = f],
         f.refs = fut[o].refs - 1, f.user = fut[o].user
  PROVE  /\ fut' \in [Ops -> FutRec] /\ hnd' \in [Handles -> HandleRec]
         /\ Passed' /\ Owned' /\ Inputs'
<1>1. /\ on[o] \in Handles /\ reactorCall[o] # "new" /\ reactorCall[o] # "push"
      /\ fut[o].refs \in Nat /\ fut[o].refs # 0
      /\ hnd[on[o]].refs \in Nat /\ hnd[on[o]].refs # 0
  BY JobCounts
<1>2. fut \in [Ops -> FutRec] /\ hnd \in [Handles -> HandleRec] /\ arrived \in Nat
  BY DEF Types
<1>3. /\ hnd' \in [Handles -> HandleRec] /\ \A g \in Handles \ {on[o]} : hnd'[g] = hnd[g]
      /\ hnd'[on[o]].refs = hnd[on[o]].refs - 1 /\ hnd'[on[o]].user = hnd[on[o]].user
      /\ hnd'[on[o]].input <= hnd[on[o]].input
  BY <1>1, <1>2, ReleaseDoes
<1>4. fut' \in [Ops -> FutRec] /\ fut'[o] = f /\ \A p \in Ops \ {o} : fut'[p] = fut[p]
  BY <1>2
<1>5. \A h \in Handles : hnd'[h].user = hnd[h].user
  BY <1>3
<1>6. Passed'
  <2>1. \A p \in Ops : fut'[p].user = fut[p].user
    BY <1>4
  <2>2. \A p \in Ops : React!Held(p)' => React!Held(p)
    OBVIOUS
  <2> QED
    BY <1>5, <2>1, <2>2 DEF Passed
<1>7. ASSUME NEW p \in Ops PROVE FutOwned(p)'
  <2>1. CASE p = o
    BY <1>1, <1>4, <2>1 DEF Owned, FutOwned, React!Owed, React!Count
  <2>2. CASE p # o
    BY <1>4, <2>2 DEF Owned, FutOwned, React!Owed, React!Count
  <2> QED
    BY <2>1, <2>2
<1>8. ASSUME NEW h \in Handles PROVE HandleOwned(h)'
  <2>0. hnd[h].refs = React!Count(hnd[h].user) + Cardinality(Holders(h))
    BY DEF Owned, HandleOwned
  <2>1. CASE h = on[o]
    <3>1. Cardinality(Holders(h)') = Cardinality(Holders(h)) - 1
      BY <2>1, HoldersLess
    <3>2. Cardinality(Holders(h)) \in Nat
      BY HoldersFinite
    <3> QED
      BY <1>3, <2>0, <2>1, <3>1, <3>2 DEF HandleOwned, React!Count
  <2>2. CASE h # on[o]
    <3>1. Holders(h)' = Holders(h)
      BY <2>2, HoldersSame
    <3> QED
      BY <1>3, <2>0, <2>2, <3>1 DEF HandleOwned, React!Count
  <2> QED
    BY <2>1, <2>2
<1>9. Inputs'
  <2>1. \A h \in Handles : hnd[h] \in HandleRec /\ hnd'[h] \in HandleRec
    BY <1>2, <1>3
  <2>2. \A h \in Handles : hnd[h].input \in Nat /\ hnd'[h].input \in Nat
    BY <2>1 DEF HandleRec
  <2>3. \A h \in Handles : hnd'[h].input <= hnd[h].input
    BY <1>3, <2>2
  <2> QED
    BY <1>2, <2>2, <2>3 DEF Inputs
<1> QED
  BY <1>3, <1>4, <1>6, <1>7, <1>8, <1>9 DEF Owned

-----------------------------------------------------------------------------

(* The future and the job of a new operation. *)
LEMMA ReactorSpawnKeeps ==
  ASSUME RInv, NEW o \in Ops, NEW h \in Handles, React!Spawn(o, h)
  PROVE  RInv'
<1>0. Types /\ Placed /\ Passed /\ Owned /\ Inputs /\ Waits
      /\ React!ReactorAssumption
  BY DEF RInv
<1>1. /\ reactorCall[o] = "new" /\ hnd[h].user /\ on' = [on EXCEPT ![o] = h]
      /\ UNCHANGED <<flag, reactorQueue, hnd, cur, drained, arrived>>
  BY DEF React!Spawn
<1>2. fut \in [Ops -> FutRec] /\ reactorCall \in [Ops -> {"new", "push", "notify", "returned"}]
      /\ on \in [Ops -> Handles \cup {Nil}] /\ reactorPc \in Places
  BY <1>0 DEF Types
<1>3. PICK f \in FutRec, c \in {"push", "returned"} :
        /\ fut' = [fut EXCEPT ![o] = f] /\ reactorCall' = [reactorCall EXCEPT ![o] = c]
        /\ f.user = TRUE /\ f.refs = IF c = "push" THEN 2 ELSE 1
        /\ reactorPc' \in Places /\ (reactorPc' = reactorPc \/ (reactorPc = "none"
             /\ reactorPc' = "top"))
  <2>0. fut[o] \in FutRec
    BY <1>2
  <2>1. CASE reactorCall' = [reactorCall EXCEPT ![o] = "push"]
    <3>1. PICK f \in FutRec : f = [fut[o] EXCEPT !.refs = 2, !.user = TRUE]
      BY <2>0 DEF FutRec
    <3>2. f.user = TRUE /\ f.refs = 2
      BY <2>0, <3>1 DEF FutRec
    <3>3. fut' = [fut EXCEPT ![o] = f]
      <4>1. reactorCall'[o] = "push"
        BY <1>2, <2>1
      <4>2. fut' = [fut EXCEPT ![o].refs = 2, ![o].user = TRUE]
        BY <1>2, <4>1 DEF React!Spawn
      <4> QED
        BY <3>1, <4>2
    <3>4. reactorPc' \in Places /\ (reactorPc' = reactorPc \/ (reactorPc = "none"
            /\ reactorPc' = "top"))
      BY <1>2 DEF React!Spawn, Places
    <3> QED
      BY <2>1, <3>2, <3>3, <3>4
  <2>2. CASE reactorCall' = [reactorCall EXCEPT ![o] = "returned"]
    <3>1. PICK f \in FutRec : f = [fut[o] EXCEPT !.refs = 1, !.user = TRUE, !.status = "Failed"]
      BY <2>0 DEF FutRec
    <3>2. f.user = TRUE /\ f.refs = 1
      BY <2>0, <3>1 DEF FutRec
    <3>3. fut' = [fut EXCEPT ![o] = f]
      <4>1. reactorCall'[o] = "returned"
        BY <1>2, <2>2
      <4>2. fut' = [fut EXCEPT ![o].refs = 1, ![o].user = TRUE, ![o].status = "Failed"]
        BY <1>2, <4>1 DEF React!Spawn
      <4> QED
        BY <3>1, <4>2
    <3>4. reactorPc' \in Places /\ (reactorPc' = reactorPc \/ (reactorPc = "none"
            /\ reactorPc' = "top"))
      BY <1>2 DEF React!Spawn, Places
    <3> QED
      BY <2>2, <3>2, <3>3, <3>4
  <2> QED
    BY <2>1, <2>2 DEF React!Spawn
<1>4. /\ fut' \in [Ops -> FutRec] /\ reactorCall' \in [Ops -> {"new", "push", "notify", "returned"}]
      /\ on' \in [Ops -> Handles \cup {Nil}] /\ fut'[o] = f /\ reactorCall'[o] = c /\ on'[o] = h
      /\ \A p \in Ops \ {o} : fut'[p] = fut[p] /\ reactorCall'[p] = reactorCall[p] /\ on'[p] = on[p]
  BY <1>1, <1>2, <1>3
<1>5. \A p \in Ops : React!Held(p)' <=> React!Held(p)
  BY <1>1 DEF React!Held
<1>6. ~React!Held(o)
  BY <1>0, <1>1 DEF Passed
<1>7. Types'
  BY <1>0, <1>1, <1>3, <1>4 DEF Types
<1>8. Placed'
  BY <1>0, <1>1, <1>3 DEF Placed, Busy
<1>9. Passed'
  BY <1>0, <1>1, <1>3, <1>4, <1>5, <1>6 DEF Passed
<1>10. Owned'
  <2>1. ASSUME NEW p \in Ops PROVE FutOwned(p)'
    <3>1. CASE p = o
      BY <1>3, <1>4, <1>5, <1>6, <3>1 DEF FutOwned, React!Owed, React!Count
    <3>2. CASE p # o
      BY <1>0, <1>4, <1>5, <3>2 DEF Owned, FutOwned, React!Owed, React!Count
    <3> QED
      BY <3>1, <3>2
  <2>2. ASSUME NEW g \in Handles PROVE HandleOwned(g)'
    <3>1. Holders(g)' = Holders(g)
      BY <1>4, <1>5, <1>6, HoldersSame
    <3> QED
      BY <1>0, <1>1, <3>1 DEF Owned, HandleOwned
  <2> QED
    BY <2>1, <2>2 DEF Owned
<1>11. Inputs'
  BY <1>0, <1>1 DEF Inputs
<1>12. Waits'
  BY <1>0, <1>1, <1>3, <1>4 DEF Waits, React!NoJobForgotten
<1> QED
  BY <1>7, <1>8, <1>9, <1>10, <1>11, <1>12 DEF RInv

(* A job enters the queue with a reference to its handle of its own. *)
LEMMA PushKeeps ==
  ASSUME RInv, NEW o \in Ops, React!Push(o)
  PROVE  RInv'
<1>0. Types /\ Placed /\ Passed /\ Owned /\ Inputs /\ Waits
      /\ React!ReactorAssumption
  BY DEF RInv
<1>1. /\ reactorCall[o] = "push" /\ reactorPc # "toWait" /\ reactorQueue' = Append(reactorQueue, o)
      /\ hnd' = [hnd EXCEPT ![on[o]].refs = @ + 1]
           /\ reactorCall' = [reactorCall EXCEPT ![o] = "notify"]
      /\ UNCHANGED <<flag, on, fut, reactorPc, cur, drained, arrived>>
  BY DEF React!Push
<1>2. /\ hnd \in [Handles -> HandleRec] /\ reactorCall \in [Ops -> {"new", "push", "notify",
           "returned"}]
      /\ reactorQueue \in Seq(Ops) /\ on[o] \in Handles /\ ~React!Held(o)
  BY <1>0, <1>1 DEF Types, Passed
<1>3. o \notin Elems(reactorQueue) /\ cur # o /\ o \notin drained
  BY <1>2, HeldIs
<1>4. reactorQueue' \in Seq(Ops) /\ Elems(reactorQueue') = Elems(reactorQueue) \cup {o}
        /\ Distinct(reactorQueue')
  <2>1. PICK r \in Seq(Ops) : r = Append(reactorQueue, o)
    <3>1. Append(reactorQueue, o) \in Seq(Ops)
      BY <1>2
    <3> QED
      BY <3>1, Zenon
  <2>2. Distinct(reactorQueue)
    BY <1>0 DEF Placed
  <2>3. r \in Seq(Ops) /\ Elems(r) = Elems(reactorQueue) \cup {o} /\ Distinct(r)
    <3>1. reactorQueue \in Seq(Ops) /\ o \notin Elems(reactorQueue)
      BY <1>2, <1>3
    <3> QED
      BY <2>1, <2>2, <3>1, AppendElems, Zenon
  <2> QED
    BY <1>1, <2>1, <2>3
<1>5. \A p \in Ops \ {o} : React!Held(p)' <=> React!Held(p)
  BY <1>1, <1>4, HeldIs
<1>6. React!Held(o)'
  BY <1>4, HeldIs
<1>7. hnd[on[o]] \in HandleRec
  BY <1>2
<1>8. PICK e \in HandleRec : e = [hnd[on[o]] EXCEPT !.refs = hnd[on[o]].refs + 1]
  <2>1. hnd[on[o]].refs \in Nat /\ hnd[on[o]].refs + 1 \in Nat
    BY <1>7 DEF HandleRec
  <2> QED
    BY <1>7, <2>1 DEF HandleRec
<1>9. /\ e.refs = hnd[on[o]].refs + 1 /\ e.user = hnd[on[o]].user /\ e.input = hnd[on[o]].input
      /\ hnd[on[o]].refs \in Nat
  BY <1>7, <1>8 DEF HandleRec
<1>10. hnd' = [hnd EXCEPT ![on[o]] = e]
  BY <1>1, <1>8
<1>11. /\ hnd' \in [Handles -> HandleRec] /\ hnd'[on[o]] = e
       /\ \A g \in Handles \ {on[o]} : hnd'[g] = hnd[g]
       /\ reactorCall' \in [Ops -> {"new", "push", "notify", "returned"}]
            /\ reactorCall'[o] = "notify"
       /\ \A p \in Ops \ {o} : reactorCall'[p] = reactorCall[p]
  BY <1>1, <1>2, <1>10
<1>12. \A g \in Handles : hnd'[g].user = hnd[g].user /\ hnd'[g].input = hnd[g].input
  BY <1>9, <1>11
<1>13. Types'
  BY <1>0, <1>1, <1>4, <1>11 DEF Types
<1>14. Placed'
  BY <1>0, <1>1, <1>3, <1>4 DEF Placed
<1>15. Passed'
  BY <1>0, <1>1, <1>2, <1>5, <1>11, <1>12 DEF Passed
<1>16. Owned'
  <2>1. ASSUME NEW p \in Ops PROVE FutOwned(p)'
    BY <1>0, <1>1, <1>5, <1>6, <1>11 DEF Owned, FutOwned, React!Owed, React!Count
  <2>2. ASSUME NEW g \in Handles PROVE HandleOwned(g)'
    <3>0. hnd[g].refs = React!Count(hnd[g].user) + Cardinality(Holders(g))
      BY <1>0 DEF Owned, HandleOwned
    <3>1. CASE g = on[o]
      <4>1. Cardinality(Holders(g)') = Cardinality(Holders(g)) + 1
        BY <1>1, <1>2, <1>5, <1>6, <3>1, <1>0, HoldersMore
      <4>2. Cardinality(Holders(g)) \in Nat
        BY <1>0, HoldersFinite
      <4> QED
        BY <1>9, <1>11, <3>0, <3>1, <4>1, <4>2 DEF HandleOwned, React!Count
    <3>2. CASE g # on[o]
      <4>1. Holders(g)' = Holders(g)
        BY <1>1, <1>5, <3>2, HoldersSame
      <4> QED
        BY <1>11, <3>0, <3>2, <4>1 DEF HandleOwned, React!Count
    <3> QED
      BY <3>1, <3>2
  <2> QED
    BY <2>1, <2>2 DEF Owned
<1>17. Inputs'
  BY <1>0, <1>1, <1>12 DEF Inputs
<1>18. Waits'
  BY <1>1, <1>11 DEF Waits, React!NoJobForgotten
<1> QED
  BY <1>13, <1>14, <1>15, <1>16, <1>17, <1>18 DEF RInv

(* A notification wakes the thread if it sleeps; so does a shutdown. *)
LEMMA NotifyKeeps ==
  ASSUME RInv, NEW o \in Ops, React!Notify(o)
  PROVE  RInv'
<1>0. Types /\ Placed /\ Passed /\ Owned /\ Inputs /\ Waits
      /\ React!ReactorAssumption
  BY DEF RInv
<1>1. /\ reactorCall[o] = "notify" /\ reactorCall' = [reactorCall EXCEPT ![o] = "returned"]
           /\ reactorPc' = React!Notified(reactorPc)
      /\ UNCHANGED <<flag, reactorQueue, on, fut, hnd, cur, drained, arrived>>
  BY DEF React!Notify
<1>2. /\ reactorPc' \in Places /\ reactorPc' # "waiting" /\ (reactorPc' = reactorPc
           \/ (reactorPc = "waiting" /\ reactorPc' = "take"))
  BY <1>0, <1>1 DEF Types, React!Notified, Places
<1>3. /\ reactorCall' \in [Ops -> {"new", "push", "notify", "returned"}]
           /\ reactorCall'[o] = "returned"
      /\ \A p \in Ops \ {o} : reactorCall'[p] = reactorCall[p]
  BY <1>0, <1>1 DEF Types
<1>4. \A p \in Ops : React!Held(p)' <=> React!Held(p)
  BY <1>1 DEF React!Held
<1>5. \A p \in Ops : React!Owed(p)' <=> React!Owed(p)
  BY <1>1, <1>3, <1>4 DEF React!Owed
<1>6. Owned'
  BY <1>0, <1>1, <1>4, <1>5, OwnedSame
<1>7. Types' /\ Placed' /\ Inputs'
  BY <1>0, <1>1, <1>2, <1>3 DEF Types, Placed, Busy, Inputs
<1>8. Passed'
  BY <1>0, <1>1, <1>3, <1>4 DEF Passed
<1>9. Waits'
  BY <1>0, <1>1, <1>2 DEF Waits, React!NoJobForgotten
<1> QED
  BY <1>6, <1>7, <1>8, <1>9 DEF RInv

(* A shutdown notifies the thread, a restart finds none. *)
LEMMA HostKeeps ==
  ASSUME RInv, React!Shutdown \/ React!Restart
  PROVE  RInv'
<1>0. Types /\ Placed /\ Passed /\ Owned /\ Inputs /\ Waits
      /\ React!ReactorAssumption
  BY DEF RInv
<1>1. UNCHANGED <<reactorQueue, reactorCall, on, fut, hnd, cur, drained, arrived>>
  BY DEF React!Shutdown, React!Restart, React!calls
<1>2. /\ reactorPc' \in Places /\ (reactorPc' = reactorPc \/ (reactorPc = "waiting"
           /\ reactorPc' = "take")) /\ flag' \in BOOLEAN
  BY <1>0 DEF Types, React!Shutdown, React!Restart, React!Notified, Places
<1>4. \A p \in Ops : React!Held(p)' <=> React!Held(p)
  BY <1>1 DEF React!Held
<1>5. \A p \in Ops : React!Owed(p)' <=> React!Owed(p)
  BY <1>1, <1>4 DEF React!Owed
<1>6. Owned'
  BY <1>0, <1>1, <1>4, <1>5, OwnedSame
<1>7. Types' /\ Placed' /\ Inputs'
  BY <1>0, <1>1, <1>2 DEF Types, Placed, Busy, Inputs
<1>8. Passed'
  BY <1>0, <1>1, <1>4 DEF Passed
<1>9. Waits'
  BY <1>0, <1>1, <1>2 DEF Waits, React!NoJobForgotten
<1> QED
  BY <1>6, <1>7, <1>8, <1>9 DEF RInv

(* The program cancels an operation. *)
LEMMA CancelKeeps ==
  ASSUME RInv, NEW o \in Ops, React!Cancel(o)
  PROVE  RInv'
<1>0. Types /\ Placed /\ Passed /\ Owned /\ Inputs /\ Waits
      /\ React!ReactorAssumption
  BY DEF RInv
<1>1. /\ fut' = [fut EXCEPT ![o].status = "Cancelled"]
      /\ UNCHANGED <<flag, reactorQueue, reactorCall, on, hnd, reactorPc, cur, drained, arrived>>
  BY DEF React!Cancel, React!calls
<1>2. fut \in [Ops -> FutRec] /\ fut[o] \in FutRec
  BY <1>0 DEF Types
<1>3. PICK f \in FutRec : f = [fut[o] EXCEPT !.status = "Cancelled"]
  BY <1>2 DEF FutRec
<1>4. f.refs = fut[o].refs /\ f.user = fut[o].user
  BY <1>2, <1>3 DEF FutRec
<1>5. fut' = [fut EXCEPT ![o] = f]
  BY <1>1, <1>3
<1>6. /\ fut' \in [Ops -> FutRec]
      /\ \A p \in Ops : fut'[p].refs = fut[p].refs /\ fut'[p].user = fut[p].user
  BY <1>2, <1>4, <1>5
<1>7. \A p \in Ops : React!Held(p)' <=> React!Held(p)
  BY <1>1 DEF React!Held
<1>8. \A p \in Ops : React!Owed(p)' <=> React!Owed(p)
  BY <1>1, <1>7 DEF React!Owed
<1>9. Owned'
  BY <1>0, <1>1, <1>6, <1>7, <1>8, OwnedSame
<1>10. Types' /\ Placed' /\ Inputs' /\ Waits'
  BY <1>0, <1>1, <1>6 DEF Types, Placed, Inputs, Waits, React!NoJobForgotten
<1>11. Passed'
  BY <1>0, <1>1, <1>6, <1>7 DEF Passed
<1> QED
  BY <1>9, <1>10, <1>11 DEF RInv

(* The program drops its reference to the future. *)
LEMMA DropFutureKeeps ==
  ASSUME RInv, NEW o \in Ops, React!DropFuture(o)
  PROVE  RInv'
<1>0. Types /\ Placed /\ Passed /\ Owned /\ Inputs /\ Waits
      /\ React!ReactorAssumption
  BY DEF RInv
<1>1. /\ fut[o].user /\ fut' = [fut EXCEPT ![o].user = FALSE, ![o].refs = @ - 1]
      /\ UNCHANGED <<flag, reactorQueue, reactorCall, on, hnd, reactorPc, cur, drained, arrived>>
  BY DEF React!DropFuture, React!calls
<1>2. fut \in [Ops -> FutRec] /\ fut[o] \in FutRec
  BY <1>0 DEF Types
<1>3. fut[o].refs = 1 + React!Count(React!Owed(o))
  BY <1>0, <1>1 DEF Owned, FutOwned, React!Count
<1>4. fut[o].refs \in Nat /\ fut[o].refs - 1 \in Nat
  BY <1>2, <1>3 DEF FutRec, React!Count
<1>5. PICK f \in FutRec : f = [fut[o] EXCEPT !.user = FALSE, !.refs = fut[o].refs - 1]
  BY <1>2, <1>4 DEF FutRec
<1>6. f.refs = fut[o].refs - 1 /\ f.user = FALSE
  BY <1>2, <1>5 DEF FutRec
<1>7. fut' = [fut EXCEPT ![o] = f]
  BY <1>1, <1>5
<1>8. fut' \in [Ops -> FutRec] /\ fut'[o] = f /\ \A p \in Ops \ {o} : fut'[p] = fut[p]
  BY <1>2, <1>7
<1>9. \A p \in Ops : React!Held(p)' <=> React!Held(p)
  BY <1>1 DEF React!Held
<1>10. \A p \in Ops : React!Owed(p)' <=> React!Owed(p)
  BY <1>1, <1>9 DEF React!Owed
<1>11. Owned'
  <2>1. ASSUME NEW p \in Ops PROVE FutOwned(p)'
    <3>1. CASE p = o
      BY <1>3, <1>6, <1>8, <1>10, <3>1 DEF FutOwned, React!Count
    <3>2. CASE p # o
      BY <1>0, <1>8, <1>10, <3>2 DEF Owned, FutOwned, React!Count
    <3> QED
      BY <3>1, <3>2
  <2>2. ASSUME NEW g \in Handles PROVE HandleOwned(g)'
    <3>1. Holders(g)' = Holders(g)
      BY <1>1, <1>9, HoldersSame
    <3> QED
      BY <1>0, <1>1, <3>1 DEF Owned, HandleOwned
  <2> QED
    BY <2>1, <2>2 DEF Owned
<1>12. Types' /\ Placed' /\ Inputs' /\ Waits'
  BY <1>0, <1>1, <1>8 DEF Types, Placed, Inputs, Waits, React!NoJobForgotten
<1>13. Passed'
  BY <1>0, <1>1, <1>6, <1>8, <1>9 DEF Passed
<1> QED
  BY <1>11, <1>12, <1>13 DEF RInv

(* The program closes a handle, or drops it: only its own reference goes.  *)
LEMMA CloseKeeps ==
  ASSUME RInv, NEW h \in Handles, React!Close(h) \/ React!DropHandle(h)
  PROVE  RInv'
<1>0. Types /\ Placed /\ Passed /\ Owned /\ Inputs /\ Waits
      /\ React!ReactorAssumption
  BY DEF RInv
<1>1. /\ hnd[h].user /\ React!NotPassed(h)
      /\ UNCHANGED <<flag, reactorQueue, reactorCall, on, fut, reactorPc, cur, drained, arrived>>
  BY DEF React!Close, React!DropHandle, React!calls
<1>2. hnd \in [Handles -> HandleRec] /\ hnd[h] \in HandleRec /\ arrived \in Nat
  BY <1>0 DEF Types
<1>3. PICK e \in HandleRec : e = [hnd[h] EXCEPT !.user = FALSE]
  BY <1>2 DEF HandleRec
<1>4. e.refs = hnd[h].refs /\ e.user = FALSE /\ e.input = hnd[h].input /\ e.input \in Nat
  BY <1>2, <1>3 DEF HandleRec
<1>5. PICK H : H = [hnd EXCEPT ![h] = e]
  OBVIOUS
<1>6. H \in [Handles -> HandleRec] /\ H[h] = e /\ \A g \in Handles \ {h} : H[g] = hnd[g]
  BY <1>2, <1>3, <1>5
<1>7. PICK K : hnd' = React!Release(K, h) /\ (K = H \/ K = React!Shut(H, h))
  <2>1. H = [hnd EXCEPT ![h].user = FALSE]
    BY <1>2, <1>3, <1>5
  <2> QED
    BY <2>1 DEF React!Close, React!DropHandle
<1>8. /\ K \in [Handles -> HandleRec] /\ \A g \in Handles \ {h} : K[g] = hnd[g]
      /\ K[h].refs = hnd[h].refs /\ K[h].user = FALSE /\ K[h].input <= hnd[h].input
  <2>1. CASE K = H
    BY <1>4, <1>6, <2>1
  <2>2. CASE K = React!Shut(H, h)
    <3>1. /\ K \in [Handles -> HandleRec] /\ \A g \in Handles \ {h} : K[g] = H[g]
          /\ K[h].refs = H[h].refs /\ K[h].user = H[h].user /\ K[h].input <= H[h].input
      BY <1>6, <2>2, ShutDoes
    <3> QED
      BY <1>4, <1>6, <3>1
  <2> QED
    BY <1>7, <2>1, <2>2
<1>9. Cardinality(Holders(h)) \in Nat /\ hnd[h].refs = 1 + Cardinality(Holders(h))
  BY <1>0, <1>1, HoldersFinite DEF Owned, HandleOwned, React!Count
<1>10. /\ hnd' \in [Handles -> HandleRec] /\ \A g \in Handles \ {h} : hnd'[g] = K[g]
       /\ hnd'[h].refs = K[h].refs - 1 /\ hnd'[h].user = K[h].user
       /\ hnd'[h].input <= K[h].input
  <2>1. K[h].refs # 0
    BY <1>8, <1>9
  <2> QED
    BY <1>7, <1>8, <2>1, ReleaseDoes
<1>11. /\ \A g \in Handles \ {h} : hnd'[g] = hnd[g]
       /\ hnd'[h].refs = hnd[h].refs - 1 /\ hnd'[h].user = FALSE
  BY <1>8, <1>10
<1>12. \A p \in Ops : React!Held(p)' <=> React!Held(p)
  BY <1>1 DEF React!Held
<1>13. \A p \in Ops : React!Owed(p)' <=> React!Owed(p)
  BY <1>1, <1>12 DEF React!Owed
<1>14. Owned'
  <2>1. ASSUME NEW p \in Ops PROVE FutOwned(p)'
    BY <1>0, <1>1, <1>13 DEF Owned, FutOwned, React!Count
  <2>2. ASSUME NEW g \in Handles PROVE HandleOwned(g)'
    <3>1. Holders(g)' = Holders(g)
      BY <1>1, <1>12, HoldersSame
    <3>2. CASE g = h
      BY <1>9, <1>11, <3>1, <3>2 DEF HandleOwned, React!Count
    <3>3. CASE g # h
      BY <1>0, <1>11, <3>1, <3>3 DEF Owned, HandleOwned, React!Count
    <3> QED
      BY <3>2, <3>3
  <2> QED
    BY <2>1, <2>2 DEF Owned
<1>15. Types' /\ Placed' /\ Waits'
  BY <1>0, <1>1, <1>10 DEF Types, Placed, Waits, React!NoJobForgotten
<1>16. Passed'
  BY <1>0, <1>1, <1>11, <1>12 DEF Passed, React!NotPassed
<1>17. Inputs'
  <2>1. hnd'[h] \in HandleRec /\ K[h] \in HandleRec
    BY <1>8, <1>10
  <2>2. hnd'[h].input \in Nat /\ K[h].input \in Nat /\ hnd[h].input \in Nat
    BY <1>2, <2>1 DEF HandleRec
  <2>3. hnd'[h].input <= hnd[h].input
    BY <1>8, <1>10, <2>2
  <2> QED
    BY <1>0, <1>1, <1>2, <1>11, <2>2, <2>3 DEF Inputs
<1> QED
  BY <1>14, <1>15, <1>16, <1>17 DEF RInv

(* A step that moves jobs from place to place, or only the thread. *)
LEMMA Moves ==
  ASSUME RInv, UNCHANGED <<flag, reactorCall, on, fut, hnd, arrived>>,
         \A p \in Ops : React!Held(p)' <=> React!Held(p),
         reactorQueue' \in Seq(Ops), drained' \subseteq Ops, cur' \in Ops \cup {Nil},
           reactorPc' \in Places,
         Placed', Waits'
  PROVE  RInv'
<1>0. Types /\ Placed /\ Passed /\ Owned /\ Inputs /\ Waits
      /\ React!ReactorAssumption
  BY DEF RInv
<1>1. \A p \in Ops : React!Owed(p)' <=> React!Owed(p)
  BY DEF React!Owed
<1>2. Owned'
  BY <1>0, <1>1, OwnedSame
<1>3. Types' /\ Inputs'
  BY <1>0 DEF Types, Inputs
<1>4. Passed'
  BY <1>0 DEF Passed
<1> QED
  BY <1>2, <1>3, <1>4 DEF RInv

(* A step that changes a handle, and none of its counts. *)
LEMMA HandleMoves ==
  ASSUME RInv, NEW h \in Handles, NEW e \in HandleRec, hnd' = [hnd EXCEPT ![h] = e],
         e.refs = hnd[h].refs, e.user = hnd[h].user, e.input <= arrived',
         arrived' \in 0..MaxInput, arrived <= arrived',
         UNCHANGED <<flag, reactorQueue, reactorCall, on, fut, cur, drained>>,
         reactorPc' = reactorPc \/ (reactorPc \in Busy /\ reactorPc' \in Busy)
  PROVE  RInv'
<1>0. Types /\ Placed /\ Passed /\ Owned /\ Inputs /\ Waits
      /\ React!ReactorAssumption
  BY DEF RInv
<1>1. hnd \in [Handles -> HandleRec] /\ MaxInput \in Nat /\ arrived \in 0..MaxInput
  BY <1>0, ReactorParameters DEF Types
<1>2. hnd' \in [Handles -> HandleRec] /\ hnd'[h] = e /\ \A g \in Handles \ {h} : hnd'[g] = hnd[g]
  BY <1>1
<1>3. \A g \in Handles : hnd'[g].refs = hnd[g].refs /\ hnd'[g].user = hnd[g].user
  BY <1>2
<1>4. \A p \in Ops : React!Held(p)' <=> React!Held(p)
  BY DEF React!Held
<1>5. \A p \in Ops : React!Owed(p)' <=> React!Owed(p)
  BY <1>4 DEF React!Owed
<1>6. Owned'
  BY <1>0, <1>3, <1>4, <1>5, OwnedSame
<1>7. reactorPc' \in Places
  BY <1>0 DEF Types, Busy, Places
<1>8. Types'
  BY <1>0, <1>2, <1>7 DEF Types
<1>9. Placed' /\ Waits'
  BY <1>0 DEF Placed, Busy, Waits, React!NoJobForgotten
<1>10. Passed'
  BY <1>0, <1>3, <1>4 DEF Passed
<1>11. Inputs'
  <2>1. \A g \in Handles : hnd[g] \in HandleRec
    BY <1>1
  <2>2. \A g \in Handles : hnd[g].input \in Nat
    BY <2>1 DEF HandleRec
  <2>3. \A g \in Handles \ {h} : hnd[g].input <= arrived'
    BY <1>0, <1>1, <2>2 DEF Inputs
  <2> QED
    BY <1>2, <2>3 DEF Inputs
<1> QED
  BY <1>6, <1>8, <1>9, <1>10, <1>11 DEF RInv

(* A step with which a job ends. *)
LEMMA JobEnds ==
  ASSUME RInv, NEW o \in Ops, React!Held(o), ~React!Held(o)',
         \A p \in Ops \ {o} : React!Held(p)' <=> React!Held(p),
         UNCHANGED <<flag, reactorQueue, reactorCall, on, arrived>>,
           hnd' = React!Release(hnd, on[o]),
         NEW s \in {"Pending", "Ready", "Failed", "Cancelled"},
         fut' = [fut EXCEPT ![o].status = s, ![o].refs = @ - 1],
         drained' \subseteq Ops, cur' \in Ops \cup {Nil}, reactorPc' \in Places,
         Placed', Waits'
  PROVE  RInv'
<1>0. Types /\ Placed /\ Passed /\ Owned /\ Inputs /\ Waits
      /\ React!ReactorAssumption
  BY DEF RInv
<1>1. fut \in [Ops -> FutRec] /\ fut[o] \in FutRec
  BY <1>0 DEF Types
<1>2. fut[o].refs \in Nat /\ fut[o].refs - 1 \in Nat
  <2>1. fut[o].refs \in Nat /\ fut[o].refs # 0
    BY <1>0, JobCounts
  <2> QED
    BY <2>1
<1>3. PICK f \in FutRec : f = [fut[o] EXCEPT !.status = s, !.refs = fut[o].refs - 1]
  BY <1>1, <1>2 DEF FutRec
<1>4. f.refs = fut[o].refs - 1 /\ f.user = fut[o].user
  BY <1>1, <1>3 DEF FutRec
<1>5. fut' = [fut EXCEPT ![o] = f]
  BY <1>1, <1>3
<1>6. /\ fut' \in [Ops -> FutRec] /\ hnd' \in [Handles -> HandleRec]
      /\ Passed' /\ Owned' /\ Inputs'
  BY <1>0, <1>4, <1>5, GivesBack
<1>7. Types'
  BY <1>0, <1>6 DEF Types
<1> QED
  BY <1>6, <1>7 DEF RInv

-----------------------------------------------------------------------------
(* Input arrives; the program's synchronous calls. *)
LEMMA ArriveKeeps ==
  ASSUME RInv, NEW h \in Handles, React!Arrive(h)
  PROVE  RInv'
<1>0. Types /\ Placed /\ Passed /\ Owned /\ Inputs /\ Waits
      /\ React!ReactorAssumption
  BY DEF RInv
<1>1. /\ arrived < MaxInput /\ arrived' = arrived + 1 /\ hnd' = [hnd EXCEPT ![h].input = @ + 1]
      /\ UNCHANGED <<flag, reactorQueue, reactorCall, on, fut, reactorPc, cur, drained>>
  BY DEF React!Arrive, React!calls
<1>2. hnd \in [Handles -> HandleRec] /\ hnd[h] \in HandleRec /\ arrived \in Nat
      /\ arrived \in 0..MaxInput /\ MaxInput \in Nat
  BY <1>0, ReactorParameters DEF Types
<1>3. hnd[h].input \in Nat /\ hnd[h].input + 1 \in Nat /\ hnd[h].input <= arrived
  BY <1>0, <1>2 DEF HandleRec, Inputs
<1>4. PICK e \in HandleRec : e = [hnd[h] EXCEPT !.input = hnd[h].input + 1]
  BY <1>2, <1>3 DEF HandleRec
<1>5. e.refs = hnd[h].refs /\ e.user = hnd[h].user /\ e.input = hnd[h].input + 1
  BY <1>2, <1>4 DEF HandleRec
<1>6. hnd' = [hnd EXCEPT ![h] = e]
  BY <1>1, <1>2, <1>4
<1>7. e.input <= arrived' /\ arrived' \in 0..MaxInput /\ arrived <= arrived'
  BY <1>1, <1>2, <1>3, <1>5
<1> QED
  BY <1>1, <1>5, <1>6, <1>7, HandleMoves

(* A synchronous call holds the mutex of the handle while it blocks. *)
LEMMA SyncKeeps ==
  ASSUME RInv, NEW h \in Handles, React!SyncStarts(h) \/ React!SyncEnds(h)
  PROVE  RInv'
<1>0. Types /\ Placed /\ Passed /\ Owned /\ Inputs /\ Waits
      /\ React!ReactorAssumption
  BY DEF RInv
<1>1. UNCHANGED <<flag, reactorQueue, reactorCall, on, fut, reactorPc, cur, drained, arrived>>
  BY DEF React!SyncStarts, React!SyncEnds, React!calls
<1>2. hnd \in [Handles -> HandleRec] /\ hnd[h] \in HandleRec /\ arrived \in 0..MaxInput
      /\ MaxInput \in Nat
  BY <1>0, ReactorParameters DEF Types
<1>3. hnd[h].input \in Nat /\ hnd[h].input <= arrived
  BY <1>0, <1>2 DEF HandleRec, Inputs
<1>4. CASE React!SyncStarts(h)
  <2>1. PICK e \in HandleRec : e = [hnd[h] EXCEPT !.holder = "caller"]
    BY <1>2 DEF HandleRec
  <2>2. e.refs = hnd[h].refs /\ e.user = hnd[h].user /\ e.input = hnd[h].input
    BY <1>2, <2>1 DEF HandleRec
  <2>3. hnd' = [hnd EXCEPT ![h] = e]
    BY <1>2, <1>4, <2>1 DEF React!SyncStarts
  <2>4. e.input <= arrived' /\ arrived' \in 0..MaxInput /\ arrived <= arrived'
    BY <1>1, <1>2, <1>3, <2>2
  <2> QED
    BY <1>1, <2>2, <2>3, <2>4, HandleMoves
<1>5. CASE React!SyncEnds(h)
  <2>0. hnd[h].input > 0 /\ hnd' = [hnd EXCEPT ![h].holder = "nobody", ![h].input = @ - 1]
    BY <1>5 DEF React!SyncEnds
  <2>1. PICK e \in HandleRec : e = [hnd[h] EXCEPT !.holder = "nobody", !.input = hnd[h].input - 1]
    <3>1. hnd[h].input - 1 \in Nat
      BY <1>3, <2>0
    <3> QED
      BY <1>2, <3>1 DEF HandleRec
  <2>2. e.refs = hnd[h].refs /\ e.user = hnd[h].user /\ e.input = hnd[h].input - 1
    BY <1>2, <2>1 DEF HandleRec
  <2>3. hnd' = [hnd EXCEPT ![h] = e]
    BY <1>2, <2>0, <2>1
  <2>4. e.input <= arrived' /\ arrived' \in 0..MaxInput /\ arrived <= arrived'
    BY <1>1, <1>2, <1>3, <2>2
  <2> QED
    BY <1>1, <2>2, <2>3, <2>4, HandleMoves
<1> QED
  BY <1>4, <1>5

(* The operation runs under the handle's mutex, goes on, and ends or panics. *)
LEMMA WorkKeeps ==
  ASSUME RInv, React!WorkStarts \/ React!WorkGoesOn \/ React!WorkEnds \/ React!Panic
  PROVE  RInv'
<1>0. Types /\ Placed /\ Passed /\ Owned /\ Inputs /\ Waits
      /\ React!ReactorAssumption
  BY DEF RInv
<1>1. /\ UNCHANGED <<flag, reactorQueue, reactorCall, on, fut, cur, drained, arrived>>
      /\ reactorPc \in Busy /\ reactorPc' \in Busy
  BY DEF React!WorkStarts, React!WorkGoesOn, React!WorkEnds, React!Panic, React!Loop, React!calls,
         Busy
<1>2. cur \in Ops /\ React!Held(cur)
  BY <1>0, <1>1 DEF Types, Placed, React!Held
<1>3. PICK h \in Handles : h = on[cur]
  BY <1>0, <1>2 DEF Passed
<1>4. hnd \in [Handles -> HandleRec] /\ hnd[h] \in HandleRec /\ arrived \in 0..MaxInput
      /\ MaxInput \in Nat
  BY <1>0, ReactorParameters DEF Types
<1>5. hnd[h].input \in Nat /\ hnd[h].input <= arrived
  BY <1>0, <1>4 DEF HandleRec, Inputs
<1>6. ASSUME NEW e \in HandleRec, hnd' = [hnd EXCEPT ![h] = e],
             e.refs = hnd[h].refs, e.user = hnd[h].user, e.input <= hnd[h].input
      PROVE  RInv'
  <2>1. e.input <= arrived' /\ arrived' \in 0..MaxInput /\ arrived <= arrived'
    BY <1>1, <1>4, <1>5, <1>6 DEF HandleRec
  <2> QED
    BY <1>1, <1>6, <2>1, HandleMoves
<1>7. CASE React!WorkStarts
  <2>1. PICK e \in HandleRec : e = [hnd[h] EXCEPT !.holder = "reactor"]
    BY <1>4 DEF HandleRec
  <2>2. e.refs = hnd[h].refs /\ e.user = hnd[h].user /\ e.input <= hnd[h].input
    BY <1>4, <1>5, <2>1 DEF HandleRec
  <2>3. hnd' = [hnd EXCEPT ![h] = e]
    BY <1>3, <1>4, <1>7, <2>1 DEF React!WorkStarts
  <2> QED
    BY <1>6, <2>2, <2>3
<1>8. CASE React!WorkGoesOn
  <2>1. hnd[h].input > 0 /\ hnd' = [hnd EXCEPT ![h].input = hnd[h].input - 1]
    BY <1>3, <1>4, <1>8 DEF React!WorkGoesOn
  <2>2. PICK n \in Nat : n = hnd[h].input - 1
    BY <1>5, <2>1
  <2>3. PICK e \in HandleRec : e = [hnd[h] EXCEPT !.input = n]
    BY <1>4 DEF HandleRec
  <2>4. e.refs = hnd[h].refs /\ e.user = hnd[h].user /\ e.input <= hnd[h].input
    BY <1>4, <1>5, <2>2, <2>3 DEF HandleRec
  <2>5. hnd' = [hnd EXCEPT ![h] = e]
    BY <1>4, <2>1, <2>2, <2>3
  <2> QED
    BY <1>6, <2>4, <2>5
<1>9. CASE React!WorkEnds
  <2>1. PICK n \in Nat : n = IF hnd[h].input = 0 THEN 0 ELSE hnd[h].input - 1
    BY <1>5
  <2>2. hnd' = [hnd EXCEPT ![h].holder = "nobody", ![h].input = n]
    BY <1>3, <1>4, <1>9, <2>1 DEF React!WorkEnds
  <2>3. PICK e \in HandleRec : e = [hnd[h] EXCEPT !.holder = "nobody", !.input = n]
    BY <1>4 DEF HandleRec
  <2>4. e.refs = hnd[h].refs /\ e.user = hnd[h].user /\ e.input <= hnd[h].input
    BY <1>4, <1>5, <2>1, <2>3 DEF HandleRec
  <2>5. hnd' = [hnd EXCEPT ![h] = e]
    BY <1>4, <2>2, <2>3
  <2> QED
    BY <1>6, <2>4, <2>5
<1>10. CASE React!Panic /\ reactorPc = "running"
  <2>1. hnd' = [hnd EXCEPT ![h].holder = "nobody", ![h].poisoned = TRUE]
    BY <1>3, <1>10 DEF React!Panic
  <2>2. PICK e \in HandleRec : e = [hnd[h] EXCEPT !.holder = "nobody", !.poisoned = TRUE]
    BY <1>4 DEF HandleRec
  <2>3. e.refs = hnd[h].refs /\ e.user = hnd[h].user /\ e.input <= hnd[h].input
    BY <1>4, <1>5, <2>2 DEF HandleRec
  <2>4. hnd' = [hnd EXCEPT ![h] = e]
    BY <1>4, <2>1, <2>2
  <2> QED
    BY <1>6, <2>3, <2>4
<1>11. CASE React!Panic /\ reactorPc # "running"
  <2>1. hnd' = hnd
    BY <1>11 DEF React!Panic
  <2>2. hnd' = [hnd EXCEPT ![h] = hnd[h]] /\ hnd[h].input <= hnd[h].input
    BY <1>4, <1>5, <2>1
  <2> QED
    BY <1>4, <1>6, <2>2
<1> QED
  BY <1>7, <1>8, <1>9, <1>10, <1>11

-----------------------------------------------------------------------------
(* The thread takes the whole queue for a shutdown, or goes on. *)
LEMMA TopKeeps ==
  ASSUME RInv, React!Top
  PROVE  RInv'
<1>0. Types /\ Placed /\ Passed /\ Owned /\ Inputs /\ Waits
      /\ React!ReactorAssumption
  BY DEF RInv
<1>1. /\ reactorPc = "top" /\ cur' = cur /\ UNCHANGED <<flag, reactorCall, on, fut, hnd, arrived>>
  BY DEF React!Top, React!Loop, React!calls
<1>2. /\ cur = Nil /\ drained = {} /\ reactorQueue \in Seq(Ops) /\ Nil \notin Ops
  BY <1>0, <1>1, ReactorParameters DEF Types, Placed, Busy
<1>3. CASE flag
  <2>1. drained' = Elems(reactorQueue) /\ reactorQueue' = <<>> /\ reactorPc' = "drain"
    BY <1>3 DEF React!Top, React!Loop, Elems
  <2>2. Elems(reactorQueue') = {} /\ Distinct(reactorQueue') /\ reactorQueue' \in Seq(Ops)
    BY <2>1 DEF Elems, Distinct
  <2>3. Elems(reactorQueue) \subseteq Ops
    BY <1>2 DEF Elems
  <2>4. \A p \in Ops : React!Held(p)' <=> React!Held(p)
    BY <1>1, <1>2, <2>1, <2>2, HeldIs
  <2>5. Placed'
    BY <1>1, <1>2, <2>1, <2>2, <2>3 DEF Placed, Busy
  <2>6. Waits' /\ reactorPc' \in Places
    BY <2>1 DEF Waits, React!NoJobForgotten, Places
  <2>7. drained' \subseteq Ops /\ cur' \in Ops \cup {Nil}
    BY <1>1, <1>2, <2>1, <2>3
  <2> QED
    BY <1>1, <2>2, <2>4, <2>5, <2>6, <2>7, Moves
<1>4. CASE ~flag
  <2>1. UNCHANGED <<reactorQueue, drained>> /\ reactorPc' = "take"
    BY <1>4 DEF React!Top, React!Loop
  <2>2. \A p \in Ops : React!Held(p)' <=> React!Held(p)
    BY <1>1, <2>1 DEF React!Held
  <2>3. Placed'
    BY <1>0, <1>1, <2>1 DEF Placed, Busy
  <2>4. Waits' /\ reactorPc' \in Places
    BY <2>1 DEF Waits, React!NoJobForgotten, Places
  <2> QED
    BY <1>1, <1>2, <2>1, <2>2, <2>3, <2>4, Moves
<1> QED
  BY <1>3, <1>4

(* It takes the first job, or decides to wait on an empty queue. *)
LEMMA TakeKeeps ==
  ASSUME RInv, React!Take
  PROVE  RInv'
<1>0. Types /\ Placed /\ Passed /\ Owned /\ Inputs /\ Waits
      /\ React!ReactorAssumption
  BY DEF RInv
<1>1. /\ reactorPc = "take" /\ drained' = drained /\ UNCHANGED <<flag, reactorCall, on, fut, hnd,
           arrived>>
  BY DEF React!Take, React!Loop, React!calls
<1>2. /\ cur = Nil /\ drained = {} /\ reactorQueue \in Seq(Ops) /\ Nil \notin Ops
           /\ Distinct(reactorQueue)
  BY <1>0, <1>1, ReactorParameters DEF Types, Placed, Busy
<1>3. CASE reactorQueue # <<>>
  <2>1. cur' = Head(reactorQueue) /\ reactorQueue' = Tail(reactorQueue) /\ reactorPc' = "check"
    BY <1>3 DEF React!Take, React!Loop
  <2>2. PICK x : x = Head(reactorQueue)
    OBVIOUS
  <2>3. PICK r : r = Tail(reactorQueue)
    OBVIOUS
  <2>4. /\ r \in Seq(Ops) /\ x \in Ops /\ x \in Elems(reactorQueue) /\ x \notin Elems(r)
        /\ Elems(reactorQueue) = Elems(r) \cup {x} /\ Distinct(r)
    BY <1>2, <1>3, <2>2, <2>3, TailElems
  <2>5. cur' = x /\ reactorQueue' = r
    BY <2>1, <2>2, <2>3
  <2>6. \A p \in Ops : React!Held(p)' <=> React!Held(p)
    BY <1>1, <1>2, <2>4, <2>5, HeldIs
  <2>7. Placed'
    BY <1>1, <1>2, <2>1, <2>4, <2>5 DEF Placed, Busy
  <2>8. Waits' /\ reactorPc' \in Places
    BY <2>1 DEF Waits, React!NoJobForgotten, Places
  <2>9. reactorQueue' \in Seq(Ops) /\ drained' \subseteq Ops /\ cur' \in Ops \cup {Nil}
    BY <1>1, <1>2, <2>4, <2>5
  <2> QED
    BY <1>1, <2>6, <2>7, <2>8, <2>9, Moves
<1>4. CASE reactorQueue = <<>>
  <2>1. UNCHANGED <<cur, reactorQueue>> /\ reactorPc' \in {"top", "toWait"}
    BY <1>4 DEF React!Take, React!Loop
  <2>2. \A p \in Ops : React!Held(p)' <=> React!Held(p)
    BY <1>1, <2>1 DEF React!Held
  <2>3. Placed'
    BY <1>0, <1>1, <2>1 DEF Placed, Busy
  <2>4. Waits' /\ reactorPc' \in Places
    BY <1>4, <2>1 DEF Waits, React!NoJobForgotten, Places
  <2> QED
    BY <1>1, <1>2, <2>1, <2>2, <2>3, <2>4, Moves
<1> QED
  BY <1>3, <1>4

(* It sleeps on the queue it has found empty, or ends. *)
LEMMA WaitKeeps ==
  ASSUME RInv, React!Wait \/ React!ThreadEnds
  PROVE  RInv'
<1>0. Types /\ Placed /\ Passed /\ Owned /\ Inputs /\ Waits
      /\ React!ReactorAssumption
  BY DEF RInv
<1>1. /\ UNCHANGED <<flag, reactorQueue, reactorCall, on, fut, hnd, cur, drained, arrived>>
      /\ \/ reactorPc = "toWait" /\ reactorPc' = "waiting"
         \/ reactorPc = "drain" /\ drained = {} /\ reactorPc' = "exiting"
         \/ reactorPc = "exiting" /\ reactorPc' = "none"
  BY DEF React!Wait, React!ThreadEnds, React!Loop, React!calls
<1>2. \A p \in Ops : React!Held(p)' <=> React!Held(p)
  BY <1>1 DEF React!Held
<1>3. Placed'
  BY <1>0, <1>1 DEF Placed, Busy
<1>4. Waits' /\ reactorPc' \in Places
  BY <1>0, <1>1 DEF Waits, React!NoJobForgotten, Places
<1>5. reactorQueue' \in Seq(Ops) /\ drained' \subseteq Ops /\ cur' \in Ops \cup {Nil}
  BY <1>0, <1>1 DEF Types
<1> QED
  BY <1>1, <1>2, <1>3, <1>4, <1>5, Moves

(* The job it has popped is in no other place. *)
LEMMA Popped ==
  ASSUME RInv, reactorPc \in Busy
  PROVE  /\ cur \in Ops /\ React!Held(cur) /\ cur \notin Elems(reactorQueue) /\ cur \notin drained
         /\ drained = {} /\ fut[cur] \in FutRec /\ Nil \notin Ops
<1>0. Types /\ Placed /\ Passed /\ Owned /\ Inputs /\ Waits
      /\ React!ReactorAssumption
  BY DEF RInv
<1>1. cur \in Ops /\ cur # Nil /\ Nil \notin Ops /\ fut \in [Ops -> FutRec]
  BY <1>0, ReactorParameters DEF Types, Placed
<1>2. cur \notin Elems(reactorQueue) /\ cur \notin drained /\ drained = {}
  BY <1>0 DEF Placed, Busy
<1> QED
  BY <1>1, <1>2 DEF React!Held

(* It gives up a job whose future has been settled meanwhile. *)
LEMMA CheckKeeps ==
  ASSUME RInv, React!Check
  PROVE  RInv'
<1>0. Types /\ Placed /\ Passed /\ Owned /\ Inputs /\ Waits
      /\ React!ReactorAssumption
  BY DEF RInv
<1>1. /\ reactorPc \in {"check", "recheck"} /\ reactorPc \in Busy
      /\ UNCHANGED <<flag, reactorCall, on, arrived, reactorQueue, drained>>
  BY DEF React!Check, React!Loop, React!calls, Busy
<1>2. /\ cur \in Ops /\ React!Held(cur) /\ cur \notin Elems(reactorQueue) /\ cur \notin drained
      /\ drained = {} /\ fut[cur] \in FutRec /\ Nil \notin Ops
  BY <1>1, Popped
<1>3a. PICK o \in Ops : o = cur
  BY <1>2
<1>3. CASE React!IsPending(cur)
  <2>1. UNCHANGED <<fut, hnd, cur>> /\ reactorPc' \in {"probe", "work"}
    BY <1>3 DEF React!Check, React!Loop
  <2>2. \A p \in Ops : React!Held(p)' <=> React!Held(p)
    BY <1>1, <2>1 DEF React!Held
  <2>3. Placed'
    BY <1>0, <1>1, <2>1 DEF Placed, Busy
  <2>4. Waits' /\ reactorPc' \in Places
    BY <2>1 DEF Waits, React!NoJobForgotten, Places
  <2>5. reactorQueue' \in Seq(Ops) /\ drained' \subseteq Ops /\ cur' \in Ops \cup {Nil}
    BY <1>0, <1>1, <2>1 DEF Types
  <2> QED
    BY <1>1, <2>1, <2>2, <2>3, <2>4, <2>5, Moves
<1>4. CASE ~React!IsPending(cur)
  <2>1. /\ hnd' = React!Release(hnd, on[o]) /\ fut' = [fut EXCEPT ![o].refs = @ - 1]
        /\ cur' = Nil /\ reactorPc' = "top"
    BY <1>4, <1>3a DEF React!Check, React!ReleaseCancelled, React!Loop
  <2>2. PICK s \in {"Pending", "Ready", "Failed", "Cancelled"} : s = fut[o].status
    BY <1>2, <1>3a DEF FutRec
  <2>3. fut' = [fut EXCEPT ![o].status = s, ![o].refs = @ - 1]
    <3>1. [fut[o] EXCEPT !.refs = fut[o].refs - 1]
            = [fut[o] EXCEPT !.status = s, !.refs = fut[o].refs - 1]
      BY <1>2, <1>3a, <2>2 DEF FutRec
    <3> QED
      BY <2>1, <3>1
  <2>4. ~React!Held(o)' /\ \A p \in Ops \ {o} : React!Held(p)' <=> React!Held(p)
    <3>1. cur' # o /\ \A p \in Ops : cur' # p
      BY <1>2, <2>1
    <3>2. Elems(reactorQueue') = Elems(reactorQueue) /\ drained' = drained
      BY <1>1
    <3> QED
      BY <1>2, <1>3a, <3>1, <3>2, HeldIs
  <2>5. Placed'
    <3>1. Distinct(reactorQueue) /\ Elems(reactorQueue) \subseteq Ops
      BY <1>0 DEF Types, Placed, Elems
    <3> QED
      BY <1>1, <1>2, <2>1, <3>1 DEF Placed, Busy
  <2>6. Waits' /\ reactorPc' \in Places
    BY <2>1 DEF Waits, React!NoJobForgotten, Places
  <2>7. drained' \subseteq Ops /\ cur' \in Ops \cup {Nil}
    BY <1>1, <1>2, <2>1
  <2> QED
    BY <1>1, <1>2, <1>3a, <2>1, <2>3, <2>4, <2>5, <2>6, <2>7, JobEnds
<1> QED
  BY <1>3, <1>4

(* A job that is not ready goes back to the queue. *)
LEMMA ProbeKeeps ==
  ASSUME RInv, React!Probe
  PROVE  RInv'
<1>0. Types /\ Placed /\ Passed /\ Owned /\ Inputs /\ Waits
      /\ React!ReactorAssumption
  BY DEF RInv
<1>1. /\ reactorPc = "probe" /\ reactorPc \in Busy
      /\ UNCHANGED <<flag, reactorCall, on, fut, hnd, arrived, drained>>
  BY DEF React!Probe, React!Loop, React!calls, Busy
<1>2. /\ cur \in Ops /\ React!Held(cur) /\ cur \notin Elems(reactorQueue) /\ cur \notin drained
      /\ drained = {} /\ fut[cur] \in FutRec /\ Nil \notin Ops
  BY <1>1, Popped
<1>3. reactorQueue \in Seq(Ops) /\ Distinct(reactorQueue)
  BY <1>0 DEF Types, Placed
<1>4. CASE reactorQueue' = React!Requeue(cur) /\ cur' = Nil /\ reactorPc' = "top"
  <2>1. PICK r \in Seq(Ops) : r = Append(reactorQueue, cur)
    <3>1. Append(reactorQueue, cur) \in Seq(Ops)
      BY <1>2, <1>3
    <3> QED
      BY <3>1, Zenon
  <2>2. r \in Seq(Ops) /\ Elems(r) = Elems(reactorQueue) \cup {cur} /\ Distinct(r)
    BY <1>2, <1>3, <2>1, AppendElems, Zenon
  <2>3. reactorQueue' = r
    BY <1>4, <2>1 DEF React!Requeue
  <2>4. Elems(reactorQueue) \subseteq Ops
    BY <1>3 DEF Elems
  <2>5. \A p \in Ops : React!Held(p)' <=> React!Held(p)
    BY <1>1, <1>2, <1>4, <2>2, <2>3, HeldIs
  <2>6. Placed'
    BY <1>1, <1>2, <1>4, <2>2, <2>3, <2>4 DEF Placed, Busy
  <2>7. Waits' /\ reactorPc' \in Places
    BY <1>4 DEF Waits, React!NoJobForgotten, Places
  <2>8. reactorQueue' \in Seq(Ops) /\ drained' \subseteq Ops /\ cur' \in Ops \cup {Nil}
    BY <1>1, <1>2, <1>4, <2>2, <2>3
  <2> QED
    BY <1>1, <2>5, <2>6, <2>7, <2>8, Moves
<1>5. CASE UNCHANGED <<reactorQueue, cur>> /\ reactorPc' = "recheck"
  <2>2. \A p \in Ops : React!Held(p)' <=> React!Held(p)
    BY <1>1, <1>5 DEF React!Held
  <2>3. Placed'
    BY <1>0, <1>1, <1>5 DEF Placed, Busy
  <2>4. Waits' /\ reactorPc' \in Places
    BY <1>5 DEF Waits, React!NoJobForgotten, Places
  <2>5. reactorQueue' \in Seq(Ops) /\ drained' \subseteq Ops /\ cur' \in Ops \cup {Nil}
    BY <1>1, <1>2, <1>3, <1>5
  <2> QED
    BY <1>1, <2>2, <2>3, <2>4, <2>5, Moves
<1> QED
  BY <1>4, <1>5 DEF React!Probe, React!Loop

(* A job completes, and gives its references back. *)
LEMMA FinishKeeps ==
  ASSUME RInv, React!Finish
  PROVE  RInv'
<1>0. Types /\ Placed /\ Passed /\ Owned /\ Inputs /\ Waits
      /\ React!ReactorAssumption
  BY DEF RInv
<1>1. /\ reactorPc \in Busy /\ UNCHANGED <<flag, reactorCall, on, arrived, reactorQueue,
           drained>>
      /\ hnd' = React!Release(hnd, on[cur]) /\ cur' = Nil /\ reactorPc' = "top"
  BY DEF React!Finish, React!Loop, React!calls, Busy
<1>2. /\ cur \in Ops /\ React!Held(cur) /\ cur \notin Elems(reactorQueue) /\ cur \notin drained
      /\ drained = {} /\ fut[cur] \in FutRec /\ Nil \notin Ops
  BY <1>1, Popped
<1>3a. PICK o \in Ops : o = cur
  BY <1>2
<1>3. PICK s \in {"Pending", "Ready", "Failed", "Cancelled"} :
        fut' = [fut EXCEPT ![o].status = s, ![o].refs = @ - 1]
  <2>1. PICK d \in {"Ready", "Failed"} : fut' = React!Complete(o, d)
    BY <1>3a DEF React!Finish
  <2>2. PICK s \in {"Pending", "Ready", "Failed", "Cancelled"} :
          s = IF fut[o].status = "Pending" THEN d ELSE fut[o].status
    BY <1>2, <1>3a DEF FutRec
  <2>3. fut' = [fut EXCEPT ![o].status = s, ![o].refs = @ - 1]
    BY <2>1, <2>2 DEF React!Complete
  <2> QED
    BY <2>3
<1>4. ~React!Held(o)' /\ \A p \in Ops \ {o} : React!Held(p)' <=> React!Held(p)
  <2>1. cur' # o /\ \A p \in Ops : cur' # p
    BY <1>1, <1>2, <1>3a
  <2>2. Elems(reactorQueue') = Elems(reactorQueue) /\ drained' = drained
    BY <1>1
  <2> QED
    BY <1>2, <1>3a, <2>1, <2>2, HeldIs
<1>5. Placed'
  <2>1. Distinct(reactorQueue) /\ Elems(reactorQueue) \subseteq Ops
    BY <1>0 DEF Types, Placed, Elems
  <2> QED
    BY <1>1, <1>2, <2>1 DEF Placed, Busy
<1>6. Waits' /\ reactorPc' \in Places
  BY <1>1 DEF Waits, React!NoJobForgotten, Places
<1>7. drained' \subseteq Ops /\ cur' \in Ops \cup {Nil}
  BY <1>1, <1>2
<1> QED
  BY <1>1, <1>2, <1>3a, <1>3, <1>4, <1>5, <1>6, <1>7, JobEnds

(* So does a job that a shutdown has found in the queue. *)
LEMMA DrainOneKeeps ==
  ASSUME RInv, NEW o \in Ops, React!DrainOne(o)
  PROVE  RInv'
<1>0. Types /\ Placed /\ Passed /\ Owned /\ Inputs /\ Waits
      /\ React!ReactorAssumption
  BY DEF RInv
<1>1. /\ reactorPc = "drain" /\ reactorPc' = "drain" /\ o \in drained /\ drained' = drained \ {o}
      /\ UNCHANGED <<flag, reactorCall, on, arrived, reactorQueue, cur>>
           /\ hnd' = React!Release(hnd, on[o])
  BY DEF React!DrainOne, React!Loop, React!calls
<1>2. /\ cur = Nil /\ Nil \notin Ops /\ fut[o] \in FutRec /\ o \notin Elems(reactorQueue)
      /\ drained \subseteq Ops
  BY <1>0, <1>1, ReactorParameters DEF Types, Placed, Busy
<1>3. PICK s \in {"Pending", "Ready", "Failed", "Cancelled"} :
        fut' = [fut EXCEPT ![o].status = s, ![o].refs = @ - 1]
  <2>1. fut' = React!Complete(o, "Failed")
    BY DEF React!DrainOne
  <2>2. PICK s \in {"Pending", "Ready", "Failed", "Cancelled"} :
          s = IF fut[o].status = "Pending" THEN "Failed" ELSE fut[o].status
    BY <1>2 DEF FutRec
  <2>3. fut' = [fut EXCEPT ![o].status = s, ![o].refs = @ - 1]
    BY <2>1, <2>2 DEF React!Complete
  <2> QED
    BY <2>3
<1>4. React!Held(o) /\ ~React!Held(o)' /\ \A p \in Ops \ {o} : React!Held(p)' <=> React!Held(p)
  <2>1. Elems(reactorQueue') = Elems(reactorQueue) /\ \A p \in Ops : cur # p /\ cur' # p
    BY <1>1, <1>2
  <2> QED
    BY <1>1, <1>2, <2>1, HeldIs
<1>5. Placed'
  BY <1>0, <1>1, <1>2 DEF Placed, Busy
<1>6. Waits' /\ reactorPc' \in Places
  BY <1>1 DEF Waits, React!NoJobForgotten, Places
<1>7. drained' \subseteq Ops /\ cur' \in Ops \cup {Nil}
  BY <1>1, <1>2
<1> QED
  BY <1>1, <1>3, <1>4, <1>5, <1>6, <1>7, JobEnds

-----------------------------------------------------------------------------
(* At the start the program has one reference to every handle. *)
LEMMA ReactorInit == React!ReactorAssumption /\ React!Init => RInv
<1> SUFFICES ASSUME React!ReactorAssumption, React!Init PROVE RInv
  OBVIOUS
<1>0. Nil \notin Ops /\ MaxInput \in Nat /\ reactorQueue \in Seq(Ops) /\ Elems(reactorQueue) = {}
  BY ReactorParameters DEF React!Init, Elems
<1>1. [status |-> "Pending", refs |-> 0, user |-> FALSE] \in FutRec
  BY DEF FutRec
<1>2. [refs |-> 1, user |-> TRUE, open |-> TRUE, input |-> 0, holder |-> "nobody",
       poisoned |-> FALSE] \in HandleRec
  BY DEF HandleRec
<1>3. /\ fut \in [Ops -> FutRec] /\ hnd \in [Handles -> HandleRec]
      /\ \A o \in Ops : ~fut[o].user /\ fut[o].refs = 0
      /\ \A h \in Handles : hnd[h].user /\ hnd[h].refs = 1 /\ hnd[h].input = 0
  BY <1>1, <1>2 DEF React!Init
<1>4. Types
  <2>1. arrived \in 0..MaxInput
    BY <1>0 DEF React!Init
  <2>3. flag \in BOOLEAN
    BY Zenon DEF React!Init
  <2>2. /\ reactorCall \in [Ops -> {"new", "push", "notify", "returned"}]
        /\ on \in [Ops -> Handles \cup {Nil}] /\ drained \subseteq Ops
        /\ cur \in Ops \cup {Nil} /\ reactorPc \in Places
    BY DEF React!Init, Places
  <2> QED
    BY <1>0, <1>3, <2>1, <2>2, <2>3 DEF Types
<1>5. Placed
  BY <1>0 DEF React!Init, Placed, Distinct, Busy
<1>6. \A o \in Ops : ~React!Held(o) /\ reactorCall[o] = "new"
  BY <1>0, HeldIs DEF React!Init
<1>7. Passed
  BY <1>3, <1>6 DEF Passed
<1>8. ASSUME NEW o \in Ops PROVE FutOwned(o)
  BY <1>3, <1>6 DEF FutOwned, React!Owed, React!Count
<1>9. ASSUME NEW h \in Handles PROVE HandleOwned(h)
  <2>1. Holders(h) = {} /\ Cardinality(Holders(h)) = 0
    BY <1>6, FS_EmptySet DEF Holders
  <2> QED
    BY <1>3, <2>1 DEF HandleOwned, React!Count
<1>10. Inputs /\ Waits
  BY <1>3 DEF React!Init, Inputs, Waits, React!NoJobForgotten
<1> QED
  BY <1>4, <1>5, <1>7, <1>8, <1>9, <1>10 DEF RInv, Owned

(* Every step of the program, the network and the reactor keeps it. *)
LEMMA ReactorNext == RInv /\ [React!Next]_(React!vars) => RInv'
<1> SUFFICES ASSUME RInv, [React!Next]_(React!vars) PROVE RInv'
  OBVIOUS
<1>1. CASE UNCHANGED React!vars
  <2>1. UNCHANGED <<flag, reactorQueue, reactorCall, on, fut, hnd, reactorPc, cur, drained,
          arrived>>
    BY <1>1 DEF React!vars
  <2>2. \A p \in Ops : React!Held(p)' <=> React!Held(p)
    BY <2>1 DEF React!Held
  <2>3. Placed' /\ Waits' /\ reactorPc' \in Places
    BY <2>1 DEF RInv, Types, Placed, Waits, React!NoJobForgotten
  <2>4. reactorQueue' \in Seq(Ops) /\ drained' \subseteq Ops /\ cur' \in Ops \cup {Nil}
    BY <2>1 DEF RInv, Types
  <2> QED
    BY <2>1, <2>2, <2>3, <2>4, Moves
<1>2. CASE React!ReactorStep
  BY <1>2, TopKeeps, TakeKeeps, WaitKeeps, CheckKeeps, ProbeKeeps, WorkKeeps, FinishKeeps,
     DrainOneKeeps DEF React!ReactorStep
<1>3. CASE React!Panic \/ React!Shutdown \/ React!Restart
  BY <1>3, WorkKeeps, HostKeeps
<1>4. CASE \E o \in Ops : React!Push(o) \/ React!Notify(o) \/ React!Cancel(o) \/ React!DropFuture(o)
                          \/ \E h \in Handles : React!Spawn(o, h)
  BY <1>4, PushKeeps, NotifyKeeps, CancelKeeps, DropFutureKeeps, ReactorSpawnKeeps
<1>5. CASE \E h \in Handles : React!Close(h) \/ React!DropHandle(h) \/ React!Arrive(h)
        \/ React!SyncStarts(h) \/ React!SyncEnds(h)
  BY <1>5, CloseKeeps, ArriveKeeps, SyncKeeps
<1> QED
  BY <1>1, <1>2, <1>3, <1>4, <1>5 DEF React!Next

(* RInv holds in every reachable state. *)
LEMMA ReactorAlways == React!ReactorAssumption /\ React!Spec => []RInv
  BY ReactorInit, ReactorNext, PTL DEF React!Spec

(* The bounds that the counts give. *)
THEOREM ReactorTypeCorrect == React!ReactorAssumption /\ React!Spec => []React!TypeOK
<1>1. RInv => React!TypeOK
  <2> SUFFICES ASSUME RInv PROVE React!TypeOK
    OBVIOUS
  <2>1. Types /\ Owned /\ Inputs /\ React!ReactorAssumption
    BY DEF RInv
  <2>2. ASSUME NEW o \in Ops
        PROVE  fut[o] \in [status : {"Pending", "Ready", "Failed", "Cancelled"},
                           refs : 0..2, user : BOOLEAN]
    <3>1. fut[o] \in FutRec
      BY <2>1 DEF Types
    <3>2. fut[o].refs \in 0..2
      BY <2>1 DEF Owned, FutOwned, React!Count
    <3> QED
      BY <3>1, <3>2 DEF FutRec
  <2>3. ASSUME NEW h \in Handles
        PROVE  hnd[h] \in [refs : 0..(1 + Cardinality(Ops)), user : BOOLEAN, open : BOOLEAN,
                           input : 0..MaxInput, holder : {"nobody", "caller", "reactor"},
                           poisoned : BOOLEAN]
    <3>1. hnd[h] \in HandleRec /\ arrived \in 0..MaxInput
      BY <2>1 DEF Types
    <3>2. /\ Cardinality(Holders(h)) \in Nat /\ Cardinality(Holders(h)) <= Cardinality(Ops)
          /\ Cardinality(Ops) \in Nat /\ MaxInput \in Nat
      BY <2>1, HoldersFinite, ReactorParameters, FS_CardinalityType
    <3>3. hnd[h].refs \in 0..(1 + Cardinality(Ops))
      BY <2>1, <3>2 DEF Owned, HandleOwned, React!Count
    <3>4. hnd[h].input \in 0..MaxInput
      <4>1. hnd[h].input \in Nat /\ hnd[h].input <= arrived
        BY <2>1, <3>1 DEF HandleRec, Inputs
      <4> QED
        BY <3>1, <3>2, <4>1
    <3> QED
      BY <3>1, <3>3, <3>4 DEF HandleRec
  <2>4. /\ fut \in [Ops -> [status : {"Pending", "Ready", "Failed", "Cancelled"},
                            refs : 0..2, user : BOOLEAN]]
        /\ hnd \in [Handles -> [refs : 0..(1 + Cardinality(Ops)), user : BOOLEAN, open : BOOLEAN,
                                input : 0..MaxInput, holder : {"nobody", "caller", "reactor"},
                                poisoned : BOOLEAN]]
    BY <2>1, <2>2, <2>3 DEF Types
  <2> QED
    BY <2>1, <2>4, ReactorCardinality DEF Types, React!TypeOK, Places
<1> QED
  BY <1>1, ReactorAlways, PTL

(* Each operation's job owns one reference to its future and one to its    *)
(* handle and gives both back exactly once, whichever way it ends:         *)
(* completed, panicked, cancelled before or after the poll, or drained by  *)
(* a shutdown, for any number of operations and handles.                   *)
THEOREM JobsOwnBoth == React!ReactorAssumption /\ React!Spec => []React!JobOwnsBoth
<1>1. RInv => React!JobOwnsBoth
  BY ReactorCardinality DEF RInv, Owned, FutOwned, HandleOwned, Holders, React!JobOwnsBoth
<1> QED
  BY <1>1, ReactorAlways, PTL

(* The thread never sleeps on a non-empty queue unless the caller who has  *)
(* pushed is still to notify it.                                           *)
THEOREM NoJobIsForgotten == React!ReactorAssumption /\ React!Spec => []React!NoJobForgotten
<1>1. RInv => React!NoJobForgotten
  BY DEF RInv, Waits
<1> QED
  BY <1>1, ReactorAlways, PTL

-----------------------------------------------------------------------------
(* The timer thread, the fourth of these systems. *)
CONSTANTS Sleeps, Delays, MaxTime, Interval, MinLen
VARIABLES now, heap, next, due, seq, sleepCall, sleepStatus, refs, user, timerPc, batch, deadline

Tim == INSTANCE Timers WITH call <- sleepCall, status <- sleepStatus, pc <- timerPc

(* The sleeps that have been pushed. *)
Pushed == {s \in Sleeps : sleepCall[s] \in {"notify", "returned"}}

(* An entry is in one place, and only once its call has pushed it. *)
TimerPlaced ==
  /\ heap \cap batch = {} /\ heap \cup batch \subseteq Pushed
  /\ batch # {} => timerPc \in {"ready", "fail"}
  /\ \A s \in Sleeps : sleepCall[s] = "new" => ~user[s]

(* Sequence numbers are handed out in the order of the pushes. *)
Numbered ==
  /\ next <= Tim!Cardinality(Pushed)
  /\ \A s \in heap \cup batch : seq[s] < next
  /\ \A s, x \in heap \cup batch : seq[s] = seq[x] => s = x
  /\ \A s \in Sleeps : sleepStatus[s] = "Ready" => s \in Pushed /\ seq[s] < next

(* A batch taken because it is due leaves behind only what was pushed      *)
(* later, or is due later.                                                 *)
Taken ==
  timerPc = "ready" =>
    \A s \in batch : /\ due[s] <= now
                     /\ \A e \in heap : due[e] <= due[s] => seq[s] < seq[e]

(* From the check to the wait nothing can be pushed. *)
TimerWaits ==
  /\ Tim!SleepsUntilFirst
  /\ timerPc = "toWait" => \A s \in heap : deadline <= due[s]

TInv ==
  /\ Tim!TimersAssumption
  /\ Tim!TypeOK /\ Tim!EntryOwnsFuture /\ TimerPlaced /\ Numbered
  /\ Taken /\ Tim!NeverEarly /\ Tim!DeadlineOrder /\ TimerWaits
-----------------------------------------------------------------------------
(* A set of natural numbers has a least element. *)
LEMMA LeastOf ==
  ASSUME NEW T, T \subseteq Nat, T # {}
  PROVE  \E n \in T : \A m \in T : n <= m
<1> DEFINE R == {ss \in Nat \X Nat : ss[1] < ss[2]}
<1>1. IsWellFoundedOn(R, Nat)
  BY NatLessThanWellFounded DEF OpToRel
<1>2. PICK n \in T : \A m \in T : <<m, n>> \notin R
  BY <1>1, WFMin
<1>3. ASSUME NEW m \in T PROVE n <= m
  <2>1. m \in Nat /\ n \in Nat /\ <<m, n>> \notin R
    BY <1>2
  <2>2. ~ (m < n)
    BY <2>1
  <2> QED
    BY <2>1, <2>2
<1> QED
  BY <1>3

(* The number of elements is the same operator in both modules. *)
LEMMA TimerCardinality ==
  ASSUME NEW S
  PROVE  Tim!Cardinality(S) = Cardinality(S)
<1>1. ASSUME NEW T PROVE Tim!IsFiniteSet(T) <=> IsFiniteSet(T)
  BY Zenon DEF Tim!IsFiniteSet, IsFiniteSet
<1> QED
  BY <1>1, Zenon DEF Tim!Cardinality, Cardinality

(* What TimersAssumption says of the parameters. *)
LEMMA TimerParameters ==
  ASSUME Tim!TimersAssumption
  PROVE  /\ IsFiniteSet(Sleeps) /\ MaxTime \in Nat /\ Interval \in Nat \ {0}
         /\ Delays \subseteq Nat
<1>1. /\ Tim!IsFiniteSet(Sleeps) /\ MaxTime \in Nat /\ Interval \in Nat \ {0}
      /\ Delays \subseteq Nat
  BY DEF Tim!TimersAssumption
<1>2. IsFiniteSet(Sleeps)
  BY <1>1, Zenon DEF Tim!IsFiniteSet, IsFiniteSet
<1> QED
  BY <1>1, <1>2

(* The constants, as the steps need them. *)
LEMMA Sizes ==
  ASSUME Tim!TimersAssumption
  PROVE  /\ Tim!Cardinality(Sleeps) \in Nat /\ MaxTime \in Nat /\ Interval \in Nat \ {0}
         /\ Delays \subseteq Nat /\ Tim!Never \in Nat /\ MaxTime < Tim!Never
<1>1. Cardinality(Sleeps) \in Nat
  BY TimerParameters, FS_CardinalityType
<1> QED
  BY <1>1, TimerParameters, TimerCardinality DEF Tim!Never

(* The entry at the top of the heap comes before all others. *)
LEMMA FirstIsFirst ==
  ASSUME Tim!TimersAssumption, Tim!TypeOK, NEW S, S # {}, S \subseteq Sleeps,
         \A s, x \in S : seq[s] = seq[x] => s = x
  PROVE  Tim!First(S) \in S /\ \A x \in S : x = Tim!First(S) \/ Tim!Earlier(Tim!First(S), x)
<1>0. \A s \in S : due[s] \in Nat /\ seq[s] \in Nat
  BY Sizes DEF Tim!TypeOK
<1>1. PICK s \in S : \A x \in S : due[s] <= due[x]
  <2>1. {due[s] : s \in S} # {} /\ {due[s] : s \in S} \subseteq Nat
    BY <1>0
  <2>2. PICK n \in {due[s] : s \in S} : \A m \in {due[s] : s \in S} : n <= m
    BY <2>1, LeastOf, Zenon
  <2> QED
    BY <2>2
<1>2. PICK e \in S : due[e] = due[s] /\ \A x \in S : due[x] = due[s] => seq[e] <= seq[x]
  <2> DEFINE E == {y \in S : due[y] = due[s]}
  <2>1. {seq[x] : x \in E} # {} /\ {seq[x] : x \in E} \subseteq Nat
    BY <1>0
  <2>2. PICK n \in {seq[x] : x \in E} : \A m \in {seq[x] : x \in E} : n <= m
    BY <2>1, LeastOf, Zenon
  <2> QED
    BY <2>2
<1>3. \A x \in S \ {e} : Tim!Earlier(e, x)
  BY <1>0, <1>1, <1>2 DEF Tim!Earlier
<1> QED
  BY <1>3 DEF Tim!First

(* How many have been pushed bounds the numbers handed out. *)
LEMMA PushedCounts ==
  ASSUME Tim!TimersAssumption, NEW P, Pushed \subseteq P, P \subseteq Sleeps
  PROVE  /\ Tim!Cardinality(Pushed) \in Nat /\ Tim!Cardinality(P) \in Nat
         /\ Tim!Cardinality(Pushed) <= Tim!Cardinality(P)
         /\ Tim!Cardinality(P) <= Tim!Cardinality(Sleeps)
         /\ \A s \in P \ Pushed : Tim!Cardinality(Pushed) + 1 <= Tim!Cardinality(P)
<1>1. IsFiniteSet(P) /\ IsFiniteSet(Pushed) /\ Cardinality(P) <= Cardinality(Sleeps)
        /\ Cardinality(Pushed) <= Cardinality(P)
  BY TimerParameters, FS_Subset
<1>2. Cardinality(P) \in Nat /\ Cardinality(Pushed) \in Nat
  BY <1>1, FS_CardinalityType
<1>3. ASSUME NEW s \in P \ Pushed PROVE Cardinality(Pushed) + 1 <= Cardinality(P)
  <2>1. Cardinality(Pushed \cup {s}) = Cardinality(Pushed) + 1
    BY <1>1, FS_AddElement
  <2>2. Cardinality(Pushed \cup {s}) <= Cardinality(P)
    BY <1>1, FS_Subset
  <2> QED
    BY <2>1, <2>2
<1> QED
  BY <1>1, <1>2, <1>3, TimerCardinality

(* The clock moves on; nothing that was due is no longer due. *)
LEMMA TickKeeps ==
  ASSUME TInv, Tim!Tick
  PROVE  TInv'
  BY Sizes DEF Tim!Tick, TInv, Tim!TypeOK, Tim!EntryOwnsFuture, TimerPlaced, Numbered, Taken,
     Tim!NeverEarly, Tim!DeadlineOrder, TimerWaits, Tim!SleepsUntilFirst, Pushed, Tim!entries,
     Tim!futures, Tim!thread

(* The notification of a push that is already in the heap. *)
LEMMA SleepNotifiesKeeps ==
  ASSUME TInv, NEW s \in Sleeps, Tim!SleepNotifies(s)
  PROVE  TInv'
<1>1. /\ Tim!TypeOK' /\ Tim!EntryOwnsFuture' /\ TimerPlaced'
  BY Sizes DEF Tim!SleepNotifies, Tim!Notified, TInv, Tim!TypeOK, Tim!EntryOwnsFuture,
     TimerPlaced, Pushed, Tim!entries, Tim!futures
<1>2. Pushed' = Pushed /\ UNCHANGED <<now, heap, next, due, seq, sleepStatus, batch, deadline>>
  BY DEF Tim!SleepNotifies, TInv, Tim!TypeOK, Pushed, Tim!entries, Tim!futures
<1>3. Numbered'
  BY <1>2 DEF TInv, Numbered
<1>4. Taken' /\ Tim!NeverEarly' /\ Tim!DeadlineOrder' /\ TimerWaits'
  BY Sizes DEF Tim!SleepNotifies, Tim!Notified, TInv, Tim!TypeOK, TimerPlaced, Taken,
     Tim!NeverEarly, Tim!DeadlineOrder, TimerWaits, Tim!SleepsUntilFirst, Tim!entries,
     Tim!futures
<1> QED
  BY <1>1, <1>3, <1>4 DEF TInv

(* A cancelled future keeps its entry until the timer thread comes to it. *)
LEMMA TimerCancelKeeps ==
  ASSUME TInv, NEW s \in Sleeps, Tim!Cancel(s)
  PROVE  TInv'
  BY Sizes DEF Tim!Cancel, TInv, Tim!TypeOK, Tim!EntryOwnsFuture, TimerPlaced, Numbered, Taken,
     Tim!NeverEarly, Tim!DeadlineOrder, TimerWaits, Tim!SleepsUntilFirst, Pushed, Tim!entries,
     Tim!futures, Tim!thread

(* The program gives its own reference up. *)
LEMMA DropKeeps ==
  ASSUME TInv, NEW s \in Sleeps, Tim!Drop(s)
  PROVE  TInv'
  BY Sizes DEF Tim!Drop, TInv, Tim!TypeOK, Tim!EntryOwnsFuture, TimerPlaced, Numbered, Taken,
     Tim!NeverEarly, Tim!DeadlineOrder, TimerWaits, Tim!SleepsUntilFirst, Pushed, Tim!entries,
     Tim!futures, Tim!thread

(* From here on a push may come first. *)
LEMMA TimerWaitKeeps ==
  ASSUME TInv, Tim!Wait
  PROVE  TInv'
  BY Sizes DEF Tim!Wait, TInv, Tim!TypeOK, Tim!EntryOwnsFuture, TimerPlaced, Numbered, Taken,
     Tim!NeverEarly, Tim!DeadlineOrder, TimerWaits, Tim!SleepsUntilFirst, Pushed, Tim!entries,
     Tim!futures, Tim!thread

(* The wait ends at its deadline. *)
LEMMA TimeoutKeeps ==
  ASSUME TInv, Tim!Timeout
  PROVE  TInv'
  BY Sizes DEF Tim!Timeout, TInv, Tim!TypeOK, Tim!EntryOwnsFuture, TimerPlaced, Numbered, Taken,
     Tim!NeverEarly, Tim!DeadlineOrder, TimerWaits, Tim!SleepsUntilFirst, Pushed, Tim!entries,
     Tim!futures, Tim!thread

(* The batch is empty before the next one is taken. *)
LEMMA BatchDoneKeeps ==
  ASSUME TInv, Tim!BatchDone
  PROVE  TInv'
  BY Sizes DEF Tim!BatchDone, TInv, Tim!TypeOK, Tim!EntryOwnsFuture, TimerPlaced, Numbered,
     Taken, Tim!NeverEarly, Tim!DeadlineOrder, TimerWaits, Tim!SleepsUntilFirst, Pushed,
     Tim!entries, Tim!futures, Tim!thread

(* The thread leaves nothing in its batch. *)
LEMMA ThreadEndsKeeps ==
  ASSUME TInv, Tim!ThreadEnds
  PROVE  TInv'
  BY Sizes DEF Tim!ThreadEnds, TInv, Tim!TypeOK, Tim!EntryOwnsFuture, TimerPlaced, Numbered,
     Taken, Tim!NeverEarly, Tim!DeadlineOrder, TimerWaits, Tim!SleepsUntilFirst, Pushed,
     Tim!entries, Tim!futures, Tim!thread

(* The flag and its notification change no entry. *)
LEMMA TimerShutdownKeeps ==
  ASSUME TInv, Tim!Shutdown
  PROVE  TInv'
  BY Sizes DEF Tim!Shutdown, Tim!Notified, TInv, Tim!TypeOK, Tim!EntryOwnsFuture, TimerPlaced,
     Numbered, Taken, Tim!NeverEarly, Tim!DeadlineOrder, TimerWaits, Tim!SleepsUntilFirst,
     Pushed, Tim!entries, Tim!futures, Tim!thread

(* A restart finds the heap as the drain or a late push left it. *)
LEMMA TimerRestartKeeps ==
  ASSUME TInv, Tim!Restart
  PROVE  TInv'
  BY Sizes DEF Tim!Restart, TInv, Tim!TypeOK, Tim!EntryOwnsFuture, TimerPlaced, Numbered, Taken,
     Tim!NeverEarly, Tim!DeadlineOrder, TimerWaits, Tim!SleepsUntilFirst, Pushed, Tim!entries,
     Tim!futures, Tim!thread

(* A new future has the caller's reference and the timer's, or only the first. *)
LEMMA SleepStartsKeeps ==
  ASSUME TInv, NEW s \in Sleeps, NEW d \in Delays, Tim!SleepStarts(s, d)
  PROVE  TInv'
<1>1. Tim!TypeOK'
  BY Sizes DEF Tim!SleepStarts, Tim!entries, Tim!futures, Tim!thread, TInv, Tim!TypeOK,
     Tim!EntryOwnsFuture, TimerPlaced
<1>2. Tim!EntryOwnsFuture'
  BY Sizes DEF Tim!SleepStarts, Tim!entries, Tim!futures, Tim!thread, TInv, Tim!TypeOK,
     Tim!EntryOwnsFuture, TimerPlaced, Pushed
<1>3. TimerPlaced'
  BY Sizes DEF Tim!SleepStarts, Tim!entries, Tim!futures, Tim!thread, TInv, Tim!TypeOK,
     Tim!EntryOwnsFuture, TimerPlaced, Pushed
<1>4. Numbered'
  <2>1. Pushed \subseteq Pushed' /\ Pushed' \subseteq Sleeps
    BY DEF Tim!SleepStarts, Pushed, TInv, Tim!TypeOK
  <2>2. next' <= Tim!Cardinality(Pushed')
    BY <2>1, PushedCounts DEF Tim!SleepStarts, TInv, Tim!TypeOK, Numbered
  <2>3. \A x \in Sleeps : sleepStatus'[x] = "Ready" => x \in Pushed' /\ seq'[x] < next'
    BY <2>1 DEF Tim!SleepStarts, TInv, Tim!TypeOK, Numbered
  <2>4. UNCHANGED <<heap, batch, seq, next>>
    BY DEF Tim!SleepStarts
  <2> QED
    BY <2>2, <2>3, <2>4 DEF Numbered, TInv
<1>5. Taken'
  BY Sizes DEF Tim!SleepStarts, Tim!entries, Tim!futures, Tim!thread, TInv, Tim!TypeOK,
     TimerPlaced, Numbered, Taken, Pushed
<1>6. Tim!NeverEarly'
  BY Sizes DEF Tim!SleepStarts, Tim!entries, Tim!futures, Tim!thread, TInv, Tim!TypeOK,
     TimerPlaced, Numbered, Taken, Tim!NeverEarly, Pushed
<1>7. Tim!DeadlineOrder'
  BY Sizes DEF Tim!SleepStarts, Tim!entries, Tim!futures, Tim!thread, TInv, Tim!TypeOK,
     TimerPlaced, Numbered, Taken, Tim!DeadlineOrder, Pushed
<1>8. TimerWaits'
  BY Sizes DEF Tim!SleepStarts, Tim!entries, Tim!futures, Tim!thread, TInv, Tim!TypeOK,
     TimerPlaced, TimerWaits, Tim!SleepsUntilFirst, Pushed
<1> QED
  BY <1>1, <1>2, <1>3, <1>4, <1>5, <1>6, <1>7, <1>8 DEF TInv

(* The push, and the compaction that releases the stale entries. *)
LEMMA SleepPushesKeeps ==
  ASSUME TInv, NEW s \in Sleeps, Tim!SleepPushes(s)
  PROVE  TInv'
<1>0. PICK stale \in SUBSET (heap \cup {s}) :
        /\ heap' = (heap \cup {s}) \ stale
        /\ refs' = [x \in Sleeps |-> IF x \in stale THEN refs[x] - 1 ELSE refs[x]]
  <2> DEFINE gone == IF next % Interval = 0 /\ Tim!Cardinality(heap \cup {s}) >= MinLen
                       THEN {x \in heap \cup {s} : sleepStatus[x] # "Pending"} ELSE {}
  <2>1. gone \in SUBSET (heap \cup {s})
    OBVIOUS
  <2> QED
    BY <2>1 DEF Tim!SleepPushes, Tim!Compacted
<1>9. /\ sleepCall[s] = "push" /\ timerPc # "toWait"
      /\ seq' = [seq EXCEPT ![s] = next] /\ next' = next + 1
      /\ sleepCall' = [sleepCall EXCEPT ![s] = "notify"]
      /\ UNCHANGED <<now, flag, due, sleepStatus, user, Tim!thread>>
  BY DEF Tim!SleepPushes
<1>10. Pushed' = Pushed \cup {s} /\ s \notin Pushed /\ Pushed' \subseteq Sleeps
  BY <1>9 DEF Pushed, TInv, Tim!TypeOK
<1>11. next' <= Tim!Cardinality(Pushed') /\ Tim!Cardinality(Pushed') <= Tim!Cardinality(Sleeps)
      /\ Tim!Cardinality(Pushed') \in Nat
  BY <1>9, <1>10, PushedCounts DEF TInv, Tim!TypeOK, Numbered
<1>1. Tim!TypeOK'
  <2>1. \A x \in stale : refs[x] \in 1..2
    BY <1>0, <1>9 DEF TInv, Tim!TypeOK, Tim!EntryOwnsFuture
  <2>2. refs' \in [Sleeps -> 0..2]
    BY <1>0, <2>1 DEF TInv, Tim!TypeOK
  <2>3. next \in 0..Tim!Cardinality(Sleeps) /\ next' \in 0..Tim!Cardinality(Sleeps)
    BY <1>9, <1>11, Sizes DEF TInv, Tim!TypeOK
  <2> QED
    BY <1>0, <1>9, <2>2, <2>3 DEF TInv, Tim!TypeOK, Tim!thread
<1>2. Tim!EntryOwnsFuture'
  BY Sizes DEF Tim!SleepPushes, Tim!Compacted, Tim!entries, Tim!futures, Tim!thread, TInv,
     Tim!TypeOK, Tim!EntryOwnsFuture, TimerPlaced, Pushed
<1>3. TimerPlaced'
  BY Sizes DEF Tim!SleepPushes, Tim!Compacted, Tim!entries, Tim!futures, Tim!thread, TInv,
     Tim!TypeOK, Tim!EntryOwnsFuture, TimerPlaced, Pushed
<1>4. Numbered'
  <2>1. \A x \in heap' \cup batch' : x = s \/ x \in heap \cup batch
    BY <1>0, <1>9 DEF Tim!thread
  <2>2. \A x \in heap \cup batch : x # s
    BY <1>9 DEF TInv, TimerPlaced, Pushed
  <2>3. \A x \in Sleeps : seq'[x] = IF x = s THEN next ELSE seq[x]
    BY <1>9 DEF TInv, Tim!TypeOK
  <2>4. \A x \in Sleeps : seq[x] \in Nat /\ next \in Nat
    BY Sizes DEF TInv, Tim!TypeOK
  <2>5. heap \cup batch \subseteq Sleeps
    BY DEF TInv, Tim!TypeOK
  <2>6. \A x \in heap' \cup batch' : seq'[x] < next'
    BY <1>9, <2>1, <2>2, <2>3, <2>4, <2>5 DEF TInv, Numbered
  <2>7. \A x, y \in heap' \cup batch' : seq'[x] = seq'[y] => x = y
    BY <2>1, <2>2, <2>3, <2>4, <2>5 DEF TInv, Numbered
  <2>8. \A x \in Sleeps : sleepStatus'[x] = "Ready" => x \in Pushed' /\ seq'[x] < next'
    BY <1>9, <1>10, <2>3, <2>4 DEF TInv, Numbered
  <2> QED
    BY <1>11, <2>6, <2>7, <2>8 DEF Numbered
<1>5. Taken'
  BY Sizes DEF Tim!SleepPushes, Tim!Compacted, Tim!entries, Tim!futures, Tim!thread, TInv,
     Tim!TypeOK, TimerPlaced, Numbered, Taken, Pushed
<1>6. Tim!NeverEarly'
  BY Sizes DEF Tim!SleepPushes, Tim!Compacted, Tim!entries, Tim!futures, Tim!thread, TInv,
     Tim!TypeOK, TimerPlaced, Numbered, Taken, Tim!NeverEarly, Pushed
<1>7. Tim!DeadlineOrder'
  BY Sizes DEF Tim!SleepPushes, Tim!Compacted, Tim!entries, Tim!futures, Tim!thread, TInv,
     Tim!TypeOK, TimerPlaced, Numbered, Taken, Tim!DeadlineOrder, Pushed
<1>8. TimerWaits'
  BY Sizes DEF Tim!SleepPushes, Tim!Compacted, Tim!entries, Tim!futures, Tim!thread, TInv,
     Tim!TypeOK, TimerPlaced, TimerWaits, Tim!SleepsUntilFirst, Pushed
<1> QED
  BY <1>1, <1>2, <1>3, <1>4, <1>5, <1>6, <1>7, <1>8 DEF TInv

(* The thread takes what is due, drains, or decides to wait. *)
LEMMA TimerCheckKeeps ==
  ASSUME TInv, Tim!Check
  PROVE  TInv'
<1>0. heap # {} => /\ Tim!First(heap) \in heap
                   /\ \A x \in heap : x = Tim!First(heap) \/ Tim!Earlier(Tim!First(heap), x)
  BY FirstIsFirst DEF TInv, Tim!TypeOK, Numbered

<1>1. Tim!TypeOK'
  BY <1>0, Sizes DEF Tim!Check, Tim!IsDue, Tim!futures, TInv, Tim!TypeOK
<1>2. Tim!EntryOwnsFuture'
  BY Sizes DEF Tim!Check, Tim!IsDue, Tim!entries, Tim!futures, Tim!thread, TInv, Tim!TypeOK,
     Tim!EntryOwnsFuture, TimerPlaced, Pushed
<1>3. TimerPlaced'
  BY Sizes DEF Tim!Check, Tim!IsDue, Tim!entries, Tim!futures, Tim!thread, TInv, Tim!TypeOK,
     Tim!EntryOwnsFuture, TimerPlaced, Pushed
<1>4. Numbered'
  BY Sizes DEF Tim!Check, Tim!IsDue, Tim!entries, Tim!futures, Tim!thread, TInv, Tim!TypeOK,
     TimerPlaced, Numbered, Pushed
<1>5. Taken'
  BY Sizes DEF Tim!Check, Tim!IsDue, Tim!entries, Tim!futures, Tim!thread, TInv, Tim!TypeOK,
     TimerPlaced, Numbered, Taken, Pushed
<1>6. Tim!NeverEarly'
  BY Sizes DEF Tim!Check, Tim!IsDue, Tim!entries, Tim!futures, Tim!thread, TInv, Tim!TypeOK,
     TimerPlaced, Numbered, Taken, Tim!NeverEarly, Pushed
<1>7. Tim!DeadlineOrder'
  BY Sizes DEF Tim!Check, Tim!IsDue, Tim!entries, Tim!futures, Tim!thread, TInv, Tim!TypeOK,
     TimerPlaced, Numbered, Taken, Tim!DeadlineOrder, Pushed
<1>8. TimerWaits'
  <2>1. timerPc' = "toWait" => heap' = heap
          /\ deadline' = IF heap = {} THEN Tim!Never ELSE due[Tim!First(heap)]
    BY DEF Tim!Check
  <2>2. heap # {} => \A x \in heap : due[Tim!First(heap)] <= due[x]
    BY <1>0 DEF Tim!Earlier, TInv, Tim!TypeOK
  <2>3. timerPc' \in {"toWait", "ready", "fail"} /\ due' = due
    BY DEF Tim!Check
  <2> QED
    BY <2>1, <2>2, <2>3 DEF TimerWaits, Tim!SleepsUntilFirst
<1> QED
  BY <1>1, <1>2, <1>3, <1>4, <1>5, <1>6, <1>7, <1>8 DEF TInv

(* The first of the batch ends before the others. *)
LEMMA CompleteOneKeeps ==
  ASSUME TInv, NEW s \in Sleeps, Tim!CompleteOne(s)
  PROVE  TInv'
<1>1. Tim!TypeOK'
  BY Sizes DEF Tim!CompleteOne, Tim!entries, Tim!futures, Tim!thread, TInv, Tim!TypeOK,
     Tim!EntryOwnsFuture, TimerPlaced
<1>2. Tim!EntryOwnsFuture'
  BY Sizes DEF Tim!CompleteOne, Tim!entries, Tim!futures, Tim!thread, TInv, Tim!TypeOK,
     Tim!EntryOwnsFuture, TimerPlaced, Pushed
<1>3. TimerPlaced'
  BY Sizes DEF Tim!CompleteOne, Tim!entries, Tim!futures, Tim!thread, TInv, Tim!TypeOK,
     Tim!EntryOwnsFuture, TimerPlaced, Pushed
<1>4. Numbered'
  BY Sizes DEF Tim!CompleteOne, Tim!entries, Tim!futures, Tim!thread, TInv, Tim!TypeOK,
     TimerPlaced, Numbered, Pushed
<1>5. Taken'
  BY Sizes DEF Tim!CompleteOne, Tim!entries, Tim!futures, Tim!thread, TInv, Tim!TypeOK,
     TimerPlaced, Numbered, Taken, Pushed
<1>6. Tim!NeverEarly'
  BY Sizes DEF Tim!CompleteOne, Tim!entries, Tim!futures, Tim!thread, TInv, Tim!TypeOK,
     TimerPlaced, Numbered, Taken, Tim!NeverEarly, Pushed
<1>7. Tim!DeadlineOrder'
  <2> SUFFICES ASSUME NEW x \in Sleeps, NEW e \in Sleeps,
                      sleepStatus'[x] = "Ready", sleepCall'[e] \in {"notify", "returned"},
                      seq'[e] < seq'[x], due'[e] <= due'[x]
               PROVE  e \notin heap' \cup batch'
    BY DEF Tim!DeadlineOrder
  <2>1. UNCHANGED <<heap, seq, due, sleepCall>> /\ batch' = batch \ {s}
    BY DEF Tim!CompleteOne, Tim!entries
  <2>2. CASE sleepStatus[x] = "Ready"
    BY <2>1, <2>2 DEF TInv, Tim!DeadlineOrder
  <2>3. CASE sleepStatus[x] # "Ready"
    <3>1. x = s /\ timerPc = "ready" /\ s \in batch /\ s = Tim!First(batch)
      BY <2>3 DEF Tim!CompleteOne, TInv, Tim!TypeOK
    <3>2. \A y \in batch : y = s \/ Tim!Earlier(s, y)
      BY <3>1, FirstIsFirst DEF TInv, Tim!TypeOK, Numbered
    <3>3. due[x] \in Nat /\ due[e] \in Nat /\ seq[x] \in Nat /\ seq[e] \in Nat
      BY Sizes DEF TInv, Tim!TypeOK
    <3>4. e \notin batch
      BY <2>1, <3>1, <3>2, <3>3 DEF Tim!Earlier
    <3>5. e \notin heap
      BY <2>1, <3>1, <3>3 DEF TInv, Taken
    <3> QED
      BY <2>1, <3>4, <3>5
  <2> QED
    BY <2>2, <2>3
<1>8. TimerWaits'
  BY Sizes DEF Tim!CompleteOne, Tim!entries, Tim!futures, Tim!thread, TInv, Tim!TypeOK,
     TimerPlaced, TimerWaits, Tim!SleepsUntilFirst, Pushed
<1> QED
  BY <1>1, <1>2, <1>3, <1>4, <1>5, <1>6, <1>7, <1>8 DEF TInv

(* Nothing sleeps yet. *)
LEMMA TimersInit == Tim!TimersAssumption /\ Tim!Init => TInv
<1> SUFFICES ASSUME Tim!TimersAssumption, Tim!Init PROVE TInv
  OBVIOUS
<1>1. Pushed = {} /\ Tim!Cardinality(Pushed) = 0
  BY FS_EmptySet, TimerCardinality DEF Tim!Init, Pushed
<1>2. Tim!TypeOK
  <2>1. 0 \in 0..MaxTime /\ 0 \in 0..Tim!Cardinality(Sleeps) /\ Tim!Never \in 0..Tim!Never
    BY Sizes
  <2>2. due \in [Sleeps -> 0..MaxTime] /\ seq \in [Sleeps -> 0..Tim!Cardinality(Sleeps)]
    BY <2>1 DEF Tim!Init
  <2>3. /\ sleepCall \in [Sleeps -> {"new", "push", "notify", "returned"}]
        /\ sleepStatus \in [Sleeps -> {"Pending", "Ready", "Failed", "Cancelled"}]
        /\ refs \in [Sleeps -> 0..2] /\ user \in [Sleeps -> BOOLEAN]
    BY DEF Tim!Init
  <2> QED
    BY <2>1, <2>2, <2>3 DEF Tim!Init, Tim!TypeOK
<1>3. Tim!EntryOwnsFuture /\ TimerPlaced /\ Tim!NeverEarly /\ Tim!DeadlineOrder
  BY DEF Tim!Init, Tim!EntryOwnsFuture, TimerPlaced, Tim!NeverEarly, Tim!DeadlineOrder
<1>4. Numbered /\ Taken /\ TimerWaits
  BY <1>1 DEF Tim!Init, Numbered, Taken, TimerWaits, Tim!SleepsUntilFirst
<1> QED
  BY <1>2, <1>3, <1>4 DEF TInv

(* Every step of a caller, of the thread and of the host keeps the invariant. *)
LEMMA TimersNext == TInv /\ [Tim!Next]_(Tim!vars) => TInv'
<1> SUFFICES ASSUME TInv, [Tim!Next]_(Tim!vars) PROVE TInv'
  OBVIOUS
<1>1. CASE UNCHANGED Tim!vars
  BY <1>1 DEF Tim!vars, TInv, Tim!TypeOK, Tim!EntryOwnsFuture, TimerPlaced, Pushed, Numbered,
     Taken, Tim!NeverEarly, Tim!DeadlineOrder, TimerWaits, Tim!SleepsUntilFirst
<1>2. CASE Tim!Next
  BY <1>2, TickKeeps, TimerCheckKeeps, TimerWaitKeeps, TimeoutKeeps, CompleteOneKeeps,
     BatchDoneKeeps, ThreadEndsKeeps, TimerShutdownKeeps, TimerRestartKeeps, SleepStartsKeeps,
     SleepPushesKeeps, SleepNotifiesKeeps, TimerCancelKeeps, DropKeeps DEF Tim!Next, Tim!Loop
<1> QED
  BY <1>1, <1>2

(* The invariant holds in every reachable state. *)
LEMMA TimersAlways == Tim!TimersAssumption /\ Tim!Spec => []TInv
  BY TimersInit, TimersNext, PTL DEF Tim!Spec

-----------------------------------------------------------------------------
(* ori_task_sleep, the timer thread and the shutdown's drain keep the      *)
(* types; in particular no future ever has more than the program's         *)
(* reference and the timer's, and none is released below zero.             *)
THEOREM TimersTypeCorrect == Tim!TimersAssumption /\ Tim!Spec => []Tim!TypeOK
<1>1. TInv => Tim!TypeOK
  BY DEF TInv
<1> QED
  BY <1>1, TimersAlways, PTL

(* Compaction, the timer thread and the drain release each entry exactly   *)
(* once, whatever interval and minimum length the compaction is given.     *)
THEOREM EntriesOwnTheirFutures == Tim!TimersAssumption /\ Tim!Spec => []Tim!EntryOwnsFuture
<1>1. TInv => Tim!EntryOwnsFuture
  BY DEF TInv
<1> QED
  BY <1>1, TimersAlways, PTL

(* complete_future_owned marks no sleep ready before its deadline. *)
THEOREM SleepsAreNeverEarly == Tim!TimersAssumption /\ Tim!Spec => []Tim!NeverEarly
<1>1. TInv => Tim!NeverEarly
  BY DEF TInv
<1> QED
  BY <1>1, TimersAlways, PTL

(* TimerEntry::cmp and the batches of timer_loop let sleeps end in the     *)
(* order of their deadlines, and of the calls where these are equal, also  *)
(* when sleeps are pushed while a batch is being completed.                *)
THEOREM SleepsEndInOrder == Tim!TimersAssumption /\ Tim!Spec => []Tim!DeadlineOrder
<1>1. TInv => Tim!DeadlineOrder
  BY DEF TInv
<1> QED
  BY <1>1, TimersAlways, PTL

(* timer_loop's wait_timeout never outlasts the first deadline of the      *)
(* heap unless the push that brought it is about to notify.                *)
THEOREM WaitsForTheFirst == Tim!TimersAssumption /\ Tim!Spec => []Tim!SleepsUntilFirst
<1>1. TInv => Tim!SleepsUntilFirst
  BY DEF TInv, TimerWaits
<1> QED
  BY <1>1, TimersAlways, PTL

=============================================================================

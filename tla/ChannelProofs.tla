---------------------------- MODULE ChannelProofs ----------------------------
(***************************************************************************)
(* Proofs about Channel for any finite set of threads, any handles and any *)
(* capacity.  Inv is the inductive invariant: the reference-count equation *)
(* is what keeps the counts of TypeOK natural numbers when the channel is  *)
(* dropped, and nobody sleeping on a closed channel is what the wakeup     *)
(* argument needs when a receive fails.  That the channel implements       *)
(* FifoChannel is a step simulation under TypeOK, at the end.              *)
(***************************************************************************)
EXTENDS ChannelRefinement, FiniteSetTheorems, TLAPS

Inv == TypeOK /\ RefCountExact /\ ClosedNobodySleeps /\ WakeCredit

(* The sets the counts are taken over are finite. *)
LEMMA FiniteParts ==
  ASSUME TypeOK
  PROVE  /\ \A v \in Handles : IsFiniteSet(Pending(v)) /\ Cardinality(Pending(v)) \in Nat
         /\ IsFiniteSet(AwakeReceivers) /\ Cardinality(AwakeReceivers) \in Nat
<1>1. \A S \in SUBSET Threads : IsFiniteSet(S) /\ Cardinality(S) \in Nat
  BY ChannelAssumption, FS_Subset, FS_CardinalityType DEF ChannelAssumption
<1> QED
  BY <1>1 DEF Pending, AwakeReceivers

(* A fresh, empty channel satisfies the invariant. *)
LEMMA InitInv == Init => Inv
<1> SUFFICES ASSUME Init PROVE Inv
  OBVIOUS
<1>1. TypeOK
  <2>1. queue \in Seq(Item)
    BY DEF Init
  <2>4. bounded \in BOOLEAN /\ closed \in BOOLEAN /\ dropped \in BOOLEAN
    BY DEF Init
  <2>2. /\ pc \in [Threads -> PCs]
        /\ item \in [Threads -> Item \cup {NoItem}]
        /\ \A t \in Threads : pc[t] \notin {"idle", "recv"} => item[t] \in Item
        /\ asleep \subseteq {t \in Threads : pc[t] \in {"send", "recv"}}
    BY DEF Init, PCs
  <2>3. /\ rc \in [Handles -> Nat] /\ chanEdges \in [Handles -> Nat]
        /\ resEdges \in [Handles -> Nat] /\ userRefs \in [Handles -> Nat]
        /\ calls \in 0..MaxCalls
    BY ChannelAssumption DEF Init, ChannelAssumption
  <2> QED
    BY <2>1, <2>2, <2>3, <2>4 DEF TypeOK
<1>2. RefCountExact
  <2>1. \A v \in Handles : Cardinality(Pending(v)) = 0
    <3>1. \A v \in Handles : Pending(v) = {}
      BY DEF Init, Pending
    <3> QED
      BY <3>1, FS_EmptySet
  <2> QED
    BY <2>1 DEF Init, RefCountExact
<1>3. ClosedNobodySleeps /\ WakeCredit
  BY DEF Init, ClosedNobodySleeps, WakeCredit
<1> QED
  BY <1>1, <1>2, <1>3 DEF Inv

-----------------------------------------------------------------------------
(* One thread moving between two places other than "unlinked" leaves every *)
(* pending release where it was.                                           *)
LEMMA PendingUnchanged ==
  ASSUME TypeOK, NEW t \in Threads, pc[t] # "unlinked", pc'[t] # "unlinked",
         \A u \in Threads \ {t} : pc'[u] = pc[u] /\ item'[u] = item[u]
  PROVE  \A v \in Handles : Pending(v)' = Pending(v)
BY DEF Pending, TypeOK

(* Entering send or receive keeps the invariant: nothing shared changes but userRefs. *)
LEMMA CallStep ==
  ASSUME Inv, NEW t \in Threads, Call(t)
  PROVE  Inv'
<1> USE DEF Inv
<1>1. /\ pc[t] = "idle" /\ pc'[t] \in {"send", "recv"}
      /\ pc' = [pc EXCEPT ![t] = pc'[t]]
      /\ \A u \in Threads \ {t} : pc'[u] = pc[u] /\ item'[u] = item[u]
      /\ calls' = calls + 1 /\ calls < MaxCalls
      /\ UNCHANGED <<chan, arc, asleep>>
  BY DEF Call, CallSend, CallReceive, TypeOK, chan, arc
<1>2. item' \in [Threads -> Item \cup {NoItem}] /\ (pc'[t] = "send" => item'[t] \in Item)
  <2>1. \A v \in Handles, m \in BOOLEAN : [value |-> v, managed |-> m] \in Item
    BY DEF Item
  <2>2. CASE CallReceive(t)
    BY <2>2 DEF CallReceive, TypeOK
  <2>3. ASSUME NEW v \in Handles, NEW m \in BOOLEAN, CallSend(t, v, m)
        PROVE  item' \in [Threads -> Item \cup {NoItem}] /\ item'[t] \in Item
    <3>1. PICK i \in Item : item' = [item EXCEPT ![t] = i]
      BY <2>1, <2>3 DEF CallSend
    <3> QED
      BY <3>1 DEF TypeOK
  <2> QED
    BY <2>2, <2>3 DEF Call
<1>3. TypeOK'
  <2>1. bounded' \in BOOLEAN /\ closed' \in BOOLEAN /\ dropped' \in BOOLEAN
    BY <1>1 DEF chan, TypeOK
  <2>2. pc' \in [Threads -> PCs]
    BY <1>1 DEF TypeOK, PCs
  <2>3. \A u \in Threads : pc'[u] \notin {"idle", "recv"} => item'[u] \in Item
    BY <1>1, <1>2 DEF TypeOK
  <2>4. asleep' \subseteq {u \in Threads : pc'[u] \in {"send", "recv"}}
    BY <1>1 DEF TypeOK
  <2>5. calls' \in 0..MaxCalls
    BY <1>1, ChannelAssumption DEF ChannelAssumption, TypeOK
  <2> QED
    BY <1>1, <1>2, <2>1, <2>2, <2>3, <2>4, <2>5 DEF TypeOK, chan, arc
<1>4. RefCountExact'
  BY <1>1, PendingUnchanged DEF RefCountExact, arc
<1>5. ClosedNobodySleeps'
  BY <1>1 DEF ClosedNobodySleeps, chan
<1>6. WakeCredit'
  <2> SUFFICES ASSUME ~bounded, asleep # {}
               PROVE  /\ \A u \in asleep : pc'[u] = "recv"
                      /\ Cardinality(AwakeReceivers') >= Len(queue)
    BY <1>1 DEF WakeCredit, chan
  <2>1. \A u \in asleep : pc'[u] = "recv"
    BY <1>1 DEF WakeCredit, TypeOK
  <2>2. AwakeReceivers' \in {AwakeReceivers, AwakeReceivers \cup {t}}
    BY <1>1 DEF AwakeReceivers, TypeOK
  <2>3. /\ Cardinality(AwakeReceivers') \in Nat
        /\ Cardinality(AwakeReceivers') >= Cardinality(AwakeReceivers)
    BY <2>2, FiniteParts, FS_AddElement
  <2>4. Cardinality(AwakeReceivers) >= Len(queue) /\ Len(queue) \in Nat
    BY DEF WakeCredit, TypeOK
  <2> QED
    BY <2>1, <2>3, <2>4, FiniteParts
<1> QED
  BY <1>3, <1>4, <1>5, <1>6

(* What the eleven steps of a thread have in common: they move only that   *)
(* thread, which is awake, and wake others at most.                        *)
OnlyMoves(t) ==
  /\ t \notin asleep
  /\ pc' \in [Threads -> PCs]
  /\ item' \in [Threads -> Item \cup {NoItem}]
  /\ \A u \in Threads \ {t} : pc'[u] = pc[u] /\ item'[u] = item[u]
  /\ pc'[t] \notin {"idle", "recv"} => item'[t] \in Item
  /\ asleep' \subseteq asleep \cup {t}
  /\ t \in asleep' => pc'[t] \in {"send", "recv"}
  /\ queue' \in Seq(Item)
  /\ UNCHANGED <<bounded, closed, dropped, userRefs, calls>>

(* What every step of a thread inside send or receive leaves well typed. *)
LEMMA StepShape ==
  ASSUME TypeOK, NEW t \in Threads, Step(t)
  PROVE  OnlyMoves(t)
<1> USE DEF OnlyMoves
<1> USE DEF TypeOK, Awake, Return, PCs, chan, arc
<1>1. CASE SendWait(t)
  BY <1>1 DEF SendWait
<1>2. CASE SendClosed(t)
  BY <1>2 DEF SendClosed
<1>3. CASE SendInvalid(t)
  BY <1>3 DEF SendInvalid
<1>4. CASE SendPush(t)
  <2>1. item[t] \in Item
    BY <1>4 DEF SendPush
  <2>2. queue' \in Seq(Item)
    BY <1>4, <2>1 DEF SendPush
  <2>3. asleep' \subseteq asleep
    BY <1>4 DEF SendPush, NotifyOne
  <2> QED
    BY <1>4, <2>2, <2>3 DEF SendPush
<1>5. CASE RecvPop(t)
  <2>1. Head(queue) \in Item /\ queue' \in Seq(Item)
    BY <1>5 DEF RecvPop
  <2>2. asleep' \subseteq asleep
    BY <1>5 DEF RecvPop, NotifyOne
  <2> QED
    BY <1>5, <2>1, <2>2 DEF RecvPop
<1>6. CASE RecvClosed(t)
  BY <1>6 DEF RecvClosed
<1>7. CASE RecvWait(t)
  BY <1>7 DEF RecvWait
<1>8. CASE BorrowResult(t)
  BY <1>8 DEF BorrowResult
<1>9. CASE UnlinkSlot(t)
  BY <1>9 DEF UnlinkSlot
<1>10. CASE ReleaseSlot(t)
  BY <1>10 DEF ReleaseSlot
<1> QED
  BY <1>1, <1>2, <1>3, <1>4, <1>5, <1>6, <1>7, <1>8, <1>9, <1>10 DEF Step

CountsOK ==
  /\ rc \in [Handles -> Nat] /\ chanEdges \in [Handles -> Nat]
  /\ resEdges \in [Handles -> Nat] /\ userRefs \in [Handles -> Nat]

(* A step that moves the counts of one handle by amounts that balance.    *)
LEMMA Balance ==
  ASSUME TypeOK, RefCountExact, NEW v \in Handles,
         NEW i \in Int, NEW j \in Int, NEW k \in Int, NEW l \in Int, NEW n \in Int,
         rc' = Plus(rc, v, i), chanEdges' = Plus(chanEdges, v, j),
         resEdges' = Plus(resEdges, v, k), userRefs' = Plus(userRefs, v, l),
         Cardinality(Pending(v)') = Cardinality(Pending(v)) + n,
         \A w \in Handles \ {v} : Pending(w)' = Pending(w),
         i = j + k + l + n, rc[v] + i >= 0, chanEdges[v] + j >= 0,
         resEdges[v] + k >= 0, userRefs[v] + l >= 0
  PROVE  CountsOK' /\ RefCountExact'
<1>1. CountsOK'
  <2>1. ASSUME NEW f \in [Handles -> Nat], NEW d \in Int, f[v] + d >= 0
        PROVE  Plus(f, v, d) \in [Handles -> Nat]
    BY <2>1 DEF Plus
  <2> QED
    BY <2>1 DEF CountsOK, TypeOK
<1>2. ASSUME NEW w \in Handles
      PROVE  rc'[w] = userRefs'[w] + chanEdges'[w] + resEdges'[w] + Cardinality(Pending(w)')
  <2>1. CASE w = v
    <3>1. /\ rc'[v] = rc[v] + i /\ chanEdges'[v] = chanEdges[v] + j
          /\ resEdges'[v] = resEdges[v] + k /\ userRefs'[v] = userRefs[v] + l
          /\ rc[v] \in Nat /\ chanEdges[v] \in Nat /\ resEdges[v] \in Nat
          /\ userRefs[v] \in Nat /\ Cardinality(Pending(v)) \in Nat
      BY FiniteParts DEF Plus, TypeOK
    <3>2. rc[v] = userRefs[v] + chanEdges[v] + resEdges[v] + Cardinality(Pending(v))
      BY DEF RefCountExact
    <3> QED
      BY <2>1, <3>1, <3>2
  <2>2. CASE w # v
    BY <2>2, FiniteParts DEF Plus, TypeOK, RefCountExact
  <2> QED
    BY <2>1, <2>2
<1> QED
  BY <1>1, <1>2 DEF RefCountExact

(* Adding nothing to a count changes nothing. *)
LEMMA PlusZero == ASSUME NEW f \in [Handles -> Nat], NEW v \in Handles
                  PROVE  f = Plus(f, v, 0)
BY DEF Plus

(* Every step keeps the reference-count equation, and with it the counts   *)
(* natural: a pending release is one of the references counted.            *)
LEMMA StepRefs ==
  ASSUME TypeOK, RefCountExact, NEW t \in Threads, Step(t)
  PROVE  CountsOK' /\ RefCountExact'
<1> SUFFICES ASSUME NEW v, v = item[t].value PROVE CountsOK' /\ RefCountExact'
  OBVIOUS
<1>0. OnlyMoves(t)
  BY StepShape
<1>v. item[t] \in Item => v \in Handles
  BY DEF Item
<1>1. ASSUME UNCHANGED arc, pc[t] # "unlinked", pc'[t] # "unlinked"
      PROVE  CountsOK' /\ RefCountExact'
  BY <1>0, <1>1, PendingUnchanged DEF OnlyMoves, arc, RefCountExact, CountsOK, TypeOK
<1>2. CASE \/ SendWait(t) \/ SendClosed(t) \/ SendInvalid(t) \/ RecvPop(t)
           \/ RecvClosed(t) \/ RecvWait(t)
  <2>1. UNCHANGED arc /\ pc[t] # "unlinked" /\ pc'[t] # "unlinked"
    BY <1>2 DEF SendWait, SendClosed, SendInvalid, RecvPop, RecvClosed, RecvWait,
                Awake, Return, TypeOK
  <2> QED
    BY <1>1, <2>1
<1>3. CASE SendPush(t)
  <2>1. pc[t] # "unlinked" /\ pc'[t] # "unlinked" /\ v \in Handles
    BY <1>3, <1>v DEF SendPush, Awake, Return, TypeOK
  <2>2. CASE UNCHANGED <<rc, chanEdges>>
    BY <1>1, <1>3, <2>1, <2>2 DEF SendPush, arc
  <2>3. CASE rc' = Plus(rc, v, 1) /\ chanEdges' = Plus(chanEdges, v, 1)
    <3>1. UNCHANGED <<resEdges, userRefs>>
      BY <1>3 DEF SendPush
    <3> QED
      <4>1. resEdges' = Plus(resEdges, v, 0) /\ userRefs' = Plus(userRefs, v, 0)
        BY <2>1, <3>1, PlusZero DEF TypeOK
      <4>2. \A w \in Handles : Pending(w)' = Pending(w)
        BY <1>0, <2>1, PendingUnchanged DEF OnlyMoves
      <4>3. /\ Cardinality(Pending(v)') = Cardinality(Pending(v)) + 0
            /\ rc[v] + 1 >= 0 /\ chanEdges[v] + 1 >= 0 /\ resEdges[v] + 1 >= 0
            /\ chanEdges[v] + 0 >= 0 /\ resEdges[v] + 0 >= 0 /\ userRefs[v] + 0 >= 0
        BY <2>1, <4>2, FiniteParts DEF TypeOK
      <4> QED
        BY <2>1, <2>3, <3>1, <4>1, <4>2, <4>3, Balance, 1 = 1 + 0 + 0 + 0
  <2> QED
    BY <1>3, <2>2, <2>3 DEF SendPush
<1>4. CASE BorrowResult(t)
  <2>1. pc[t] # "unlinked" /\ pc'[t] # "unlinked" /\ v \in Handles
    BY <1>4, <1>v DEF BorrowResult, TypeOK
  <2>2. CASE UNCHANGED <<rc, resEdges>>
    BY <1>1, <1>4, <2>1, <2>2 DEF BorrowResult, arc
  <2>3. CASE rc' = Plus(rc, v, 1) /\ resEdges' = Plus(resEdges, v, 1)
    <3>1. UNCHANGED <<chanEdges, userRefs>>
      BY <1>4 DEF BorrowResult
    <3> QED
      <4>1. chanEdges' = Plus(chanEdges, v, 0) /\ userRefs' = Plus(userRefs, v, 0)
        BY <2>1, <3>1, PlusZero DEF TypeOK
      <4>2. \A w \in Handles : Pending(w)' = Pending(w)
        BY <1>0, <2>1, PendingUnchanged DEF OnlyMoves
      <4>3. /\ Cardinality(Pending(v)') = Cardinality(Pending(v)) + 0
            /\ rc[v] + 1 >= 0 /\ chanEdges[v] + 1 >= 0 /\ resEdges[v] + 1 >= 0
            /\ chanEdges[v] + 0 >= 0 /\ resEdges[v] + 0 >= 0 /\ userRefs[v] + 0 >= 0
        BY <2>1, <4>2, FiniteParts DEF TypeOK
      <4> QED
        BY <2>1, <2>3, <3>1, <4>1, <4>2, <4>3, Balance, 1 = 0 + 1 + 0 + 0
  <2> QED
    BY <1>4, <2>2, <2>3 DEF BorrowResult
<1>5. CASE UnlinkSlot(t)
  <2>1. pc[t] = "borrowed" /\ v \in Handles /\ UNCHANGED <<rc, resEdges, userRefs>>
    BY <1>5, <1>v DEF UnlinkSlot, TypeOK
  <2>2. CASE UNCHANGED chanEdges /\ pc'[t] = "idle"
    BY <1>1, <2>1, <2>2 DEF arc
  <2>3. CASE /\ chanEdges[v] > 0 /\ chanEdges' = Plus(chanEdges, v, -1)
             /\ pc'[t] = "unlinked" /\ UNCHANGED item
    <3>1. Pending(v)' = Pending(v) \cup {t} /\ t \notin Pending(v)
      BY <1>0, <2>1, <2>3 DEF OnlyMoves, Pending
    <3>2. \A w \in Handles \ {v} : Pending(w)' = Pending(w)
      BY <1>0, <2>1, <2>3 DEF OnlyMoves, Pending
    <3>3. Cardinality(Pending(v)') = Cardinality(Pending(v)) + 1
      BY <2>1, <3>1, FiniteParts, FS_AddElement
    <3> QED
      <4>1. /\ rc' = Plus(rc, v, 0) /\ resEdges' = Plus(resEdges, v, 0)
            /\ userRefs' = Plus(userRefs, v, 0)
        BY <2>1, PlusZero DEF TypeOK
      <4>2. /\ rc[v] + 0 >= 0 /\ chanEdges[v] + (-1) >= 0 /\ resEdges[v] + 0 >= 0
            /\ userRefs[v] + 0 >= 0
        BY <2>1, <2>3 DEF TypeOK
      <4> QED
        BY <2>1, <2>3, <3>2, <3>3, <4>1, <4>2, Balance, 0 = (-1) + 0 + 0 + 1
  <2> QED
    BY <1>5, <2>2, <2>3 DEF UnlinkSlot, Return, TypeOK
<1>6. CASE ReleaseSlot(t)
  <2>1. /\ pc[t] = "unlinked" /\ pc'[t] = "idle" /\ v \in Handles
        /\ rc' = Release(rc, v) /\ UNCHANGED <<chanEdges, resEdges, userRefs>>
    BY <1>6, <1>v DEF ReleaseSlot, Return, TypeOK
  <2>2. Pending(v)' = Pending(v) \ {t} /\ t \in Pending(v)
    <3>1. t \in Pending(v)
      BY <2>1 DEF Pending
    <3>2. \A u \in Threads : u \in Pending(v)' <=> u \in Pending(v) \ {t}
      BY <1>0, <2>1 DEF OnlyMoves, Pending
    <3> QED
      BY <3>1, <3>2 DEF Pending
  <2>3. \A w \in Handles \ {v} : Pending(w)' = Pending(w)
    BY <1>0, <2>1 DEF OnlyMoves, Pending
  <2>4. /\ Cardinality(Pending(v)') = Cardinality(Pending(v)) - 1
        /\ Cardinality(Pending(v)) > 0
    <3>1. IsFiniteSet(Pending(v)) /\ Cardinality(Pending(v)) \in Nat
      BY <2>1, FiniteParts
    <3>2. Cardinality(Pending(v)) # 0
      BY <2>2, <3>1, FS_EmptySet
    <3>3. Cardinality(Pending(v) \ {t}) = Cardinality(Pending(v)) - 1
      BY <2>2, <3>1, FS_RemoveElement
    <3> QED
      BY <2>2, <3>1, <3>2, <3>3
  <2>5. rc[v] > 0 /\ rc' = Plus(rc, v, -1)
    BY <2>1, <2>4, FiniteParts DEF RefCountExact, Release, TypeOK
  <2> QED
    <3>1. /\ chanEdges' = Plus(chanEdges, v, 0) /\ resEdges' = Plus(resEdges, v, 0)
          /\ userRefs' = Plus(userRefs, v, 0)
      BY <2>1, PlusZero DEF TypeOK
    <3>2. /\ rc[v] + (-1) >= 0 /\ chanEdges[v] + 0 >= 0 /\ resEdges[v] + 0 >= 0
          /\ userRefs[v] + 0 >= 0
          /\ Cardinality(Pending(v)') = Cardinality(Pending(v)) + (-1)
      BY <2>1, <2>4, <2>5, FiniteParts DEF TypeOK
    <3> QED
      BY <2>1, <2>3, <2>5, <3>1, <3>2, Balance, -1 = 0 + 0 + 0 + (-1)
<1> QED
  BY <1>2, <1>3, <1>4, <1>5, <1>6 DEF Step

(* While somebody sleeps, a woken thread is one more receiver on its way. *)
LEMMA WokenReceiver ==
  ASSUME TypeOK, WakeCredit, ~bounded, asleep # {}, NotifyOne,
         NEW t \in Threads, t \notin asleep, pc'[t] # "recv",
         \A u \in Threads \ {t} : pc'[u] = pc[u]
  PROVE  /\ \A u \in asleep' : pc'[u] = "recv"
         /\ Cardinality(AwakeReceivers') =
              Cardinality(AwakeReceivers) + (IF pc[t] = "recv" THEN 0 ELSE 1)
<1>1. PICK w \in asleep : asleep' = asleep \ {w}
  BY DEF NotifyOne
<1>2. /\ w \in Threads /\ w # t /\ pc[w] = "recv" /\ w \notin AwakeReceivers
      /\ \A u \in asleep : u \in Threads /\ u # t /\ pc[u] = "recv"
  BY DEF WakeCredit, TypeOK, AwakeReceivers
<1>3. AwakeReceivers' = (AwakeReceivers \ {t}) \cup {w}
  BY <1>1, <1>2 DEF AwakeReceivers
<1>4. t \in AwakeReceivers <=> pc[t] = "recv"
  BY DEF AwakeReceivers
<1>5. IsFiniteSet(AwakeReceivers) /\ Cardinality(AwakeReceivers) \in Nat
  BY FiniteParts
<1>6. /\ IsFiniteSet(AwakeReceivers \ {t})
      /\ Cardinality(AwakeReceivers \ {t}) =
           Cardinality(AwakeReceivers) - (IF pc[t] = "recv" THEN 1 ELSE 0)
  BY <1>4, <1>5, FS_RemoveElement
<1>7. Cardinality((AwakeReceivers \ {t}) \cup {w}) = Cardinality(AwakeReceivers \ {t}) + 1
  BY <1>2, <1>6, FS_AddElement
<1> QED
  BY <1>1, <1>2, <1>3, <1>5, <1>6, <1>7

(* A step of a thread inside send or receive loses no wakeup. *)
LEMMA StepWake ==
  ASSUME Inv, NEW t \in Threads, Step(t)
  PROVE  ClosedNobodySleeps' /\ WakeCredit'
<1> USE DEF Inv
<1>0. OnlyMoves(t)
  BY StepShape
<1>1. ClosedNobodySleeps'
  <2>1. CASE SendWait(t) \/ RecvWait(t)
    BY <1>0, <2>1 DEF OnlyMoves, SendWait, RecvWait, ClosedNobodySleeps
  <2>2. CASE asleep' \subseteq asleep
    BY <1>0, <2>2 DEF OnlyMoves, ClosedNobodySleeps
  <2>3. asleep' \subseteq asleep \/ SendWait(t) \/ RecvWait(t)
    BY DEF Step, SendClosed, SendInvalid, SendPush, RecvPop, RecvClosed,
           BorrowResult, UnlinkSlot, ReleaseSlot, NotifyOne
  <2> QED
    BY <2>1, <2>2, <2>3
<1>2. ASSUME ~bounded, asleep' # {}
      PROVE  /\ \A u \in asleep' : pc'[u] = "recv"
             /\ Cardinality(AwakeReceivers') >= Len(queue')
  <2>1. CASE SendPush(t)
    <3>1. NotifyOne /\ asleep # {} /\ pc'[t] # "recv" /\ pc[t] # "recv"
      BY <1>2, <2>1 DEF SendPush, NotifyOne, Awake, Return, TypeOK
    <3>2. Cardinality(AwakeReceivers') = Cardinality(AwakeReceivers) + 1
      BY <1>0, <1>2, <3>1, WokenReceiver DEF OnlyMoves
    <3>3. Len(queue') = Len(queue) + 1 /\ Len(queue) \in Nat
      BY <2>1 DEF SendPush, Awake, TypeOK
    <3>4. \A u \in asleep' : pc'[u] = "recv"
      BY <1>0, <1>2, <3>1, WokenReceiver DEF OnlyMoves
    <3> QED
      BY <1>2, <3>1, <3>2, <3>3, <3>4, FiniteParts DEF WakeCredit
  <2>2. CASE RecvPop(t)
    <3>1. NotifyOne /\ asleep # {} /\ pc'[t] # "recv" /\ pc[t] = "recv"
      BY <1>2, <2>2 DEF RecvPop, NotifyOne, Awake, Return, TypeOK
    <3>2. /\ Cardinality(AwakeReceivers') = Cardinality(AwakeReceivers)
          /\ Cardinality(AwakeReceivers) \in Nat
      BY <1>0, <1>2, <3>1, WokenReceiver, FiniteParts DEF OnlyMoves
    <3>3. Len(queue') <= Len(queue) /\ Len(queue) \in Nat /\ Len(queue') \in Nat
      BY <2>2 DEF RecvPop, TypeOK
    <3>4. \A u \in asleep' : pc'[u] = "recv"
      BY <1>0, <1>2, <3>1, WokenReceiver DEF OnlyMoves
    <3> QED
      BY <1>2, <3>1, <3>2, <3>3, <3>4 DEF WakeCredit
  <2>3. CASE RecvWait(t)
    <3>1. /\ asleep' = asleep \cup {t} /\ pc[t] = "recv" /\ UNCHANGED <<pc, queue>>
          /\ Len(queue) = 0
      BY <2>3 DEF RecvWait, Awake, chan
    <3>2. IsFiniteSet(AwakeReceivers \ {t}) /\ Cardinality(AwakeReceivers \ {t}) \in Nat
      BY FiniteParts, FS_RemoveElement, FS_CardinalityType
    <3>3. AwakeReceivers' = AwakeReceivers \ {t}
      BY <3>1 DEF AwakeReceivers
    <3> QED
      BY <1>2, <3>1, <3>2, <3>3 DEF WakeCredit
  <2>4. CASE SendWait(t)
    BY <1>2, <2>4 DEF SendWait, Full
  <2>5. CASE \/ SendClosed(t) \/ SendInvalid(t) \/ RecvClosed(t) \/ BorrowResult(t)
             \/ UnlinkSlot(t) \/ ReleaseSlot(t)
    <3>1. /\ UNCHANGED <<asleep, queue>>
          /\ pc'[t] # "recv" /\ (pc[t] = "recv" => closed)
      BY <2>5 DEF SendClosed, SendInvalid, RecvClosed, BorrowResult,
                  UnlinkSlot, ReleaseSlot, Awake, Return, TypeOK, chan
    <3>2. pc[t] # "recv"
      BY <1>2, <3>1 DEF ClosedNobodySleeps
    <3>3. AwakeReceivers' = AwakeReceivers
      BY <1>0, <3>1, <3>2 DEF OnlyMoves, AwakeReceivers
    <3> QED
      BY <1>0, <1>2, <3>1, <3>3 DEF OnlyMoves, WakeCredit, TypeOK
  <2> QED
    BY <2>1, <2>2, <2>3, <2>4, <2>5 DEF Step
<1> QED
  BY <1>0, <1>1, <1>2 DEF OnlyMoves, WakeCredit

(* A step of a thread inside send or receive keeps the whole invariant. *)
LEMMA StepInv ==
  ASSUME Inv, NEW t \in Threads, Step(t)
  PROVE  Inv'
<1>0. OnlyMoves(t) /\ CountsOK' /\ RefCountExact' /\ ClosedNobodySleeps' /\ WakeCredit'
  BY StepShape, StepRefs, StepWake DEF Inv
<1>1. bounded' \in BOOLEAN /\ closed' \in BOOLEAN /\ dropped' \in BOOLEAN
  BY <1>0 DEF OnlyMoves, Inv, TypeOK
<1>2. /\ \A u \in Threads : pc'[u] \notin {"idle", "recv"} => item'[u] \in Item
      /\ asleep' \subseteq {u \in Threads : pc'[u] \in {"send", "recv"}}
  BY <1>0 DEF OnlyMoves, Inv, TypeOK
<1>3. TypeOK'
  BY <1>0, <1>1, <1>2 DEF OnlyMoves, CountsOK, Inv, TypeOK
<1> QED
  BY <1>0, <1>3 DEF Inv

(* A spurious wakeup keeps the whole invariant. *)
LEMMA WakeupsInv ==
  ASSUME Inv, NEW t \in Threads, SpuriousWake(t)
  PROVE  Inv'
<1> USE DEF Inv
<1>1. t \in asleep /\ asleep' = asleep \ {t} /\ UNCHANGED <<chan, arc, pc, item, calls>>
  BY DEF SpuriousWake
<1>2. TypeOK'
  <2>1. bounded' \in BOOLEAN /\ closed' \in BOOLEAN /\ dropped' \in BOOLEAN
    BY <1>1 DEF chan, TypeOK
  <2> QED
    BY <1>1, <2>1 DEF chan, arc, TypeOK
<1>3. RefCountExact' /\ ClosedNobodySleeps'
  BY <1>1 DEF RefCountExact, Pending, ClosedNobodySleeps, arc, chan
<1>4. WakeCredit'
  <2> SUFFICES ASSUME ~bounded
               PROVE  /\ \A u \in asleep' : pc[u] = "recv"
                      /\ Cardinality(AwakeReceivers') >= Len(queue)
    BY <1>1 DEF WakeCredit, chan
  <2>1. AwakeReceivers' = AwakeReceivers \cup {t}
    BY <1>1 DEF AwakeReceivers, WakeCredit, TypeOK
  <2>2. /\ Cardinality(AwakeReceivers \cup {t}) >= Cardinality(AwakeReceivers)
        /\ Cardinality(AwakeReceivers) \in Nat
        /\ Cardinality(AwakeReceivers \cup {t}) \in Nat
    BY FiniteParts, FS_AddElement
  <2> QED
    BY <1>1, <2>1, <2>2 DEF WakeCredit, TypeOK
<1> QED
  BY <1>2, <1>3, <1>4

(* Close, destruction and the program's releases keep the whole invariant. *)
LEMMA ProgramInv ==
  ASSUME Inv, Program
  PROVE  Inv'
<1> USE DEF Inv
<1>1. CASE Close
  <2>1. bounded' \in BOOLEAN /\ closed' \in BOOLEAN /\ dropped' \in BOOLEAN
    BY <1>1 DEF Close, TypeOK
  <2>2. TypeOK'
    BY <1>1, <2>1 DEF Close, NotifyAll, arc, TypeOK
  <2> QED
    BY <1>1, <2>2 DEF Close, NotifyAll, arc, RefCountExact, Pending,
                      ClosedNobodySleeps, WakeCredit
<1>2. CASE DropChannel
  <2>1. \A v \in Handles : DtorReleases(v) = 0
    <3>1. \A v \in Handles : Queued(v) \in Nat
      <4>1. IsFiniteSet(DOMAIN queue)
        BY FS_Interval DEF TypeOK
      <4> QED
        BY <4>1, FS_Subset, FS_CardinalityType DEF Queued
    <3> QED
      BY <3>1 DEF DtorReleases, EdgesAfterTake
  <2>2. \A v \in Handles : Cardinality(Pending(v)) = 0 /\ Pending(v)' = Pending(v)
    <3>1. \A v \in Handles : Pending(v) = {} /\ Pending(v)' = {}
      BY <1>2 DEF DropChannel, Pending
    <3> QED
      BY <3>1, FS_EmptySet
  <2>3. \A v \in Handles : rc'[v] = userRefs[v] + resEdges[v]
    BY <1>2, <2>1, <2>2 DEF DropChannel, RefCountExact, TypeOK
  <2>4. CountsOK'
    BY <1>2, <2>3 DEF DropChannel, CountsOK, TypeOK
  <2>5. RefCountExact'
    BY <1>2, <2>2, <2>3 DEF DropChannel, RefCountExact, TypeOK
  <2>6. bounded' \in BOOLEAN /\ closed' \in BOOLEAN /\ dropped' \in BOOLEAN
    BY <1>2 DEF DropChannel, TypeOK
  <2>7. asleep = {} /\ queue' = <<>> /\ UNCHANGED <<bounded, asleep, closed, pc, item, userRefs,
          calls>>
    BY <1>2 DEF DropChannel, TypeOK
  <2>8. TypeOK'
    BY <2>4, <2>6, <2>7 DEF CountsOK, TypeOK
  <2> QED
    BY <2>5, <2>7, <2>8 DEF ClosedNobodySleeps, WakeCredit
<1>3. ASSUME NEW v \in Handles, DropRef(v) \/ DropResult(v)
      PROVE  Inv'
  <2>1. /\ UNCHANGED <<chan, pc, item, asleep, chanEdges, calls>>
        /\ rc' = Release(rc, v)
    BY <1>3 DEF DropRef, DropResult
  <2>2. /\ \A w \in Handles : Pending(w)' = Pending(w) /\ Cardinality(Pending(w)) \in Nat
        /\ Cardinality(Pending(v)') = Cardinality(Pending(v)) + 0
    <3>1. \A w \in Handles : Pending(w)' = Pending(w) /\ Cardinality(Pending(w)) \in Nat
      BY <2>1, FiniteParts DEF Pending
    <3> QED
      BY <3>1
  <2>3. rc[v] > 0
    BY <1>3, <2>2 DEF DropRef, DropResult, RefCountExact, TypeOK
  <2>4. rc' = Plus(rc, v, -1)
    BY <2>1, <2>3 DEF Release
  <2>5. CountsOK' /\ RefCountExact'
    <3>1. CASE DropRef(v)
      <4>1. userRefs[v] > 0 /\ userRefs' = Plus(userRefs, v, -1) /\ UNCHANGED <<chanEdges,
              resEdges>>
        BY <3>1 DEF DropRef
      <4>2. chanEdges' = Plus(chanEdges, v, 0) /\ resEdges' = Plus(resEdges, v, 0)
        BY <4>1, PlusZero DEF TypeOK
      <4>3. /\ chanEdges[v] + 0 >= 0 /\ resEdges[v] + 0 >= 0
            /\ userRefs[v] + (-1) >= 0 /\ rc[v] + (-1) >= 0
        BY <2>3, <4>1 DEF TypeOK
      <4> QED
        BY <2>2, <2>4, <4>1, <4>2, <4>3, Balance, -1 = 0 + 0 + (-1) + 0
    <3>2. CASE DropResult(v)
      <4>1. resEdges[v] > 0 /\ resEdges' = Plus(resEdges, v, -1) /\ UNCHANGED <<chanEdges,
              userRefs>>
        BY <3>2 DEF DropResult
      <4>2. chanEdges' = Plus(chanEdges, v, 0) /\ userRefs' = Plus(userRefs, v, 0)
        BY <4>1, PlusZero DEF TypeOK
      <4>3. /\ chanEdges[v] + 0 >= 0 /\ userRefs[v] + 0 >= 0
            /\ resEdges[v] + (-1) >= 0 /\ rc[v] + (-1) >= 0
        BY <2>3, <4>1 DEF TypeOK
      <4> QED
        BY <2>2, <2>4, <4>1, <4>2, <4>3, Balance, -1 = 0 + (-1) + 0 + 0
    <3> QED
      BY <1>3, <3>1, <3>2
  <2>7. bounded' \in BOOLEAN /\ closed' \in BOOLEAN /\ dropped' \in BOOLEAN
    BY <2>1 DEF chan, TypeOK
  <2>8. TypeOK'
    BY <2>1, <2>5, <2>7 DEF chan, CountsOK, TypeOK
  <2> QED
    BY <2>1, <2>5, <2>8 DEF ClosedNobodySleeps, WakeCredit, AwakeReceivers, chan
<1> QED
  BY <1>1, <1>2, <1>3 DEF Program

(* Inv is an inductive invariant of the channel. *)
LEMMA NextInv == Inv /\ [Next]_vars => Inv'
<1> SUFFICES ASSUME Inv, [Next]_vars PROVE Inv'
  OBVIOUS
<1>1. CASE UNCHANGED vars
  BY <1>1 DEF Inv, TypeOK, RefCountExact, Pending, ClosedNobodySleeps, WakeCredit,
              AwakeReceivers, vars
<1>2. CASE Next
  BY <1>2, CallStep, StepInv, WakeupsInv, ProgramInv DEF Next
<1> QED
  BY <1>1, <1>2

-----------------------------------------------------------------------------
(* Every reference to a sent value is accounted for in every reachable     *)
(* state, whatever the interleaving of senders, receivers and the program: *)
(* no sent value is freed while the queue or a receiver needs it.          *)
THEOREM RefCountsAreExact == Spec => [](TypeOK /\ RefCountExact)
<1>1. Inv => TypeOK /\ RefCountExact
  BY DEF Inv
<1> QED
  BY <1>1, InitInv, NextInv, PTL DEF Spec

(* Closing a channel leaves no sender and no receiver asleep, for good. *)
THEOREM CloseWakesEverybody == Spec => []ClosedNobodySleeps
<1>1. Inv => ClosedNobodySleeps
  BY DEF Inv
<1> QED
  BY <1>1, InitInv, NextInv, PTL DEF Spec

(* An unbounded channel never loses a wakeup: the shared condition         *)
(* variable and notify_one are sound when senders never sleep.             *)
THEOREM UnboundedLosesNoWakeup == Spec => []NoLostWakeup
<1>1. Inv => NoLostWakeup
  <2> SUFFICES ASSUME Inv, ~bounded, queue # <<>>, asleep # {}
               PROVE  AwakeReceivers # {}
    BY DEF NoLostWakeup, AwakeReceivers
  <2>1. Len(queue) > 0 /\ Len(queue) \in Nat
    BY DEF Inv, TypeOK
  <2> QED
    BY <2>1, FS_EmptySet, FiniteParts DEF Inv, WakeCredit
<1> QED
  BY <1>1, InitInv, NextInv, PTL DEF Spec

-----------------------------------------------------------------------------
(* The refinement. *)

FNext == [Fifo!Next]_(Fifo!vars)

(* What a thread's own move does to the requests. *)
LEMMA OneRequest ==
  ASSUME TypeOK, NEW t \in Threads, NEW p \in PCs, NEW i \in Item \cup {NoItem},
         pc' = [pc EXCEPT ![t] = p], item' = [item EXCEPT ![t] = i]
  PROVE  /\ Req' = [Req EXCEPT ![t] = IF p \in {"send", "recv"} THEN p ELSE "none"]
         /\ Arg' = [Arg EXCEPT ![t] = IF p = "send" THEN i ELSE NoItem]
<1>1. Req' = [Req EXCEPT ![t] = IF p \in {"send", "recv"} THEN p ELSE "none"]
  BY DEF TypeOK, Req
<1>2. Arg' = [Arg EXCEPT ![t] = IF p = "send" THEN i ELSE NoItem]
  BY DEF TypeOK, Arg
<1> QED
  BY <1>1, <1>2

(* A call that returns answers its request. *)
LEMMA ReturnAnswers ==
  ASSUME TypeOK, NEW t \in Threads, Return(t)
  PROVE  Fifo!Answer(t)
<1>1. "idle" \in PCs
  BY DEF PCs
<1> QED
  BY <1>1, OneRequest DEF Return, Fifo!Answer

(* Requests are unchanged when no thread enters or leaves send or receive. *)
LEMMA SameRequests ==
  ASSUME TypeOK, NEW t \in Threads, NEW p \in PCs \ {"send", "recv"},
         pc[t] \notin {"send", "recv"}, pc' = [pc EXCEPT ![t] = p],
         \A u \in Threads \ {t} : item'[u] = item[u]
  PROVE  Req' = Req /\ Arg' = Arg
<1>1. Req' = Req
  BY DEF TypeOK, Req
<1>2. Arg' = Arg
  BY DEF TypeOK, Arg
<1> QED
  BY <1>1, <1>2

(* Entering a call asks for something. *)
LEMMA CallRefines ==
  ASSUME TypeOK, NEW t \in Threads, Call(t)
  PROVE  FNext
<1>1. pc[t] = "idle" /\ ~dropped /\ Req[t] = "none" /\ UNCHANGED <<bounded, queue, closed, dropped>>
  BY DEF Call, CallSend, CallReceive, chan, Req
<1>2. CASE \E v \in Handles, m \in BOOLEAN : CallSend(t, v, m)
  <2>1. PICK v \in Handles, m \in BOOLEAN : CallSend(t, v, m)
    BY <1>2
  <2> DEFINE i == [value |-> v, managed |-> m]
  <2>2. i \in Item /\ "send" \in PCs
    BY DEF Item, PCs
  <2>3. Fifo!Ask(t, "send", i)
    BY <1>1, <2>1, <2>2, OneRequest DEF CallSend, Fifo!Ask
  <2> QED
    BY <2>2, <2>3 DEF FNext, Fifo!Next
<1>3. CASE CallReceive(t)
  <2>1. Req' = [Req EXCEPT ![t] = "recv"] /\ Arg' = [Arg EXCEPT ![t] = NoItem]
    BY <1>1, <1>3 DEF CallReceive, TypeOK, Req, Arg
  <2>2. Fifo!Ask(t, "recv", NoItem)
    BY <1>1, <2>1 DEF Fifo!Ask
  <2> QED
    BY <2>2 DEF FNext, Fifo!Next
<1> QED
  BY <1>2, <1>3 DEF Call

(* Every critical section of a call is one abstract step or a stutter. *)
LEMMA StepRefines ==
  ASSUME TypeOK, NEW t \in Threads, Step(t)
  PROVE  FNext
<1>0. closed \in BOOLEAN /\ bounded \in BOOLEAN /\ Len(queue) \in Nat /\ Capacity \in Nat
  BY ChannelAssumption DEF TypeOK, ChannelAssumption
<1>1. CASE SendWait(t) \/ RecvWait(t)
  <2>1. UNCHANGED Fifo!vars
    BY <1>1 DEF SendWait, RecvWait, chan, Fifo!vars, Req, Arg
  <2> QED
    BY <2>1 DEF FNext
<1>2. CASE SendClosed(t) \/ SendInvalid(t)
  <2>1. pc[t] = "send" /\ Fifo!Answer(t) /\ UNCHANGED <<bounded, queue, closed, dropped>>
    BY <1>2, ReturnAnswers DEF SendClosed, SendInvalid, Awake, chan
  <2>2. Req[t] = "send" /\ Arg[t] = item[t]
    BY <2>1 DEF Req, Arg
  <2>3. ~closed => item[t].managed
    BY <1>2 DEF SendClosed, SendInvalid
  <2>4. Fifo!Refuse(t)
    BY <2>1, <2>2, <2>3 DEF Fifo!Refuse
  <2> QED
    BY <2>4 DEF FNext, Fifo!Next
<1>3. CASE SendPush(t)
  <2>1. /\ pc[t] = "send" /\ Fifo!Answer(t) /\ UNCHANGED <<bounded, closed, dropped>>
        /\ queue' = Append(queue, item[t]) /\ ~closed /\ ~Full
    BY <1>3, ReturnAnswers DEF SendPush, Awake
  <2>2. Req[t] = "send" /\ Arg[t] = item[t]
    BY <2>1 DEF Req, Arg
  <2>3. bounded => Len(queue) < Capacity
    BY <1>0, <2>1 DEF Full
  <2>4. Fifo!Put(t)
    BY <2>1, <2>2, <2>3 DEF Fifo!Put
  <2> QED
    BY <2>4 DEF FNext, Fifo!Next
<1>4. CASE RecvPop(t)
  <2>1. /\ pc[t] = "recv" /\ UNCHANGED <<bounded, closed, dropped>>
        /\ queue # <<>> /\ queue' = Tail(queue)
    BY <1>4 DEF RecvPop, Awake
  <2>2. Req[t] = "recv"
    BY <2>1 DEF Req
  <2>3. Head(queue) \in Item /\ "popped" \in PCs
    BY <2>1 DEF TypeOK, PCs
  <2>4. Fifo!Answer(t)
    <3>1. CASE OwnsReference(Head(queue))
      BY <1>4, <2>3, <3>1, OneRequest DEF RecvPop, Fifo!Answer
    <3>2. CASE ~OwnsReference(Head(queue))
      BY <1>4, <3>2, ReturnAnswers DEF RecvPop
    <3> QED
      BY <3>1, <3>2
  <2>5. Fifo!Get(t)
    BY <2>1, <2>2, <2>4 DEF Fifo!Get
  <2> QED
    BY <2>5 DEF FNext, Fifo!Next
<1>5. CASE RecvClosed(t)
  <2>1. /\ pc[t] = "recv" /\ Fifo!Answer(t) /\ UNCHANGED <<bounded, queue, closed, dropped>>
        /\ queue = <<>> /\ closed
    BY <1>5, ReturnAnswers DEF RecvClosed, Awake, chan
  <2>2. Req[t] = "recv"
    BY <2>1 DEF Req
  <2>3. Fifo!Exhausted(t)
    BY <2>1, <2>2 DEF Fifo!Exhausted
  <2> QED
    BY <2>3 DEF FNext, Fifo!Next
<1>6. CASE BorrowResult(t) \/ UnlinkSlot(t) \/ ReleaseSlot(t)
  <2>1. UNCHANGED <<bounded, queue, closed, dropped>> /\ pc[t] \notin {"send", "recv"}
    BY <1>6 DEF BorrowResult, UnlinkSlot, ReleaseSlot, chan
  <2>2. /\ \E p \in PCs \ {"send", "recv"} : pc' = [pc EXCEPT ![t] = p]
        /\ \A u \in Threads \ {t} : item'[u] = item[u]
    BY <1>6 DEF BorrowResult, UnlinkSlot, ReleaseSlot, Return, PCs, TypeOK
  <2>3. Req' = Req /\ Arg' = Arg
    BY <2>1, <2>2, SameRequests
  <2> QED
    BY <2>1, <2>3 DEF FNext, Fifo!vars
<1> QED
  BY <1>1, <1>2, <1>3, <1>4, <1>5, <1>6 DEF Step

(* Closing and dropping are abstract steps; releasing references is not    *)
(* visible.                                                                *)
LEMMA ProgramRefines ==
  ASSUME TypeOK, Program
  PROVE  FNext
<1>1. CASE Close
  <2>1. Fifo!Shut
    BY <1>1 DEF Close, Fifo!Shut, TypeOK, Req, Arg
  <2> QED
    BY <2>1 DEF FNext, Fifo!Next
<1>2. CASE DropChannel
  <2>1. UNCHANGED <<Req, Arg, bounded, closed>>
    BY <1>2 DEF DropChannel, Req, Arg
  <2>2. \A t \in Threads : Req[t] = "none"
    BY <1>2 DEF DropChannel, Req
  <2>3. Fifo!Vanish
    BY <1>2, <2>1, <2>2 DEF DropChannel, Fifo!Vanish
  <2> QED
    BY <2>3 DEF FNext, Fifo!Next
<1>3. CASE \E v \in Handles : DropRef(v) \/ DropResult(v)
  <2>1. UNCHANGED Fifo!vars
    BY <1>3 DEF DropRef, DropResult, chan, Fifo!vars, Req, Arg
  <2> QED
    BY <2>1 DEF FNext
<1> QED
  BY <1>1, <1>2, <1>3 DEF Program

(* ori_channel_send, _receive, _close and the destructor implement the     *)
(* FIFO channel, whatever the number of threads, the values sent and the   *)
(* capacity.                                                               *)
THEOREM ChannelIsFifo == Spec => ImplementsFifo
<1>1. Init => Fifo!Init
  BY DEF Init, Fifo!Init, Req, Arg
<1>2. TypeOK /\ [Next]_vars => [Fifo!Next]_(Fifo!vars)
  <2> SUFFICES ASSUME TypeOK, [Next]_vars PROVE FNext
    BY DEF FNext
  <2>1. CASE UNCHANGED vars
    BY <2>1 DEF vars, FNext, Fifo!vars, Req, Arg
  <2>2. CASE \E t \in Threads : SpuriousWake(t)
    BY <2>2 DEF SpuriousWake, chan, FNext, Fifo!vars, Req, Arg
  <2> QED
    BY <2>1, <2>2, CallRefines, StepRefines, ProgramRefines DEF Next
<1> QED
  BY <1>1, <1>2, RefCountsAreExact, PTL DEF Spec, Fifo!Spec, ImplementsFifo
=============================================================================

---------------------------- MODULE FuturesProofs ----------------------------
(***************************************************************************)
(* Proofs about Futures for any number of futures, tokens, threads,        *)
(* waiters and handles.                                                    *)
(*                                                                         *)
(* The counts are exact because a future and its token are tied together   *)
(* once at most: an entry of a token's list belongs to a pending future    *)
(* that is linked to the token, or to one that has been settled, and the   *)
(* thread that settles a future is the only one that takes its link.       *)
(***************************************************************************)
EXTENDS Futures, FiniteSetTheorems, TLAPS

InSettle == {"dereg", "relToken", "schedule", "settled"}

(* What a thread's pointers are at each place of its call. *)
Locals(t) ==
  /\ fut[t] # Nil <=> pc[t] \in InSettle \cup {"assocCancel"}
  /\ unlink[t] # Nil <=> pc[t] \in {"dereg", "relToken", "assocCancel"}
  /\ tok[t] # Nil <=> pc[t] \in {"take", "next"} \/ (pc[t] \in InSettle /\ own[t] = "batch")
  /\ pc[t] \in {"idle", "take", "assocCancel"} \/ tok[t] = Nil => \A f \in Futs : batch[t][f] = 0
  /\ pc[t] = "assocCancel" => own[t] = "borrowed"
  /\ pc[t] \in InSettle => status[fut[t]] # "Pending"

(* Each end of a link: the list's entry, or the one a cancellation took. *)
Linked(f) ==
  /\ link[f] # Nil => status[f] = "Pending"
  /\ \A k \in Tokens : assoc[k][f] \in {0, 1} /\ (assoc[k][f] = 1 => link[f] = k
       \/ status[f] # "Pending")
  /\ \A t \in Threads : batch[t][f] \in {0, 1}
  /\ link[f] # Nil => (\E k \in Tokens : assoc[k][f] = 1) \/ (\E t \in Threads : batch[t][f] = 1)
  /\ managed[f] => status[f] # "Pending"

LinksTo(k) == Cardinality({f \in Futs : link[f] = k})

(* RefCountExact, but for its last conjunct. *)
Counted ==
  /\ \A f \in Futs : rc[f] = user[f] + HeldBy(f, fut) + InLists(f) + InBatches(f)
  /\ \A k \in Tokens :
       rc[k] = user[k] + HeldBy(k, tok) + HeldBy(k, unlink) + LinksTo(k)

FInv ==
  /\ TypeOK /\ (\A t \in Threads : Locals(t)) /\ (\A f \in Futs : Linked(f))
  /\ Counted /\ ValueOwned

-----------------------------------------------------------------------------
(* Counting. *)

B(b) == IF b THEN 1 ELSE 0

(* Two sets that agree but for one element. *)
LEMMA CountMoves ==
  ASSUME NEW S, IsFiniteSet(S), NEW P \in SUBSET S, NEW Q \in SUBSET S, NEW x \in S,
         \A y \in S \ {x} : y \in P <=> y \in Q
  PROVE  /\ Cardinality(P) \in Nat /\ Cardinality(Q) \in Nat
         /\ Cardinality(Q) = Cardinality(P) - B(x \in P) + B(x \in Q)
<1>1. IsFiniteSet(P) /\ IsFiniteSet(Q) /\ Cardinality(P) \in Nat /\ Cardinality(Q) \in Nat
  BY FS_Subset, FS_CardinalityType
<1>2. CASE x \in P <=> x \in Q
  <2>1. P = Q
    BY <1>2
  <2> QED
    BY <1>1, <2>1 DEF B
<1>3. CASE x \in P /\ x \notin Q
  <2>1. Q = P \ {x}
    BY <1>3
  <2> QED
    BY <1>1, <1>3, <2>1, FS_RemoveElement DEF B
<1>4. CASE x \notin P /\ x \in Q
  <2>1. Q = P \cup {x}
    BY <1>4
  <2> QED
    BY <1>1, <1>4, <2>1, FS_AddElement DEF B
<1> QED
  BY <1>2, <1>3, <1>4

(* One thread's pointer changes. *)
LEMMA HeldMoves ==
  ASSUME NEW o, NEW p, NEW q, NEW t \in Threads, \A u \in Threads \ {t} : p[u] = q[u]
  PROVE  /\ HeldBy(o, p) \in Nat /\ HeldBy(o, q) \in Nat
         /\ HeldBy(o, q) = HeldBy(o, p) - B(p[t] = o) + B(q[t] = o)
<1> DEFINE P == {u \in Threads : p[u] = o}
           Q == {u \in Threads : q[u] = o}
<1>1. /\ Cardinality(P) \in Nat /\ Cardinality(Q) \in Nat
      /\ Cardinality(Q) = Cardinality(P) - B(t \in P) + B(t \in Q)
  BY FuturesAssumption, CountMoves DEF FuturesAssumption
<1> QED
  BY <1>1 DEF HeldBy, B

\* HeldMoves for fut, the future a call works on.
LEMMA FutMoves ==
  ASSUME NEW t \in Threads, \A u \in Threads \ {t} : fut'[u] = fut[u], NEW o
  PROVE  /\ HeldBy(o, fut) \in Nat /\ HeldBy(o, fut') \in Nat
         /\ HeldBy(o, fut') = HeldBy(o, fut) - B(fut[t] = o) + B(fut'[t] = o)
BY HeldMoves

\* HeldMoves for unlink, the token a settled future is about to leave.
LEMMA UnlinkMoves ==
  ASSUME NEW t \in Threads, \A u \in Threads \ {t} : unlink'[u] = unlink[u], NEW o
  PROVE  /\ HeldBy(o, unlink) \in Nat /\ HeldBy(o, unlink') \in Nat
         /\ HeldBy(o, unlink') = HeldBy(o, unlink) - B(unlink[t] = o) + B(unlink'[t] = o)
BY HeldMoves

\* HeldMoves for tok, the token a call works on.
LEMMA TokMoves ==
  ASSUME NEW t \in Threads, \A u \in Threads \ {t} : tok'[u] = tok[u], NEW o
  PROVE  /\ HeldBy(o, tok) \in Nat /\ HeldBy(o, tok') \in Nat
         /\ HeldBy(o, tok') = HeldBy(o, tok) - B(tok[t] = o) + B(tok'[t] = o)
BY HeldMoves

(* One token's list changes. *)
LEMMA ListsMove ==
  ASSUME NEW k \in Tokens, \A j \in Tokens \ {k} : assoc'[j] = assoc[j], NEW f \in Futs
  PROVE  /\ InLists(f) \in Nat /\ InLists(f)' \in Nat
         /\ InLists(f)' = InLists(f) - B(assoc[k][f] > 0) + B(assoc'[k][f] > 0)
<1> DEFINE P == {j \in Tokens : assoc[j][f] > 0}
           Q == {j \in Tokens : assoc'[j][f] > 0}
<1>1. /\ Cardinality(P) \in Nat /\ Cardinality(Q) \in Nat
      /\ Cardinality(Q) = Cardinality(P) - B(k \in P) + B(k \in Q)
  BY FuturesAssumption, CountMoves DEF FuturesAssumption
<1> QED
  BY <1>1 DEF InLists, B

(* What one thread has taken from a list changes. *)
LEMMA BatchesMove ==
  ASSUME NEW t \in Threads, \A u \in Threads \ {t} : batch'[u] = batch[u], NEW f \in Futs
  PROVE  /\ InBatches(f) \in Nat /\ InBatches(f)' \in Nat
         /\ InBatches(f)' = InBatches(f) - B(batch[t][f] > 0) + B(batch'[t][f] > 0)
<1> DEFINE P == {u \in Threads : batch[u][f] > 0}
           Q == {u \in Threads : batch'[u][f] > 0}
<1>1. /\ Cardinality(P) \in Nat /\ Cardinality(Q) \in Nat
      /\ Cardinality(Q) = Cardinality(P) - B(t \in P) + B(t \in Q)
  BY FuturesAssumption, CountMoves DEF FuturesAssumption
<1> QED
  BY <1>1 DEF InBatches, B

(* One future's link changes. *)
LEMMA LinksMove ==
  ASSUME NEW f \in Futs, \A g \in Futs \ {f} : link'[g] = link[g], NEW k \in Tokens
  PROVE  /\ LinksTo(k) \in Nat /\ LinksTo(k)' \in Nat
         /\ LinksTo(k)' = LinksTo(k) - B(link[f] = k) + B(link'[f] = k)
<1> DEFINE P == {g \in Futs : link[g] = k}
           Q == {g \in Futs : link'[g] = k}
<1>1. /\ Cardinality(P) \in Nat /\ Cardinality(Q) \in Nat
      /\ Cardinality(Q) = Cardinality(P) - B(f \in P) + B(f \in Q)
  BY FuturesAssumption, CountMoves DEF FuturesAssumption
<1> QED
  BY <1>1 DEF LinksTo, B

\* The number of threads that hold an object is a natural number.
LEMMA Natural ==
  ASSUME NEW o
  PROVE  \A p : HeldBy(o, p) \in Nat
<1> SUFFICES ASSUME NEW p PROVE HeldBy(o, p) \in Nat
  OBVIOUS
<1>1. {t \in Threads : p[t] = o} \in SUBSET Threads
  OBVIOUS
<1> QED
  BY <1>1, FuturesAssumption, FS_Subset, FS_CardinalityType DEF HeldBy, FuturesAssumption

\* So are the numbers of lists, batches and links that hold one.
LEMMA NaturalSets ==
  /\ \A f \in Futs : InLists(f) \in Nat /\ InBatches(f) \in Nat
  /\ \A k \in Tokens : LinksTo(k) \in Nat
<1>1. ASSUME NEW f \in Futs PROVE InLists(f) \in Nat /\ InBatches(f) \in Nat
  <2>1. {k \in Tokens : assoc[k][f] > 0} \in SUBSET Tokens
          /\ {t \in Threads : batch[t][f] > 0} \in SUBSET Threads
    OBVIOUS
  <2> QED
    BY <2>1, FuturesAssumption, FS_Subset, FS_CardinalityType DEF InLists, InBatches,
         FuturesAssumption
<1>2. ASSUME NEW k \in Tokens PROVE LinksTo(k) \in Nat
  <2>1. {f \in Futs : link[f] = k} \in SUBSET Futs
    OBVIOUS
  <2> QED
    BY <2>1, FuturesAssumption, FS_Subset, FS_CardinalityType DEF LinksTo, FuturesAssumption
<1> QED
  BY <1>1, <1>2

(* A thread that points at an object is one of its holders. *)
LEMMA HeldPositive ==
  ASSUME NEW o, NEW p, NEW t \in Threads, p[t] = o
  PROVE  HeldBy(o, p) \in Nat /\ HeldBy(o, p) > 0
<1> DEFINE P == {u \in Threads : p[u] = o}
<1>1. P \in SUBSET Threads /\ t \in P
  OBVIOUS
<1>2. IsFiniteSet(P) /\ Cardinality(P) \in Nat
  BY <1>1, FuturesAssumption, FS_Subset, FS_CardinalityType DEF FuturesAssumption
<1>3. Cardinality(P) # 0
  BY <1>1, <1>2, FS_EmptySet
<1> QED
  BY <1>2, <1>3 DEF HeldBy

(* What the invariant says of one object's count. *)
LEMMA FutureCount ==
  ASSUME FInv, NEW f \in Futs
  PROVE  /\ rc[f] = user[f] + HeldBy(f, fut) + InLists(f) + InBatches(f)
         /\ rc[f] \in Nat /\ user[f] \in Nat /\ HeldBy(f, fut) \in Nat
         /\ InLists(f) \in Nat /\ InBatches(f) \in Nat
BY Natural, NaturalSets DEF FInv, Counted, TypeOK, Objects

\* The count of a token, term by term.
LEMMA TokenCount ==
  ASSUME FInv, NEW k \in Tokens
  PROVE  /\ rc[k] = user[k] + HeldBy(k, tok) + HeldBy(k, unlink) + LinksTo(k)
         /\ rc[k] \in Nat /\ user[k] \in Nat /\ HeldBy(k, tok) \in Nat
         /\ HeldBy(k, unlink) \in Nat /\ LinksTo(k) \in Nat
BY Natural, NaturalSets DEF FInv, Counted, TypeOK, Objects

-----------------------------------------------------------------------------
(* set_future_status. *)

(* Exactly one future's managed value changes. *)
LEMMA ManagedMoves ==
  ASSUME NEW f \in Futs, managed \in [Futs -> BOOLEAN], managed' \in [Futs -> BOOLEAN],
         \A g \in Futs \ {f} : managed'[g] = managed[g], ValueOwned,
         vrc' = vrc - B(managed[f]) + B(managed'[f])
  PROVE  ValueOwned'
<1> DEFINE P == {g \in Futs : managed[g]}
           Q == {g \in Futs : managed'[g]}
<1>1. /\ Cardinality(P) \in Nat /\ Cardinality(Q) \in Nat
      /\ Cardinality(Q) = Cardinality(P) - B(f \in P) + B(f \in Q)
  BY FuturesAssumption, CountMoves DEF FuturesAssumption
<1>2. Cardinality(Q) = Cardinality(P) - B(managed[f]) + B(managed'[f])
  BY <1>1 DEF B
<1> QED
  BY <1>2 DEF ValueOwned

(* Whoever settles a future, or finds it settled, takes over its link. *)
Settles(t, f) ==
  /\ status' \in [Futs -> Final \cup {"Pending"}] /\ waiters' \in [Futs -> Seq(Waiters)]
  /\ link' \in [Futs -> Tokens \cup {Nil}] /\ managed' \in [Futs -> BOOLEAN] /\ vrc' \in Int
  /\ pc'[t] \in {"dereg", "schedule", "settled"} /\ \A u \in Threads \ {t} : pc'[u] = pc[u]
  /\ fut'[t] = f /\ \A u \in Threads \ {t} : fut'[u] = fut[u]
  /\ unlink'[t] = link[f] /\ \A u \in Threads \ {t} : unlink'[u] = unlink[u]
  /\ link[f] # Nil <=> pc'[t] = "dereg"
  /\ pc' \in [Threads -> {"idle", "dereg", "relToken", "schedule", "settled",
                          "take", "next", "assocCancel"}]
  /\ fut' \in [Threads -> Futs \cup {Nil}]
  /\ unlink' \in [Threads -> Tokens \cup {Nil}] /\ woken' \in [Threads -> Seq(Waiters)]
  /\ status'[f] # "Pending" /\ link'[f] = Nil
  /\ \A g \in Futs \ {f} : /\ status'[g] = status[g] /\ link'[g] = link[g]
                           /\ managed'[g] = managed[g]
  /\ ValueOwned'

\* Settle does to the counts what Settles says, whether it wins or comes too late.
LEMMA SettleMoves ==
  ASSUME FInv, NEW t \in Threads, NEW f \in Futs, NEW s \in Final, NEW m \in BOOLEAN,
         Settle(t, f, s, m)
  PROVE  Settles(t, f)
<1> USE FuturesAssumption DEF FuturesAssumption, FInv, Final, Settles
<1>1. fut' = [fut EXCEPT ![t] = f]
  BY DEF Settle
<1>2. CASE Unsettled(f)
  <2>1. /\ status' = [status EXCEPT ![f] = s]
        /\ managed' = [managed EXCEPT ![f] = m /\ s = "Ready"]
        /\ vrc' = IF m /\ s = "Ready" THEN vrc + 1 ELSE vrc
        /\ woken' = [woken EXCEPT ![t] = waiters[f]]
        /\ waiters' = [waiters EXCEPT ![f] = <<>>]
        /\ unlink' = [unlink EXCEPT ![t] = link[f]]
        /\ link' = [link EXCEPT ![f] = Nil]
        /\ pc' = [pc EXCEPT ![t] = IF link[f] = Nil THEN "schedule" ELSE "dereg"]
    BY <1>2 DEF Settle, Goto
  <2>2. ~managed[f] /\ managed[f] \in BOOLEAN
    BY <1>2 DEF Linked, Unsettled, TypeOK
  <2>3. managed' \in [Futs -> BOOLEAN] /\ \A g \in Futs \ {f} : managed'[g] = managed[g]
    BY <2>1 DEF TypeOK
  <2>4. vrc' = vrc - B(managed[f]) + B(managed'[f]) /\ vrc' \in Int
    BY <2>1, <2>2 DEF TypeOK, B
  <2>5. ValueOwned'
    BY <2>3, <2>4, ManagedMoves DEF TypeOK
  <2>6. waiters' \in [Futs -> Seq(Waiters)] /\ woken' \in [Threads -> Seq(Waiters)]
    BY <2>1 DEF TypeOK
  <2> QED
    BY <1>1, <2>1, <2>3, <2>4, <2>5, <2>6 DEF TypeOK
<1>3. CASE ~Unsettled(f)
  <2>1. /\ vrc' = vrc
        /\ unlink' = [unlink EXCEPT ![t] = Nil]
        /\ woken' = [woken EXCEPT ![t] = <<>>]
        /\ UNCHANGED <<status, waiters, link, managed>>
        /\ pc' = [pc EXCEPT ![t] = "settled"]
    BY <1>3 DEF Settle, Goto, LoserValue
  <2>2. status[f] # "Pending" /\ link[f] = Nil
    BY <1>3 DEF Unsettled, Linked
  <2>3. ValueOwned'
    BY <2>1 DEF ValueOwned
  <2>4. woken' \in [Threads -> Seq(Waiters)]
    BY <2>1 DEF TypeOK
  <2> QED
    BY <1>1, <2>1, <2>2, <2>3, <2>4 DEF TypeOK
<1> QED
  BY <1>2, <1>3

(* The links as they are after a settle; lists and batches lose at most    *)
(* what the caller took for f.                                             *)
LEMMA SettleLinked ==
  ASSUME FInv, NEW t \in Threads, NEW f \in Futs, Settles(t, f), UNCHANGED assoc,
         \A u \in Threads, g \in Futs : batch'[u][g] \in {0, 1}
           /\ (g # f => batch'[u][g] = batch[u][g])
  PROVE  \A g \in Futs : Linked(g)'
<1> SUFFICES ASSUME NEW g \in Futs PROVE Linked(g)'
  OBVIOUS
<1>0. Linked(g)
  BY DEF FInv
<1>1. CASE g = f
  BY <1>0, <1>1 DEF Linked, Settles
<1>2. CASE g # f
  <2>1. /\ status'[g] = status[g] /\ link'[g] = link[g] /\ managed'[g] = managed[g]
        /\ \A u \in Threads : batch'[u][g] = batch[u][g]
    BY <1>2 DEF Settles
  <2> QED
    BY <1>0, <2>1 DEF Linked
<1> QED
  BY <1>1, <1>2

(* ... and its effect on the counts: the link's reference passes to the thread. *)
LEMMA SettleCounts ==
  ASSUME NEW t \in Threads, NEW f \in Futs, Settles(t, f)
  PROVE  /\ \A g \in Futs : HeldBy(g, fut') = HeldBy(g, fut) - B(fut[t] = g) + B(f = g)
         /\ \A k \in Tokens : HeldBy(k, unlink') + LinksTo(k)'
                              = HeldBy(k, unlink) - B(unlink[t] = k) + LinksTo(k)
<1>1. /\ fut'[t] = f /\ \A u \in Threads \ {t} : fut'[u] = fut[u]
      /\ unlink'[t] = link[f] /\ \A u \in Threads \ {t} : unlink'[u] = unlink[u]
      /\ link'[f] = Nil /\ \A g \in Futs \ {f} : link'[g] = link[g]
  BY DEF Settles
<1>2. \A g \in Futs : HeldBy(g, fut') = HeldBy(g, fut) - B(fut[t] = g) + B(f = g)
  BY <1>1, FutMoves
<1>3. ASSUME NEW k \in Tokens
      PROVE  HeldBy(k, unlink') + LinksTo(k)' = HeldBy(k, unlink) - B(unlink[t] = k) + LinksTo(k)
  <2>1. /\ HeldBy(k, unlink) \in Nat
        /\ HeldBy(k, unlink') = HeldBy(k, unlink) - B(unlink[t] = k) + B(link[f] = k)
    BY <1>1, UnlinkMoves
  <2>2. LinksTo(k) \in Nat /\ LinksTo(k)' = LinksTo(k) - B(link[f] = k) + B(Nil = k)
    BY <1>1, LinksMove
  <2>3. B(Nil = k) = 0
    BY FuturesAssumption DEF FuturesAssumption, B
  <2> QED
    BY <2>1, <2>2, <2>3 DEF B
<1> QED
  BY <1>2, <1>3

(* Objects are futures or tokens, not both, and Nil is neither. *)
LEMMA Names ==
  /\ Futs \cap Tokens = {} /\ Nil \notin Futs /\ Nil \notin Tokens
  /\ \A x \in Objects : x \in Futs \/ x \in Tokens
BY FuturesAssumption DEF FuturesAssumption, Objects

(* A count that changes. *)
LEMMA PlusAt ==
  ASSUME NEW fn \in [Objects -> Nat], NEW x \in Objects, NEW n \in Int, fn[x] + n >= 0
  PROVE  /\ Plus(fn, x, n) \in [Objects -> Nat]
         /\ \A y \in Objects : Plus(fn, x, n)[y] = fn[y] + (IF x = y THEN n ELSE 0)
<1>1. fn[x] \in Nat /\ fn[x] + n \in Nat
  OBVIOUS
<1> QED
  BY <1>1 DEF Plus

(* A settle on behalf of any of its callers. *)
LEMMA SettleStep ==
  ASSUME FInv, NEW t \in Threads, NEW f \in Futs, Settles(t, f),
         UNCHANGED <<cancelled, assoc, queue, done, tok>>,
         rc' \in [Objects -> Nat], user' \in [Objects -> Nat],
         batch' \in [Threads -> [Futs -> Nat]], own' \in [Threads -> {"owned", "borrowed",
           "batch"}],
         \A u \in Threads \ {t} : own'[u] = own[u] /\ batch'[u] = batch[u],
         \A g \in Futs : batch'[t][g] \in {0, 1} /\ (g # f => batch'[t][g] = batch[t][g]),
         tok[t] # Nil <=> own'[t] = "batch",
         tok[t] = Nil => \A g \in Futs : batch'[t][g] = 0
  PROVE  TypeOK' /\ (\A u \in Threads : Locals(u)') /\ (\A g \in Futs : Linked(g)') /\ ValueOwned'
<1>1. TypeOK'
  BY DEF FInv, TypeOK, Settles
<1>2. ASSUME NEW u \in Threads PROVE Locals(u)'
  <2>1. Locals(u)
    BY DEF FInv
  <2>2. CASE u = t
    BY <2>1, <2>2, Names DEF Locals, InSettle, Settles
  <2>3. CASE u # t
    <3>1. UNCHANGED <<pc[u], fut[u], unlink[u], tok[u], batch[u], own[u]>>
      BY <2>3 DEF Settles
    <3>2. \A g \in Futs : status[g] # "Pending" => status'[g] # "Pending"
      BY DEF Settles
    <3>3. fut[u] \in Futs \cup {Nil}
      BY DEF FInv, TypeOK
    <3> QED
      BY <2>1, <3>1, <3>2, <3>3, Names DEF Locals, InSettle
  <2> QED
    BY <2>2, <2>3
<1>3. \A u \in Threads, g \in Futs : batch'[u][g] \in {0, 1}
        /\ (g # f => batch'[u][g] = batch[u][g])
  <2> SUFFICES ASSUME NEW u \in Threads, NEW g \in Futs
               PROVE  batch'[u][g] \in {0, 1} /\ (g # f => batch'[u][g] = batch[u][g])
    OBVIOUS
  <2>1. Linked(g)
    BY DEF FInv
  <2> QED
    BY <2>1 DEF Linked
<1>4. \A g \in Futs : Linked(g)'
  BY <1>3, SettleLinked
<1> QED
  BY <1>1, <1>2, <1>4 DEF Settles

-----------------------------------------------------------------------------
(* One lemma for each step. *)

\* A completion or failure by the runtime keeps FInv.
LEMMA CompleteKeeps ==
  ASSUME FInv, NEW t \in Threads, NEW f \in Futs, NEW s \in Final, NEW m \in BOOLEAN,
         NEW o \in {"owned", "borrowed"}, Complete(t, f, s, m, o)
  PROVE  FInv'
<1>1. /\ pc[t] = "idle" /\ user[f] > 0 /\ user' = Plus(user, f, -1) /\ own' = [own EXCEPT ![t] = o]
      /\ Settle(t, f, s, m) /\ UNCHANGED <<cancelled, assoc, queue, done, rc, tok, batch>>
  BY DEF Complete, token, exec
<1>2. user' \in [Objects -> Nat] /\ \A g \in Objects : user'[g] = user[g] - B(f = g)
  <2>1. user \in [Objects -> Nat] /\ f \in Objects /\ user[f] + (-1) >= 0
    BY <1>1 DEF FInv, TypeOK, Objects
  <2> QED
    BY <1>1, <2>1, PlusAt DEF B
<1>3. Settles(t, f)
  BY <1>1, SettleMoves
<1>4. fut[t] = Nil /\ unlink[t] = Nil /\ tok[t] = Nil /\ \A g \in Futs : batch[t][g] = 0
  BY <1>1 DEF FInv, Locals, InSettle
<1>5. TypeOK' /\ (\A u \in Threads : Locals(u)') /\ (\A g \in Futs : Linked(g)') /\ ValueOwned'
  <2>1. /\ own' \in [Threads -> {"owned", "borrowed", "batch"}] /\ own'[t] = o
        /\ \A u \in Threads \ {t} : own'[u] = own[u]
        /\ rc \in [Objects -> Nat] /\ batch \in [Threads -> [Futs -> Nat]]
    BY <1>1 DEF FInv, TypeOK
  <2> QED
    BY <1>1, <1>2, <1>3, <1>4, <2>1, SettleStep
<1>6. ASSUME NEW g \in Futs
      PROVE  rc'[g] = user'[g] + HeldBy(g, fut') + InLists(g)' + InBatches(g)'
  <2>1. HeldBy(g, fut') = HeldBy(g, fut) + B(f = g)
    BY <1>3, <1>4, SettleCounts, Names, Natural DEF B
  <2>2. InLists(g)' = InLists(g) /\ InBatches(g)' = InBatches(g)
    BY <1>1 DEF InLists, InBatches
  <2>3. rc'[g] = rc[g] /\ user'[g] = user[g] - B(f = g) /\ B(f = g) \in Nat
    BY <1>1, <1>2 DEF Objects, B
  <2> QED
    BY <2>1, <2>2, <2>3, FutureCount
<1>7. ASSUME NEW k \in Tokens
      PROVE  rc'[k] = user'[k] + HeldBy(k, tok') + HeldBy(k, unlink') + LinksTo(k)'
  <2>1. HeldBy(k, unlink') + LinksTo(k)' = HeldBy(k, unlink) + LinksTo(k)
    BY <1>3, <1>4, SettleCounts, Names, Natural, NaturalSets DEF B
  <2>2. rc'[k] = rc[k] /\ user'[k] = user[k] /\ tok' = tok
    BY <1>1, <1>2, Names, TokenCount DEF Objects, B
  <2>3. HeldBy(k, unlink') \in Nat /\ LinksTo(k)' \in Nat
    BY <1>3, UnlinkMoves, LinksMove DEF Settles
  <2> QED
    BY <2>1, <2>2, <2>3, TokenCount
<1> QED
  BY <1>5, <1>6, <1>7 DEF FInv, Counted

\* Cancelling the next future of a batch keeps FInv.
LEMMA CancelNextKeeps ==
  ASSUME FInv, NEW t \in Threads, NEW f \in Futs, CancelNext(t, f)
  PROVE  FInv'
<1>1. /\ pc[t] = "next" /\ batch[t][f] > 0 /\ batch' = [batch EXCEPT ![t][f] = @ - 1]
      /\ own' = [own EXCEPT ![t] = "batch"] /\ Settle(t, f, "Cancelled", FALSE)
      /\ UNCHANGED <<cancelled, assoc, queue, done, rc, user, tok>>
  BY DEF CancelNext, token, exec, counts
<1>2. batch[t] \in [Futs -> Nat] /\ batch[t][f] = 1
  BY <1>1 DEF FInv, TypeOK, Linked
<1>3. /\ batch' \in [Threads -> [Futs -> Nat]] /\ batch'[t][f] = 0
      /\ \A g \in Futs \ {f} : batch'[t][g] = batch[t][g]
      /\ \A u \in Threads \ {t} : batch'[u] = batch[u]
  BY <1>1, <1>2 DEF FInv, TypeOK
<1>4. Settles(t, f)
  BY <1>1, SettleMoves DEF Final
<1>5. fut[t] = Nil /\ unlink[t] = Nil /\ tok[t] # Nil
  BY <1>1 DEF FInv, Locals, InSettle
<1>6. \A g \in Futs : batch'[t][g] \in {0, 1} /\ (g # f => batch'[t][g] = batch[t][g])
  BY <1>3 DEF FInv, Linked
<1>7. TypeOK' /\ (\A u \in Threads : Locals(u)') /\ (\A g \in Futs : Linked(g)') /\ ValueOwned'
  <2>1. /\ own' \in [Threads -> {"owned", "borrowed", "batch"}] /\ own'[t] = "batch"
        /\ \A u \in Threads \ {t} : own'[u] = own[u]
        /\ rc \in [Objects -> Nat] /\ user \in [Objects -> Nat]
    BY <1>1 DEF FInv, TypeOK
  <2> QED
    BY <1>1, <1>3, <1>4, <1>5, <1>6, <2>1, SettleStep
<1>8. ASSUME NEW g \in Futs
      PROVE  rc'[g] = user'[g] + HeldBy(g, fut') + InLists(g)' + InBatches(g)'
  <2>1. HeldBy(g, fut') = HeldBy(g, fut) + B(f = g)
    BY <1>4, <1>5, SettleCounts, Names, Natural DEF B
  <2>2. InLists(g)' = InLists(g)
    BY <1>1 DEF InLists
  <2>3. InBatches(g)' = InBatches(g) - B(batch[t][g] > 0) + B(batch'[t][g] > 0)
    BY <1>3, BatchesMove
  <2>4. InBatches(g)' = InBatches(g) - B(f = g)
    <3>1. CASE g = f
      BY <1>2, <1>3, <2>3, <3>1, FutureCount DEF B
    <3>2. CASE g # f
      BY <1>3, <2>3, <3>2, FutureCount DEF B
    <3> QED
      BY <3>1, <3>2
  <2>5. B(f = g) \in Nat
    BY DEF B
  <2> QED
    BY <1>1, <2>1, <2>2, <2>4, <2>5, FutureCount
<1>9. ASSUME NEW k \in Tokens
      PROVE  rc'[k] = user'[k] + HeldBy(k, tok') + HeldBy(k, unlink') + LinksTo(k)'
  <2>1. HeldBy(k, unlink') + LinksTo(k)' = HeldBy(k, unlink) + LinksTo(k)
    BY <1>4, <1>5, SettleCounts, Names, Natural, NaturalSets DEF B
  <2>2. HeldBy(k, unlink') \in Nat /\ LinksTo(k)' \in Nat
    BY <1>4, UnlinkMoves, LinksMove DEF Settles
  <2> QED
    BY <1>1, <2>1, <2>2, TokenCount
<1> QED
  BY <1>7, <1>8, <1>9 DEF FInv, Counted

\* Associating with a token that is already cancelled keeps FInv.
LEMMA AssociateCancelsKeeps ==
  ASSUME FInv, NEW t \in Threads, AssociateCancels(t)
  PROVE  FInv'
<1> DEFINE f == fut[t]
           j == unlink[t]
<1>1. /\ pc[t] = "assocCancel" /\ rc' = Plus(rc, j, -1) /\ Settle(t, f, "Cancelled", FALSE)
      /\ UNCHANGED <<cancelled, assoc, queue, done, user, tok, batch, own>>
  BY DEF AssociateCancels, token, exec
<1>2. /\ f \in Futs /\ j \in Tokens /\ tok[t] = Nil /\ own[t] = "borrowed"
      /\ \A g \in Futs : batch[t][g] = 0
  BY <1>1 DEF FInv, TypeOK, Locals, InSettle
<1> HIDE DEF f
<1>3. rc' \in [Objects -> Nat] /\ \A x \in Objects : rc'[x] = rc[x] - B(j = x)
  <2>1. HeldBy(j, unlink) > 0
    BY HeldPositive
  <2>2. rc \in [Objects -> Nat] /\ j \in Objects
    BY <1>2 DEF FInv, TypeOK, Objects
  <2>3. rc[j] + (-1) >= 0
    BY <1>2, <2>1, TokenCount
  <2> QED
    BY <1>1, <2>2, <2>3, PlusAt DEF B
<1>4. Settles(t, f)
  BY <1>1, <1>2, SettleMoves DEF Final
<1>5. TypeOK' /\ (\A u \in Threads : Locals(u)') /\ (\A g \in Futs : Linked(g)') /\ ValueOwned'
  <2>1. /\ own \in [Threads -> {"owned", "borrowed", "batch"}]
        /\ user \in [Objects -> Nat] /\ batch \in [Threads -> [Futs -> Nat]]
    BY DEF FInv, TypeOK
  <2> QED
    BY <1>1, <1>2, <1>3, <1>4, <2>1, SettleStep
<1>6. ASSUME NEW g \in Futs
      PROVE  rc'[g] = user'[g] + HeldBy(g, fut') + InLists(g)' + InBatches(g)'
  <2>1. HeldBy(g, fut') = HeldBy(g, fut)
    BY <1>2, <1>4, SettleCounts, FutureCount DEF B, f
  <2>2. InLists(g)' = InLists(g) /\ InBatches(g)' = InBatches(g)
    BY <1>1 DEF InLists, InBatches
  <2>3. rc'[g] = rc[g]
    BY <1>2, <1>3, Names, FutureCount DEF Objects, B
  <2> QED
    BY <1>1, <2>1, <2>2, <2>3, FutureCount
<1>7. ASSUME NEW k \in Tokens
      PROVE  rc'[k] = user'[k] + HeldBy(k, tok') + HeldBy(k, unlink') + LinksTo(k)'
  <2>1. HeldBy(k, unlink') + LinksTo(k)' = HeldBy(k, unlink) - B(j = k) + LinksTo(k)
    BY <1>2, <1>4, SettleCounts
  <2>2. rc'[k] = rc[k] - B(j = k) /\ B(j = k) \in Nat
    BY <1>3 DEF Objects, B
  <2>3. HeldBy(k, unlink') \in Nat /\ LinksTo(k)' \in Nat
    BY <1>2, <1>4, UnlinkMoves, LinksMove DEF Settles
  <2> HIDE DEF j
  <2> QED
    BY <1>1, <2>1, <2>2, <2>3, TokenCount
<1> QED
  BY <1>5, <1>6, <1>7 DEF FInv, Counted

(* The pointers of the threads that do nothing. *)
LEMMA OthersLocal ==
  ASSUME FInv, NEW t \in Threads, UNCHANGED status, Locals(t)',
         \A u \in Threads \ {t} : UNCHANGED <<pc[u], fut[u], unlink[u], tok[u], batch[u], own[u]>>
  PROVE  \A u \in Threads : Locals(u)'
<1> SUFFICES ASSUME NEW u \in Threads, u # t PROVE Locals(u)'
  OBVIOUS
<1>1. Locals(u) /\ UNCHANGED <<status, pc[u], fut[u], unlink[u], tok[u], batch[u], own[u]>>
  BY DEF FInv
<1> QED
  BY <1>1 DEF Locals

(* The links, when no step of theirs is taken. *)
LEMMA LinkedStays ==
  ASSUME FInv, UNCHANGED <<status, link, assoc, batch>>, \A g \in Futs : managed'[g] => managed[g]
  PROVE  \A g \in Futs : Linked(g)'
<1> SUFFICES ASSUME NEW g \in Futs PROVE Linked(g)'
  OBVIOUS
<1>1. Linked(g)
  BY DEF FInv
<1> QED
  BY <1>1 DEF Linked

(* A release: of the last reference with the destructor. *)
LEMMA ReleaseMoves ==
  ASSUME FInv, NEW f \in Futs, rc[f] > 0, ReleaseFuture(f)
  PROVE  /\ rc' \in [Objects -> Nat] /\ \A x \in Objects : rc'[x] = rc[x] - B(f = x)
         /\ done' \in Seq(Waiters) /\ waiters' \in [Futs -> Seq(Waiters)]
         /\ managed' \in [Futs -> BOOLEAN] /\ vrc' \in Int /\ ValueOwned'
         /\ \A g \in Futs : managed'[g] => managed[g]
         /\ UNCHANGED <<status, link, queue>>
<1>0. /\ rc \in [Objects -> Nat] /\ f \in Objects /\ managed \in [Futs -> BOOLEAN] /\ vrc \in Int
      /\ done \in Seq(Waiters) /\ waiters \in [Futs -> Seq(Waiters)] /\ ValueOwned
  BY DEF FInv, TypeOK, Objects
<1>1. CASE rc[f] = 1
  <2>1. /\ rc' = [rc EXCEPT ![f] = 0]
        /\ done' = done \o waiters[f] /\ waiters' = [waiters EXCEPT ![f] = <<>>]
        /\ managed' = [managed EXCEPT ![f] = FALSE]
        /\ vrc' = IF managed[f] THEN vrc - 1 ELSE vrc
        /\ UNCHANGED <<status, link, queue>>
    BY <1>1 DEF ReleaseFuture
  <2>2. rc' \in [Objects -> Nat] /\ \A x \in Objects : rc'[x] = rc[x] - B(f = x)
    BY <1>0, <1>1, <2>1 DEF B
  <2>3. done' \in Seq(Waiters) /\ waiters' \in [Futs -> Seq(Waiters)]
    BY <1>0, <2>1
  <2>4. managed' \in [Futs -> BOOLEAN] /\ ~managed'[f]
          /\ \A g \in Futs \ {f} : managed'[g] = managed[g]
    BY <1>0, <2>1
  <2>5. vrc' = vrc - B(managed[f]) + B(managed'[f]) /\ vrc' \in Int
    BY <1>0, <2>1, <2>4 DEF B
  <2>6. ValueOwned'
    BY <1>0, <2>4, <2>5, ManagedMoves
  <2> QED
    BY <2>1, <2>2, <2>3, <2>4, <2>5, <2>6
<1>2. CASE rc[f] # 1
  <2>1. rc' = Plus(rc, f, -1) /\ UNCHANGED <<status, waiters, link, managed, vrc, queue, done>>
    BY <1>2 DEF ReleaseFuture, future, exec
  <2>2. rc' \in [Objects -> Nat] /\ \A x \in Objects : rc'[x] = rc[x] - B(f = x)
    <3>1. rc[f] + (-1) >= 0
      BY <1>0
    <3> QED
      BY <1>0, <2>1, <3>1, PlusAt DEF B
  <2>3. ValueOwned'
    BY <1>0, <2>1 DEF ValueOwned
  <2> QED
    BY <1>0, <2>1, <2>2, <2>3
<1> QED
  BY <1>1, <1>2

(* The entry that is taken off the list, if it is still there, is f's, and *)
(* the thread's own reference remains.                                     *)
LEMMA DeregisterKeeps ==
  ASSUME FInv, NEW t \in Threads, Deregister(t)
  PROVE  FInv' /\ rc'[fut[t]] > 0
<1>1. pc[t] = "dereg"
  BY DEF Deregister
<1>2. PICK f \in Futs : fut[t] = f
  BY <1>1 DEF FInv, TypeOK, Locals, InSettle
<1>3. PICK k \in Tokens : unlink[t] = k
  BY <1>1 DEF FInv, TypeOK, Locals
<1>4. Linked(f) /\ status[f] # "Pending"
  BY <1>1, <1>2 DEF FInv, Locals, InSettle
<1>5. PICK n \in {0, 1} : assoc[k][f] = n
  BY <1>4 DEF Linked
<1>6. /\ assoc' = [assoc EXCEPT ![k][f] = 0]
      /\ rc' = Plus(rc, f, - n) /\ pc' = [pc EXCEPT ![t] = "relToken"]
      /\ UNCHANGED <<status, waiters, link, managed, vrc, cancelled, queue, done, user, fut, tok,
                     unlink, woken, batch, own>>
  <2>1. /\ assoc' = [assoc EXCEPT ![k][f] = IF n > 0 THEN n - 1 ELSE n]
        /\ rc' = Plus(rc, f, - ListReleases(n)) /\ pc' = [pc EXCEPT ![t] = "relToken"]
        /\ UNCHANGED <<status, waiters, link, managed, vrc, cancelled, queue, done, user, fut, tok,
                       unlink, woken, batch, own>>
    BY <1>2, <1>3, <1>5, Zenon DEF Deregister, future, exec, Goto
  <2>2. (IF n > 0 THEN n - 1 ELSE n) = 0 /\ ListReleases(n) = n
    BY DEF ListReleases
  <2> QED
    BY <2>1, <2>2
<1>7. /\ assoc' \in [Tokens -> [Futs -> Nat]] /\ assoc'[k][f] = 0
      /\ \A j \in Tokens, g \in Futs : j # k \/ g # f => assoc'[j][g] = assoc[j][g]
      /\ \A j \in Tokens \ {k} : assoc'[j] = assoc[j]
  <2>1. assoc \in [Tokens -> [Futs -> Nat]]
    BY DEF FInv, TypeOK
  <2> QED
    BY <1>6, <2>1
<1>8. /\ \A g \in Futs : InLists(g)' = InLists(g) - (IF f = g THEN n ELSE 0) /\ InLists(g)' \in Nat
      /\ \A g \in Futs : InBatches(g)' = InBatches(g)
      /\ \A j \in Tokens : LinksTo(j)' = LinksTo(j)
  <2>1. ASSUME NEW g \in Futs
        PROVE  InLists(g)' = InLists(g) - (IF f = g THEN n ELSE 0) /\ InLists(g)' \in Nat
    <3>1. /\ InLists(g) \in Nat /\ InLists(g)' \in Nat
          /\ InLists(g)' = InLists(g) - B(assoc[k][g] > 0) + B(assoc'[k][g] > 0)
      BY <1>7, ListsMove
    <3>2. B(assoc'[k][g] > 0) = B(assoc[k][g] > 0) - (IF f = g THEN n ELSE 0)
      BY <1>5, <1>7 DEF B
    <3> QED
      BY <3>1, <3>2 DEF B
  <2> QED
    BY <1>6, <2>1 DEF InBatches, LinksTo
<1>9. HeldBy(f, fut) > 0
  BY <1>2, HeldPositive
<1>10. rc' \in [Objects -> Nat] /\ \A x \in Objects : rc'[x] = rc[x] + (IF f = x THEN - n ELSE 0)
  <2>1. rc \in [Objects -> Nat] /\ f \in Objects
    BY DEF FInv, TypeOK, Objects
  <2>2. rc[f] + (- n) >= 0
    BY <1>8, <1>9, FutureCount
  <2> QED
    BY <1>6, <2>1, <2>2, PlusAt
<1>11. TypeOK'
  BY <1>6, <1>7, <1>10 DEF FInv, TypeOK
<1>12. Locals(t)' /\ \A u \in Threads \ {t} : UNCHANGED <<pc[u], fut[u], unlink[u], tok[u],
         batch[u], own[u]>>
  <2>1. Locals(t) /\ pc'[t] = "relToken" /\ \A u \in Threads \ {t} : pc'[u] = pc[u]
    BY <1>6 DEF FInv, TypeOK
  <2> QED
    BY <1>1, <1>6, <2>1 DEF Locals, InSettle
<1>13. ASSUME NEW g \in Futs PROVE Linked(g)'
  <2>1. Linked(g)
    BY DEF FInv
  <2>2. CASE g = f
    <3>1. link'[g] = Nil /\ status'[g] # "Pending"
      BY <1>4, <1>6, <2>2 DEF Linked
    <3>2. \A j \in Tokens : assoc'[j][g] \in {0, 1}
      BY <1>7, <2>1 DEF Linked
    <3> QED
      BY <1>6, <2>1, <3>1, <3>2 DEF Linked
  <2>3. CASE g # f
    <3>1. \A j \in Tokens : assoc'[j][g] = assoc[j][g]
      BY <1>7, <2>3
    <3> QED
      BY <1>6, <2>1, <3>1 DEF Linked
  <2> QED
    BY <2>2, <2>3
<1>14. ASSUME NEW g \in Futs
      PROVE  rc'[g] = user'[g] + HeldBy(g, fut') + InLists(g)' + InBatches(g)'
  <2>1. rc'[g] = rc[g] + (IF f = g THEN - n ELSE 0)
    BY <1>10 DEF Objects
  <2> QED
    BY <1>6, <1>8, <2>1, FutureCount
<1>15. ASSUME NEW j \in Tokens
       PROVE  rc'[j] = user'[j] + HeldBy(j, tok') + HeldBy(j, unlink') + LinksTo(j)'
  <2>1. rc'[j] = rc[j]
    BY <1>10, Names, TokenCount DEF Objects
  <2> QED
    BY <1>6, <1>8, <2>1, TokenCount
<1>16. ValueOwned'
  BY <1>6 DEF FInv, ValueOwned
<1>17. rc'[f] > 0
  BY <1>6, <1>8, <1>9, <1>14, FutureCount
<1>18. \A u \in Threads : Locals(u)'
  BY <1>6, <1>12, OthersLocal
<1> QED
  BY <1>2, <1>11, <1>13, <1>14, <1>15, <1>16, <1>17, <1>18 DEF FInv, Counted

(* The counts of the futures, when their references do not move. *)
LEMMA SameFutures ==
  ASSUME FInv, UNCHANGED <<fut, assoc, batch>>,
         \A g \in Futs : user'[g] \in Int /\ rc'[g] = user'[g] + (rc[g] - user[g])
  PROVE  \A g \in Futs : rc'[g] = user'[g] + HeldBy(g, fut') + InLists(g)' + InBatches(g)'
<1> SUFFICES ASSUME NEW g \in Futs
             PROVE  rc'[g] = user'[g] + HeldBy(g, fut') + InLists(g)' + InBatches(g)'
  OBVIOUS
<1>1. HeldBy(g, fut') = HeldBy(g, fut) /\ InLists(g)' = InLists(g) /\ InBatches(g)' = InBatches(g)
  BY DEF InLists, InBatches
<1> QED
  BY <1>1, FutureCount

(* ... and of the tokens. *)
LEMMA SameTokens ==
  ASSUME FInv, UNCHANGED <<tok, unlink, link>>,
         \A k \in Tokens : user'[k] \in Int /\ rc'[k] = user'[k] + (rc[k] - user[k])
  PROVE  \A k \in Tokens : rc'[k] = user'[k] + HeldBy(k, tok') + HeldBy(k, unlink') + LinksTo(k)'
<1> SUFFICES ASSUME NEW k \in Tokens
             PROVE  rc'[k] = user'[k] + HeldBy(k, tok') + HeldBy(k, unlink') + LinksTo(k)'
  OBVIOUS
<1>1. HeldBy(k, tok') = HeldBy(k, tok) /\ HeldBy(k, unlink') = HeldBy(k, unlink)
        /\ LinksTo(k)' = LinksTo(k)
  BY DEF LinksTo
<1> QED
  BY <1>1, TokenCount

(* A reference the thread owned is given back. *)
LEMMA ReleaseLinkKeeps ==
  ASSUME FInv, NEW t \in Threads, ReleaseLink(t)
  PROVE  FInv'
<1>1. pc[t] = "relToken"
  BY DEF ReleaseLink
<1>2. PICK k \in Tokens : unlink[t] = k
  BY <1>1 DEF FInv, TypeOK, Locals
<1>3. /\ rc' = Plus(rc, k, -1) /\ pc' = [pc EXCEPT ![t] = "schedule"]
           /\ unlink' = [unlink EXCEPT ![t] = Nil]
      /\ UNCHANGED <<status, waiters, link, managed, vrc, cancelled, assoc, queue, done, user, fut,
                     tok, woken, batch, own>>
  BY <1>2 DEF ReleaseLink, future, token, exec, Goto
<1>4. /\ unlink' \in [Threads -> Tokens \cup {Nil}] /\ unlink'[t] = Nil /\ pc'[t] = "schedule"
      /\ \A u \in Threads \ {t} : unlink'[u] = unlink[u] /\ pc'[u] = pc[u]
  BY <1>3 DEF FInv, TypeOK
<1>5. HeldBy(k, unlink) > 0
  BY <1>2, HeldPositive
<1>6. rc' \in [Objects -> Nat] /\ \A x \in Objects : rc'[x] = rc[x] - B(k = x)
  <2>1. rc \in [Objects -> Nat] /\ k \in Objects
    BY DEF FInv, TypeOK, Objects
  <2>2. rc[k] + (-1) >= 0
    BY <1>5, TokenCount
  <2> QED
    BY <1>3, <2>1, <2>2, PlusAt DEF B
<1>7. TypeOK'
  BY <1>3, <1>4, <1>6 DEF FInv, TypeOK
<1>8. \A u \in Threads : Locals(u)'
  <2>1. Locals(t)'
    <3>1. Locals(t)
      BY DEF FInv
    <3> QED
      BY <1>1, <1>3, <1>4, <3>1 DEF Locals, InSettle
  <2> QED
    BY <1>3, <1>4, <2>1, OthersLocal
<1>9. \A g \in Futs : Linked(g)'
  BY <1>3, LinkedStays
<1>10. \A g \in Futs : rc'[g] = user'[g] + HeldBy(g, fut') + InLists(g)' + InBatches(g)'
  <2>1. \A g \in Futs : user'[g] \in Int /\ rc'[g] = user'[g] + (rc[g] - user[g])
    BY <1>3, <1>6, Names, FutureCount DEF Objects, B
  <2> QED
    BY <1>3, <2>1, SameFutures
<1>11. ASSUME NEW j \in Tokens
       PROVE  rc'[j] = user'[j] + HeldBy(j, tok') + HeldBy(j, unlink') + LinksTo(j)'
  <2>1. HeldBy(j, unlink') = HeldBy(j, unlink) - B(k = j) + B(Nil = j)
    BY <1>2, <1>4, UnlinkMoves
  <2>2. rc'[j] = rc[j] - B(k = j) /\ B(k = j) \in Nat /\ B(Nil = j) = 0
    BY <1>6, Names DEF Objects, B
  <2>3. LinksTo(j)' = LinksTo(j)
    BY <1>3 DEF LinksTo
  <2> QED
    BY <1>3, <2>1, <2>2, <2>3, TokenCount
<1>12. ValueOwned'
  BY <1>3 DEF FInv, ValueOwned
<1> QED
  BY <1>7, <1>8, <1>9, <1>10, <1>11, <1>12 DEF FInv, Counted

\* Scheduling a waiter that was woken keeps FInv.
LEMMA ScheduleKeeps ==
  ASSUME FInv, NEW t \in Threads, Schedule(t)
  PROVE  FInv'
<1>1. /\ pc[t] = "schedule" /\ pc' \in {pc, [pc EXCEPT ![t] = "settled"]}
      /\ UNCHANGED <<status, waiters, link, managed, vrc, cancelled, assoc, done, rc, user, fut,
           tok,
                     unlink, batch, own>>
  BY DEF Schedule, Goto, future, token, counts
<1>2. woken \in [Threads -> Seq(Waiters)] /\ queue \in Seq(Waiters)
  BY DEF FInv, TypeOK
<1>3. queue' \in Seq(Waiters) /\ woken' \in [Threads -> Seq(Waiters)]
  <2>1. CASE woken[t] = <<>>
    BY <1>2, <2>1 DEF Schedule
  <2>2. CASE woken[t] # <<>>
    <3>1. Head(woken[t]) \in Waiters /\ Tail(woken[t]) \in Seq(Waiters)
      BY <1>2, <2>2
    <3>2. queue' = Append(queue, Head(woken[t])) /\ woken' = [woken EXCEPT ![t] = Tail(woken[t])]
      BY <2>2 DEF Schedule
    <3> QED
      BY <1>2, <3>1, <3>2
  <2> QED
    BY <2>1, <2>2
<1>4. pc'[t] \in {"schedule", "settled"} /\ \A u \in Threads \ {t} : pc'[u] = pc[u]
  BY <1>1 DEF FInv, TypeOK
<1>5. TypeOK'
  BY <1>1, <1>3 DEF FInv, TypeOK
<1>6. \A u \in Threads : Locals(u)'
  <2>1. Locals(t)'
    <3>1. Locals(t)
      BY DEF FInv
    <3> QED
      BY <1>1, <1>4, <3>1 DEF Locals, InSettle
  <2> QED
    BY <1>1, <1>4, <2>1, OthersLocal
<1>7. \A g \in Futs : Linked(g)'
  BY <1>1, LinkedStays
<1>8. Counted' /\ ValueOwned'
  BY <1>1 DEF FInv, Counted, ValueOwned, InLists, InBatches, LinksTo
<1> QED
  BY <1>5, <1>6, <1>7, <1>8 DEF FInv

(* The reference the call holds goes back to the program, or is released. *)
LEMMA SettledKeeps ==
  ASSUME FInv, NEW t \in Threads, Settled(t)
  PROVE  FInv'
<1>1. pc[t] = "settled"
  BY DEF Settled
<1>2. PICK f \in Futs : fut[t] = f
  BY <1>1 DEF FInv, TypeOK, Locals, InSettle
<1>3. /\ fut' = [fut EXCEPT ![t] = Nil]
      /\ pc' = [pc EXCEPT ![t] = IF own[t] = "batch" THEN "next" ELSE "idle"]
      /\ UNCHANGED <<cancelled, assoc, tok, unlink, woken, batch, own>>
  BY DEF Settled, Goto, token
<1>4. /\ fut' \in [Threads -> Futs \cup {Nil}] /\ fut'[t] = Nil
      /\ pc'[t] = IF own[t] = "batch" THEN "next" ELSE "idle"
      /\ \A u \in Threads \ {t} : fut'[u] = fut[u] /\ pc'[u] = pc[u]
  BY <1>3 DEF FInv, TypeOK
<1>5. HeldBy(f, fut) > 0
  BY <1>2, HeldPositive
<1>6. rc[f] > 0
  BY <1>5, FutureCount
<1>7. rc \in [Objects -> Nat] /\ user \in [Objects -> Nat] /\ f \in Objects
  BY DEF FInv, TypeOK, Objects
<1>8. /\ rc' \in [Objects -> Nat] /\ user' \in [Objects -> Nat]
      /\ \A x \in Objects : rc'[x] - user'[x] = rc[x] - user[x] - B(f = x)
      /\ done' \in Seq(Waiters) /\ waiters' \in [Futs -> Seq(Waiters)]
      /\ managed' \in [Futs -> BOOLEAN] /\ vrc' \in Int /\ ValueOwned'
      /\ \A g \in Futs : managed'[g] => managed[g]
      /\ UNCHANGED <<status, link, queue>>
  <2>1. CASE own[t] = "borrowed"
    <3>1. user' = Plus(user, f, 1) /\ UNCHANGED <<rc, status, waiters, link, managed, vrc, queue,
            done>>
      BY <1>2, <2>1 DEF Settled, future, exec
    <3>2. user[f] + 1 >= 0
      BY <1>7
    <3>3. user' \in [Objects -> Nat]
            /\ \A x \in Objects : user'[x] = user[x] + (IF f = x THEN 1 ELSE 0)
      BY <1>7, <3>1, <3>2, PlusAt
    <3>4. \A x \in Objects : rc'[x] - user'[x] = rc[x] - user[x] - B(f = x)
      BY <1>7, <3>1, <3>3 DEF B
    <3>5. ValueOwned'
      BY <3>1 DEF FInv, ValueOwned
    <3> QED
      BY <1>7, <3>1, <3>3, <3>4, <3>5 DEF FInv, TypeOK
  <2>2. CASE own[t] # "borrowed"
    <3>1. ReleaseFuture(f) /\ UNCHANGED user
      BY <1>2, <2>2 DEF Settled
    <3>2. /\ rc' \in [Objects -> Nat] /\ \A x \in Objects : rc'[x] = rc[x] - B(f = x)
          /\ done' \in Seq(Waiters) /\ waiters' \in [Futs -> Seq(Waiters)]
          /\ managed' \in [Futs -> BOOLEAN] /\ vrc' \in Int /\ ValueOwned'
          /\ \A g \in Futs : managed'[g] => managed[g]
          /\ UNCHANGED <<status, link, queue>>
      BY <1>6, <3>1, ReleaseMoves
    <3>3. \A x \in Objects : rc'[x] - user'[x] = rc[x] - user[x] - B(f = x)
      BY <1>7, <3>1, <3>2 DEF B
    <3> QED
      BY <1>7, <3>1, <3>2, <3>3
  <2> QED
    BY <2>1, <2>2
<1>9. TypeOK'
  BY <1>3, <1>4, <1>8 DEF FInv, TypeOK
<1>10. \A u \in Threads : Locals(u)'
  <2>1. Locals(t)'
    <3>1. Locals(t)
      BY DEF FInv
    <3> QED
      BY <1>1, <1>3, <1>4, <3>1 DEF Locals, InSettle
  <2> QED
    BY <1>3, <1>4, <1>8, <2>1, OthersLocal
<1>11. \A g \in Futs : Linked(g)'
  BY <1>3, <1>8, LinkedStays
<1>12. ASSUME NEW g \in Futs
       PROVE  rc'[g] = user'[g] + HeldBy(g, fut') + InLists(g)' + InBatches(g)'
  <2>1. HeldBy(g, fut') = HeldBy(g, fut) - B(f = g) + B(Nil = g)
    BY <1>2, <1>4, FutMoves
  <2>2. B(Nil = g) = 0 /\ B(f = g) \in Nat /\ rc'[g] \in Nat /\ user'[g] \in Nat
        /\ rc'[g] - user'[g] = rc[g] - user[g] - B(f = g)
    BY <1>8, Names DEF B, Objects
  <2>3. InLists(g)' = InLists(g) /\ InBatches(g)' = InBatches(g)
    BY <1>3 DEF InLists, InBatches
  <2>4. /\ rc[g] = user[g] + HeldBy(g, fut) + InLists(g) + InBatches(g)
        /\ rc[g] \in Nat /\ user[g] \in Nat /\ HeldBy(g, fut) \in Nat
        /\ InLists(g) \in Nat /\ InBatches(g) \in Nat
    BY FutureCount
  <2> QED
    BY <2>1, <2>2, <2>3, <2>4
<1>13. \A k \in Tokens : rc'[k] = user'[k] + HeldBy(k, tok') + HeldBy(k, unlink') + LinksTo(k)'
  <2>1. ASSUME NEW k \in Tokens PROVE user'[k] \in Int /\ rc'[k] = user'[k] + (rc[k] - user[k])
    <3>1. rc'[k] \in Nat /\ user'[k] \in Nat /\ rc'[k] - user'[k] = rc[k] - user[k] - 0
      BY <1>8, Names DEF Objects, B
    <3> QED
      BY <3>1, TokenCount
  <2> QED
    BY <1>3, <1>8, <2>1, SameTokens
<1> QED
  BY <1>8, <1>9, <1>10, <1>11, <1>12, <1>13 DEF FInv, Counted

(* The caller's reference to the token is the call's until it returns. *)
LEMMA CancelTokenKeeps ==
  ASSUME FInv, NEW t \in Threads, NEW k \in Tokens, CancelToken(t, k)
  PROVE  FInv'
<1>1. /\ pc[t] = "idle" /\ user[k] > 0 /\ user' = Plus(user, k, -1)
      /\ cancelled' = [cancelled EXCEPT ![k] = TRUE] /\ tok' = [tok EXCEPT ![t] = k]
      /\ pc' = [pc EXCEPT ![t] = "take"]
      /\ UNCHANGED <<status, waiters, link, managed, vrc, assoc, queue, done, rc, fut, unlink,
           woken,
                     batch, own>>
  BY DEF CancelToken, Goto, future, exec
<1>2. /\ tok' \in [Threads -> Tokens \cup {Nil}] /\ tok'[t] = k /\ pc'[t] = "take"
      /\ \A u \in Threads \ {t} : tok'[u] = tok[u] /\ pc'[u] = pc[u]
  BY <1>1 DEF FInv, TypeOK
<1>3. user' \in [Objects -> Nat] /\ \A x \in Objects : user'[x] = user[x] - B(k = x)
  <2>1. user \in [Objects -> Nat] /\ k \in Objects /\ user[k] + (-1) >= 0
    BY <1>1 DEF FInv, TypeOK, Objects
  <2> QED
    BY <1>1, <2>1, PlusAt DEF B
<1>4. TypeOK'
  BY <1>1, <1>2, <1>3 DEF FInv, TypeOK
<1>5. Locals(t) /\ tok[t] = Nil
  BY <1>1 DEF FInv, Locals, InSettle
<1>6. \A u \in Threads : Locals(u)'
  <2>1. Locals(t)'
    BY <1>1, <1>2, <1>5, Names DEF Locals, InSettle
  <2> QED
    BY <1>1, <1>2, <2>1, OthersLocal
<1>7. \A g \in Futs : Linked(g)'
  BY <1>1, LinkedStays
<1>8. \A g \in Futs : rc'[g] = user'[g] + HeldBy(g, fut') + InLists(g)' + InBatches(g)'
  <2>1. \A g \in Futs : user'[g] \in Int /\ rc'[g] = user'[g] + (rc[g] - user[g])
    BY <1>1, <1>3, Names, FutureCount DEF Objects, B
  <2> QED
    BY <1>1, <2>1, SameFutures
<1>9. ASSUME NEW j \in Tokens
      PROVE  rc'[j] = user'[j] + HeldBy(j, tok') + HeldBy(j, unlink') + LinksTo(j)'
  <2>1. HeldBy(j, tok') = HeldBy(j, tok) - B(Nil = j) + B(k = j)
    BY <1>2, <1>5, TokMoves
  <2>2. user'[j] = user[j] - B(k = j) /\ B(k = j) \in Nat /\ B(Nil = j) = 0
    BY <1>3, Names DEF Objects, B
  <2>3. LinksTo(j)' = LinksTo(j)
    BY <1>1 DEF LinksTo
  <2> QED
    BY <1>1, <2>1, <2>2, <2>3, TokenCount
<1>10. ValueOwned'
  BY <1>1 DEF FInv, ValueOwned
<1> QED
  BY <1>4, <1>6, <1>7, <1>8, <1>9, <1>10 DEF FInv, Counted

\* The return of ori_task_cancel keeps FInv.
LEMMA CancelReturnsKeeps ==
  ASSUME FInv, NEW t \in Threads, CancelReturns(t)
  PROVE  FInv'
<1>0. pc[t] = "next" /\ \A f \in Futs : batch[t][f] = 0
  BY DEF CancelReturns
<1>1. PICK k \in Tokens : tok[t] = k
  BY <1>0 DEF FInv, TypeOK, Locals
<1>2. /\ user' = Plus(user, k, 1) /\ tok' = [tok EXCEPT ![t] = Nil]
           /\ pc' = [pc EXCEPT ![t] = "idle"]
      /\ UNCHANGED <<status, waiters, link, managed, vrc, cancelled, assoc, queue, done, rc, fut,
                     unlink, woken, batch, own>>
  BY <1>1 DEF CancelReturns, Goto, future, token, exec
<1>3. /\ tok' \in [Threads -> Tokens \cup {Nil}] /\ tok'[t] = Nil /\ pc'[t] = "idle"
      /\ \A u \in Threads \ {t} : tok'[u] = tok[u] /\ pc'[u] = pc[u]
  BY <1>2 DEF FInv, TypeOK
<1>4. user' \in [Objects -> Nat] /\ \A x \in Objects : user'[x] = user[x] + B(k = x)
  <2>1. user \in [Objects -> Nat] /\ k \in Objects /\ user[k] + 1 >= 0
    BY DEF FInv, TypeOK, Objects
  <2> QED
    BY <1>2, <2>1, PlusAt DEF B
<1>5. TypeOK'
  BY <1>2, <1>3, <1>4 DEF FInv, TypeOK
<1>6. \A u \in Threads : Locals(u)'
  <2>1. Locals(t)'
    <3>1. Locals(t)
      BY DEF FInv
    <3> QED
      BY <1>0, <1>2, <1>3, <3>1 DEF Locals, InSettle
  <2> QED
    BY <1>2, <1>3, <2>1, OthersLocal
<1>7. \A g \in Futs : Linked(g)'
  BY <1>2, LinkedStays
<1>8. \A g \in Futs : rc'[g] = user'[g] + HeldBy(g, fut') + InLists(g)' + InBatches(g)'
  <2>1. \A g \in Futs : user'[g] \in Int /\ rc'[g] = user'[g] + (rc[g] - user[g])
    BY <1>2, <1>4, Names, FutureCount DEF Objects, B
  <2> QED
    BY <1>2, <2>1, SameFutures
<1>9. ASSUME NEW j \in Tokens
      PROVE  rc'[j] = user'[j] + HeldBy(j, tok') + HeldBy(j, unlink') + LinksTo(j)'
  <2>1. HeldBy(j, tok') = HeldBy(j, tok) - B(k = j) + B(Nil = j)
    BY <1>1, <1>3, TokMoves
  <2>2. user'[j] = user[j] + B(k = j) /\ B(k = j) \in Nat /\ B(Nil = j) = 0
    BY <1>4, Names DEF Objects, B
  <2>3. LinksTo(j)' = LinksTo(j)
    BY <1>2 DEF LinksTo
  <2> QED
    BY <1>2, <2>1, <2>2, <2>3, TokenCount
<1>10. ValueOwned'
  BY <1>2 DEF FInv, ValueOwned
<1> QED
  BY <1>5, <1>6, <1>7, <1>8, <1>9, <1>10 DEF FInv, Counted

(* Every entry of the list becomes one of the thread's. *)
LEMMA TakeListKeeps ==
  ASSUME FInv, NEW t \in Threads, TakeList(t)
  PROVE  FInv'
<1>0. pc[t] = "take"
  BY DEF TakeList
<1>1. PICK k \in Tokens : tok[t] = k
  BY <1>0 DEF FInv, TypeOK, Locals
<1>2. /\ batch' = [batch EXCEPT ![t] = assoc[k]]
           /\ assoc' = [assoc EXCEPT ![k] = [f \in Futs |-> 0]]
      /\ pc' = [pc EXCEPT ![t] = "next"]
      /\ UNCHANGED <<status, waiters, link, managed, vrc, cancelled, queue, done, rc, user, fut,
           tok,
                     unlink, woken, own>>
  BY <1>1 DEF TakeList, Goto, future, exec, counts
<1>3. /\ batch' \in [Threads -> [Futs -> Nat]] /\ assoc' \in [Tokens -> [Futs -> Nat]]
      /\ batch'[t] = assoc[k] /\ \A u \in Threads \ {t} : batch'[u] = batch[u] /\ pc'[u] = pc[u]
      /\ (\A g \in Futs : assoc'[k][g] = 0) /\ \A j \in Tokens \ {k} : assoc'[j] = assoc[j]
      /\ pc'[t] = "next"
  BY <1>2 DEF FInv, TypeOK
<1>4. Locals(t) /\ \A g \in Futs : batch[t][g] = 0
  BY <1>0 DEF FInv, Locals
<1>5. TypeOK'
  BY <1>2, <1>3 DEF FInv, TypeOK
<1>6. \A u \in Threads : Locals(u)'
  <2>1. Locals(t)'
    BY <1>0, <1>1, <1>2, <1>3, <1>4, Names DEF Locals, InSettle
  <2> QED
    BY <1>2, <1>3, <2>1, OthersLocal
<1>7. ASSUME NEW g \in Futs PROVE Linked(g)'
  <2>1. Linked(g)
    BY DEF FInv
  <2>2. \A j \in Tokens : assoc'[j][g] \in {0, 1} /\ (assoc'[j][g] = 1 => link'[g] = j
          \/ status'[g] # "Pending")
    BY <1>2, <1>3, <2>1 DEF Linked
  <2>3. \A u \in Threads : batch'[u][g] \in {0, 1}
    BY <1>3, <2>1 DEF Linked
  <2>4. ASSUME link'[g] # Nil
        PROVE  (\E j \in Tokens : assoc'[j][g] = 1) \/ (\E u \in Threads : batch'[u][g] = 1)
    <3>1. (\E j \in Tokens : assoc[j][g] = 1) \/ (\E u \in Threads : batch[u][g] = 1)
      BY <1>2, <2>1, <2>4 DEF Linked
    <3> QED
      BY <1>3, <1>4, <3>1
  <2> QED
    BY <1>2, <2>1, <2>2, <2>3, <2>4 DEF Linked
<1>8. ASSUME NEW g \in Futs
      PROVE  rc'[g] = user'[g] + HeldBy(g, fut') + InLists(g)' + InBatches(g)'
  <2>1. InLists(g)' = InLists(g) - B(assoc[k][g] > 0) + B(assoc'[k][g] > 0)
    BY <1>3, ListsMove
  <2>2. InBatches(g)' = InBatches(g) - B(batch[t][g] > 0) + B(batch'[t][g] > 0)
    BY <1>3, BatchesMove
  <2>3. /\ B(assoc'[k][g] > 0) = 0 /\ B(batch[t][g] > 0) = 0
             /\ B(batch'[t][g] > 0) = B(assoc[k][g] > 0)
        /\ B(assoc[k][g] > 0) \in Nat
    BY <1>3, <1>4 DEF B
  <2> QED
    BY <1>2, <2>1, <2>2, <2>3, FutureCount
<1>9. \A j \in Tokens : rc'[j] = user'[j] + HeldBy(j, tok') + HeldBy(j, unlink') + LinksTo(j)'
  BY <1>2, TokenCount DEF LinksTo
<1>10. ValueOwned'
  BY <1>2 DEF FInv, ValueOwned
<1> QED
  BY <1>5, <1>6, <1>7, <1>8, <1>9, <1>10 DEF FInv, Counted

(* The link's two references, one to the token and one to the future. *)
LEMMA AssociateKeeps ==
  ASSUME FInv, NEW t \in Threads, NEW k \in Tokens, NEW f \in Futs, Associate(t, k, f)
  PROVE  FInv'
<1>1. /\ status[f] = "Pending" /\ link[f] = Nil /\ link' = [link EXCEPT ![f] = k]
      /\ assoc' = [assoc EXCEPT ![k][f] = assoc[k][f] + 1] /\ rc' = Plus(Plus(rc, k, 1), f, 1)
      /\ UNCHANGED <<status, waiters, managed, vrc, cancelled, queue, done, user, pc, fut, tok,
           unlink,
                     woken, batch, own>>
  BY DEF Associate, Associable, Unlinked, LinkRetains, exec
<1>2. assoc \in [Tokens -> [Futs -> Nat]] /\ link \in [Futs -> Tokens \cup {Nil}]
  BY DEF FInv, TypeOK
<1>3. \A j \in Tokens : assoc[j][f] = 0
  <2>1. Linked(f)
    BY DEF FInv
  <2> QED
    BY <1>1, <2>1, Names DEF Linked
<1>4. /\ assoc' \in [Tokens -> [Futs -> Nat]] /\ assoc'[k][f] = 1
      /\ \A j \in Tokens, g \in Futs : j # k \/ g # f => assoc'[j][g] = assoc[j][g]
      /\ \A j \in Tokens \ {k} : assoc'[j] = assoc[j]
      /\ link' \in [Futs -> Tokens \cup {Nil}] /\ link'[f] = k
      /\ \A g \in Futs \ {f} : link'[g] = link[g]
  BY <1>1, <1>2, <1>3
<1>5. rc' \in [Objects -> Nat] /\ \A x \in Objects : rc'[x] = rc[x] + B(k = x) + B(f = x)
  <2>1. rc \in [Objects -> Nat] /\ k \in Objects /\ f \in Objects
    BY DEF FInv, TypeOK, Objects
  <2>2. PICK r \in [Objects -> Nat] : r = Plus(rc, k, 1)
          /\ \A x \in Objects : r[x] = rc[x] + B(k = x)
    <3>1. rc[k] + 1 >= 0
      BY <2>1
    <3> QED
      BY <2>1, <3>1, PlusAt DEF B
  <2>3. r[f] + 1 >= 0
    BY <2>1
  <2>4. Plus(r, f, 1) \in [Objects -> Nat] /\ \A x \in Objects : Plus(r, f, 1)[x] = r[x] + B(f = x)
    BY <2>1, <2>3, PlusAt DEF B
  <2> QED
    BY <1>1, <2>2, <2>4
<1>6. TypeOK'
  BY <1>1, <1>4, <1>5 DEF FInv, TypeOK
<1>7. \A u \in Threads : Locals(u)'
  BY <1>1 DEF FInv, Locals
<1>8. ASSUME NEW g \in Futs PROVE Linked(g)'
  <2>1. Linked(g)
    BY DEF FInv
  <2>2. CASE g = f
    <3>1. /\ \A j \in Tokens : assoc'[j][g] \in {0, 1} /\ (assoc'[j][g] = 1 => link'[g] = j
               \/ status'[g] # "Pending")
          /\ \E j \in Tokens : assoc'[j][g] = 1
      BY <1>3, <1>4, <2>2
    <3> QED
      BY <1>1, <2>1, <2>2, <3>1 DEF Linked
  <2>3. CASE g # f
    <3>1. link'[g] = link[g] /\ \A j \in Tokens : assoc'[j][g] = assoc[j][g]
      BY <1>4, <2>3
    <3> QED
      BY <1>1, <2>1, <3>1 DEF Linked
  <2> QED
    BY <2>2, <2>3
<1>9. ASSUME NEW g \in Futs
      PROVE  rc'[g] = user'[g] + HeldBy(g, fut') + InLists(g)' + InBatches(g)'
  <2>1. /\ InLists(g) \in Nat
        /\ InLists(g)' = InLists(g) - B(assoc[k][g] > 0) + B(assoc'[k][g] > 0)
    BY <1>4, ListsMove
  <2>2. InLists(g)' = InLists(g) + B(f = g)
    <3>1. CASE g = f
      BY <1>3, <1>4, <2>1, <3>1 DEF B
    <3>2. CASE g # f
      BY <1>4, <2>1, <3>2 DEF B
    <3> QED
      BY <3>1, <3>2
  <2>3. rc'[g] = rc[g] + B(f = g) /\ B(f = g) \in Nat
    BY <1>5, Names, FutureCount DEF B, Objects
  <2>4. InBatches(g)' = InBatches(g)
    BY <1>1 DEF InBatches
  <2> QED
    BY <1>1, <2>2, <2>3, <2>4, FutureCount
<1>10. ASSUME NEW j \in Tokens
      PROVE  rc'[j] = user'[j] + HeldBy(j, tok') + HeldBy(j, unlink') + LinksTo(j)'
  <2>1. LinksTo(j)' = LinksTo(j) - B(Nil = j) + B(k = j)
    BY <1>1, <1>4, LinksMove
  <2>2. rc'[j] = rc[j] + B(k = j) /\ B(k = j) \in Nat /\ B(Nil = j) = 0
    BY <1>5, Names, TokenCount DEF B, Objects
  <2> QED
    BY <1>1, <2>1, <2>2, TokenCount
<1>11. ValueOwned'
  BY <1>1 DEF FInv, ValueOwned
<1> QED
  BY <1>6, <1>7, <1>8, <1>9, <1>10, <1>11 DEF FInv, Counted

\* Associating a future that has settled meanwhile keeps FInv.
LEMMA AssociateLateKeeps ==
  ASSUME FInv, NEW t \in Threads, NEW k \in Tokens, NEW f \in Futs, AssociateLate(t, k, f)
  PROVE  FInv'
<1>1. /\ pc[t] = "idle" /\ user[f] > 0 /\ rc' = Plus(rc, k, 1) /\ user' = Plus(user, f, -1)
      /\ fut' = [fut EXCEPT ![t] = f] /\ unlink' = [unlink EXCEPT ![t] = k]
      /\ own' = [own EXCEPT ![t] = "borrowed"] /\ pc' = [pc EXCEPT ![t] = "assocCancel"]
      /\ UNCHANGED <<status, waiters, link, managed, vrc, cancelled, assoc, queue, done, tok,
           woken, batch>>
  BY DEF AssociateLate, Associable, Goto, future, token, exec
<1>2. /\ fut' \in [Threads -> Futs \cup {Nil}] /\ unlink' \in [Threads -> Tokens \cup {Nil}]
      /\ own' \in [Threads -> {"owned", "borrowed", "batch"}]
      /\ fut'[t] = f /\ unlink'[t] = k /\ own'[t] = "borrowed" /\ pc'[t] = "assocCancel"
      /\ \A u \in Threads \ {t} : fut'[u] = fut[u] /\ unlink'[u] = unlink[u]
           /\ own'[u] = own[u] /\ pc'[u] = pc[u]
  BY <1>1 DEF FInv, TypeOK
<1>3. Locals(t) /\ fut[t] = Nil /\ unlink[t] = Nil
  BY <1>1 DEF FInv, Locals, InSettle
<1>4. rc' \in [Objects -> Nat] /\ \A x \in Objects : rc'[x] = rc[x] + B(k = x)
  <2>1. rc \in [Objects -> Nat] /\ k \in Objects /\ rc[k] + 1 >= 0
    BY DEF FInv, TypeOK, Objects
  <2> QED
    BY <1>1, <2>1, PlusAt DEF B
<1>5. user' \in [Objects -> Nat] /\ \A x \in Objects : user'[x] = user[x] - B(f = x)
  <2>1. user \in [Objects -> Nat] /\ f \in Objects /\ user[f] + (-1) >= 0
    BY <1>1 DEF FInv, TypeOK, Objects
  <2> QED
    BY <1>1, <2>1, PlusAt DEF B
<1>6. TypeOK'
  BY <1>1, <1>2, <1>4, <1>5 DEF FInv, TypeOK
<1>7. \A u \in Threads : Locals(u)'
  <2>1. Locals(t)'
    BY <1>1, <1>2, <1>3, Names DEF Locals, InSettle
  <2> QED
    BY <1>1, <1>2, <2>1, OthersLocal
<1>8. \A g \in Futs : Linked(g)'
  BY <1>1, LinkedStays
<1>9. ASSUME NEW g \in Futs
      PROVE  rc'[g] = user'[g] + HeldBy(g, fut') + InLists(g)' + InBatches(g)'
  <2>1. HeldBy(g, fut') = HeldBy(g, fut) - B(Nil = g) + B(f = g)
    BY <1>2, <1>3, FutMoves
  <2>2. rc'[g] = rc[g] /\ user'[g] = user[g] - B(f = g) /\ B(f = g) \in Nat /\ B(Nil = g) = 0
    BY <1>4, <1>5, Names, FutureCount DEF B, Objects
  <2>3. InBatches(g)' = InBatches(g) /\ InLists(g)' = InLists(g)
    BY <1>1 DEF InBatches, InLists
  <2> QED
    BY <2>1, <2>2, <2>3, FutureCount
<1>10. ASSUME NEW j \in Tokens
      PROVE  rc'[j] = user'[j] + HeldBy(j, tok') + HeldBy(j, unlink') + LinksTo(j)'
  <2>1. HeldBy(j, unlink') = HeldBy(j, unlink) - B(Nil = j) + B(k = j)
    BY <1>2, <1>3, UnlinkMoves
  <2>2. rc'[j] = rc[j] + B(k = j) /\ user'[j] = user[j] /\ B(k = j) \in Nat /\ B(Nil = j) = 0
    BY <1>4, <1>5, Names, TokenCount DEF B, Objects
  <2>3. LinksTo(j)' = LinksTo(j)
    BY <1>1 DEF LinksTo
  <2> QED
    BY <1>1, <2>1, <2>2, <2>3, TokenCount
<1>11. ValueOwned'
  BY <1>1 DEF FInv, ValueOwned
<1> QED
  BY <1>6, <1>7, <1>8, <1>9, <1>10, <1>11 DEF FInv, Counted

(* The program drops one of its references to a future. *)
LEMMA DropFutureKeeps ==
  ASSUME FInv, NEW f \in Futs, DropFuture(f)
  PROVE  FInv'
<1>1. /\ user[f] > 0 /\ user' = Plus(user, f, -1) /\ ReleaseFuture(f)
      /\ UNCHANGED <<cancelled, assoc, pc, fut, tok, unlink, woken, batch, own>>
  BY DEF DropFuture, token
<1>2. user' \in [Objects -> Nat] /\ \A x \in Objects : user'[x] = user[x] - B(f = x)
  <2>1. user \in [Objects -> Nat] /\ f \in Objects /\ user[f] + (-1) >= 0
    BY <1>1 DEF FInv, TypeOK, Objects
  <2> QED
    BY <1>1, <2>1, PlusAt DEF B
<1>3. rc[f] > 0
  BY <1>1, FutureCount
<1>4. /\ rc' \in [Objects -> Nat] /\ \A x \in Objects : rc'[x] = rc[x] - B(f = x)
      /\ done' \in Seq(Waiters) /\ waiters' \in [Futs -> Seq(Waiters)]
      /\ managed' \in [Futs -> BOOLEAN] /\ vrc' \in Int /\ ValueOwned'
      /\ \A g \in Futs : managed'[g] => managed[g]
      /\ UNCHANGED <<status, link, queue>>
  BY <1>1, <1>3, ReleaseMoves
<1>5. TypeOK'
  BY <1>1, <1>2, <1>4 DEF FInv, TypeOK
<1>6. \A u \in Threads : Locals(u)'
  BY <1>1, <1>4 DEF FInv, Locals
<1>7. \A g \in Futs : Linked(g)'
  BY <1>1, <1>4, LinkedStays
<1>8. \A g \in Futs : rc'[g] = user'[g] + HeldBy(g, fut') + InLists(g)' + InBatches(g)'
  <2>1. ASSUME NEW g \in Futs PROVE user'[g] \in Int /\ rc'[g] = user'[g] + (rc[g] - user[g])
    <3>1. rc'[g] = rc[g] - B(f = g) /\ user'[g] = user[g] - B(f = g) /\ B(f = g) \in Nat
      BY <1>2, <1>4 DEF Objects, B
    <3> QED
      BY <3>1, FutureCount
  <2> QED
    BY <1>1, <2>1, SameFutures
<1>9. \A k \in Tokens : rc'[k] = user'[k] + HeldBy(k, tok') + HeldBy(k, unlink') + LinksTo(k)'
  <2>1. ASSUME NEW k \in Tokens PROVE user'[k] \in Int /\ rc'[k] = user'[k] + (rc[k] - user[k])
    <3>1. rc'[k] = rc[k] - B(f = k) /\ user'[k] = user[k] - B(f = k) /\ B(f = k) \in Nat
      BY <1>2, <1>4 DEF Objects, B
    <3> QED
      BY <3>1, TokenCount
  <2> QED
    BY <1>1, <1>4, <2>1, SameTokens
<1> QED
  BY <1>4, <1>5, <1>6, <1>7, <1>8, <1>9 DEF FInv, Counted

(* ... or to a token. *)
LEMMA DropTokenKeeps ==
  ASSUME FInv, NEW k \in Tokens, DropToken(k)
  PROVE  FInv'
<1>1. /\ user[k] > 0 /\ user' = Plus(user, k, -1) /\ rc' = Plus(rc, k, -1)
      /\ UNCHANGED <<status, waiters, link, managed, vrc, cancelled, assoc, queue, done, pc, fut,
           tok,
                     unlink, woken, batch, own>>
  BY DEF DropToken, future, token, exec
<1>2. user' \in [Objects -> Nat] /\ \A x \in Objects : user'[x] = user[x] - B(k = x)
  <2>1. user \in [Objects -> Nat] /\ k \in Objects /\ user[k] + (-1) >= 0
    BY <1>1 DEF FInv, TypeOK, Objects
  <2> QED
    BY <1>1, <2>1, PlusAt DEF B
<1>3. rc' \in [Objects -> Nat] /\ \A x \in Objects : rc'[x] = rc[x] - B(k = x)
  <2>1. rc \in [Objects -> Nat] /\ k \in Objects
    BY DEF FInv, TypeOK, Objects
  <2>2. rc[k] + (-1) >= 0
    BY <1>1, TokenCount
  <2> QED
    BY <1>1, <2>1, <2>2, PlusAt DEF B
<1>4. TypeOK'
  BY <1>1, <1>2, <1>3 DEF FInv, TypeOK
<1>5. (\A u \in Threads : Locals(u)') /\ ValueOwned'
  BY <1>1 DEF FInv, Locals, ValueOwned
<1>6. \A g \in Futs : Linked(g)'
  BY <1>1, LinkedStays
<1>7. \A g \in Futs : rc'[g] = user'[g] + HeldBy(g, fut') + InLists(g)' + InBatches(g)'
  <2>1. \A g \in Futs : user'[g] \in Int /\ rc'[g] = user'[g] + (rc[g] - user[g])
    BY <1>2, <1>3, FutureCount DEF Objects, B
  <2> QED
    BY <1>1, <2>1, SameFutures
<1>8. \A j \in Tokens : rc'[j] = user'[j] + HeldBy(j, tok') + HeldBy(j, unlink') + LinksTo(j)'
  <2>1. \A j \in Tokens : user'[j] \in Int /\ rc'[j] = user'[j] + (rc[j] - user[j])
    BY <1>2, <1>3, TokenCount DEF Objects, B
  <2> QED
    BY <1>1, <2>1, SameTokens
<1> QED
  BY <1>4, <1>5, <1>6, <1>7, <1>8 DEF FInv, Counted

(* A closure that is registered, or taken off the executor's queue. *)
LEMMA WaitersKeep ==
  ASSUME FInv, (\E f \in Futs, w \in Waiters : OnReady(f, w)) \/ RunOne \/ UNCHANGED vars
  PROVE  FInv'
<1>1. UNCHANGED <<status, link, managed, vrc, cancelled, assoc, rc, user, pc, fut, tok, unlink,
        woken, batch, own>>
  BY DEF OnReady, RunOne, vars, future, token, counts
<1>2. waiters' \in [Futs -> Seq(Waiters)] /\ queue' \in Seq(Waiters) /\ done' \in Seq(Waiters)
  <2>0. waiters \in [Futs -> Seq(Waiters)] /\ queue \in Seq(Waiters) /\ done \in Seq(Waiters)
    BY DEF FInv, TypeOK
  <2>1. ASSUME NEW f \in Futs, NEW w \in Waiters, OnReady(f, w)
        PROVE  waiters' \in [Futs -> Seq(Waiters)] /\ queue' \in Seq(Waiters)
                 /\ done' \in Seq(Waiters)
    <3>1. Append(waiters[f], w) \in Seq(Waiters) /\ Append(queue, w) \in Seq(Waiters)
      BY <2>0
    <3>2. \/ waiters' = [waiters EXCEPT ![f] = Append(waiters[f], w)] /\ queue' = queue
          \/ waiters' = waiters /\ queue' = Append(queue, w)
      BY <2>1 DEF OnReady
    <3>3. done' = done
      BY <2>1 DEF OnReady
    <3> QED
      BY <2>0, <3>1, <3>2, <3>3
  <2>2. CASE RunOne
    <3>1. Head(queue) \in Waiters /\ Tail(queue) \in Seq(Waiters)
      BY <2>0, <2>2 DEF RunOne
    <3>2. queue' = Tail(queue) /\ done' = Append(done, Head(queue)) /\ waiters' = waiters
      BY <2>2 DEF RunOne, future
    <3> QED
      BY <2>0, <3>1, <3>2
  <2>3. CASE UNCHANGED vars
    BY <2>0, <2>3 DEF vars
  <2> QED
    BY <2>1, <2>2, <2>3
<1>3. TypeOK'
  BY <1>1, <1>2 DEF FInv, TypeOK
<1>4. (\A u \in Threads : Locals(u)') /\ ValueOwned'
  BY <1>1 DEF FInv, Locals, ValueOwned
<1>5. \A g \in Futs : Linked(g)'
  BY <1>1, LinkedStays
<1>6. Counted'
  BY <1>1 DEF FInv, Counted, InLists, InBatches, LinksTo
<1> QED
  BY <1>3, <1>4, <1>5, <1>6 DEF FInv

-----------------------------------------------------------------------------
LEMMA FuturesInit == Init => FInv
<1> SUFFICES ASSUME Init PROVE FInv
  OBVIOUS
<1> USE FuturesAssumption DEF FuturesAssumption
<1>1. TypeOK
  BY DEF Init, TypeOK, Objects
<1>2. (\A t \in Threads : Locals(t)) /\ (\A f \in Futs : Linked(f))
  BY DEF Init, Locals, Linked, InSettle
<1>3. ValueOwned
  <2>1. {f \in Futs : managed[f]} = {} /\ vrc = 0
    BY DEF Init
  <2> QED
    BY <2>1, FS_EmptySet DEF ValueOwned
<1>4. Counted
  <2>1. /\ \A f \in Futs : {t \in Threads : fut[t] = f} = {}
             /\ {k \in Tokens : assoc[k][f] > 0} = {}
                           /\ {t \in Threads : batch[t][f] > 0} = {}
        /\ \A k \in Tokens : {t \in Threads : tok[t] = k} = {}
             /\ {t \in Threads : unlink[t] = k} = {}
                             /\ {f \in Futs : link[f] = k} = {}
    BY DEF Init
  <2>2. Cardinality({}) = 0
    BY FS_EmptySet
  <2>3. \A x \in Objects : rc[x] = user[x] /\ rc[x] \in Nat
    BY DEF Init, Objects
  <2>4. /\ \A f \in Futs : HeldBy(f, fut) = 0 /\ InLists(f) = 0 /\ InBatches(f) = 0
        /\ \A k \in Tokens : HeldBy(k, tok) = 0 /\ HeldBy(k, unlink) = 0 /\ LinksTo(k) = 0
    BY <2>1, <2>2 DEF HeldBy, InLists, InBatches, LinksTo
  <2> QED
    BY <2>3, <2>4 DEF Counted, Objects
<1> QED
  BY <1>1, <1>2, <1>3, <1>4 DEF FInv

\* FInv is inductive.
LEMMA FuturesNext == FInv /\ [Next]_vars => FInv'
<1> SUFFICES ASSUME FInv, [Next]_vars PROVE FInv'
  OBVIOUS
<1>1. ASSUME NEW t \in Threads, Call(t) PROVE FInv'
  BY <1>1, CompleteKeeps, CancelTokenKeeps, AssociateKeeps, AssociateLateKeeps DEF Call
<1>2. ASSUME NEW t \in Threads, Step(t) PROVE FInv'
  BY <1>2, DeregisterKeeps, ReleaseLinkKeeps, ScheduleKeeps, SettledKeeps, TakeListKeeps,
     CancelReturnsKeeps, AssociateCancelsKeeps, CancelNextKeeps DEF Step
<1> QED
  BY <1>1, <1>2, WaitersKeep, DropFutureKeeps, DropTokenKeeps DEF Next

\* FInv holds in every reachable state.
LEMMA FuturesInvariant == Spec => []FInv
BY FuturesInit, FuturesNext, PTL DEF Spec

(* An entry in a list, or in what a cancellation took, is a reference. *)
LEMMA EntriesCount ==
  ASSUME NEW f \in Futs, (\E k \in Tokens : assoc[k][f] = 1) \/ (\E t \in Threads : batch[t][f] = 1)
  PROVE  InLists(f) + InBatches(f) > 0
<1> DEFINE P == {k \in Tokens : assoc[k][f] > 0}
           Q == {t \in Threads : batch[t][f] > 0}
<1>1. P # {} \/ Q # {}
  OBVIOUS
<1>2. /\ IsFiniteSet(P) /\ Cardinality(P) \in Nat
      /\ IsFiniteSet(Q) /\ Cardinality(Q) \in Nat
  <2>1. P \in SUBSET Tokens /\ Q \in SUBSET Threads
    OBVIOUS
  <2> QED
    BY <2>1, FuturesAssumption, FS_Subset, FS_CardinalityType DEF FuturesAssumption
<1>3. Cardinality(P) # 0 \/ Cardinality(Q) # 0
  BY <1>1, <1>2, FS_EmptySet
<1> QED
  BY <1>2, <1>3 DEF InLists, InBatches

(* The types of the runtime's and the threads' state, for every number of  *)
(* threads and of handles: no count of a future or of a token underflows.  *)
THEOREM FuturesTypeCorrect == Spec => []TypeOK
<1>1. FInv => TypeOK
  BY DEF FInv
<1> QED
  BY <1>1, FuturesInvariant, PTL

(* The counts of set_future_status, ori_task_associate, ori_task_cancel    *)
(* and deregister_future_from_token are exact in every interleaving: no    *)
(* future or token is freed while a list, a link or a call refers to it,   *)
(* and none is kept when nobody does.                                      *)
THEOREM FutureCountsAreExact == Spec => []RefCountExact
<1>1. FInv => RefCountExact
  <2> SUFFICES ASSUME FInv PROVE RefCountExact
    OBVIOUS
  <2>1. ASSUME NEW f \in Futs, link[f] # Nil PROVE rc[f] # 0
    <3>1. Linked(f)
      BY DEF FInv
    <3>2. InLists(f) + InBatches(f) > 0
      BY <2>1, <3>1, EntriesCount DEF Linked
    <3> QED
      BY <3>2, FutureCount
  <2>2. Counted
    BY DEF FInv
  <2> QED
    BY <2>1, <2>2 DEF RefCountExact, Counted, LinksTo
<1> QED
  BY <1>1, FuturesInvariant, PTL

(* A managed result has exactly one reference while a future holds it,     *)
(* whoever wins the race to settle, and none once the future is freed.     *)
THEOREM ResultsAreOwned == Spec => []ValueOwned
<1>1. FInv => ValueOwned
  BY DEF FInv
<1> QED
  BY <1>1, FuturesInvariant, PTL

(* Which step leaves "dereg": only the first half of the deregistration. *)
LEMMA OnlyDeregister ==
  ASSUME TypeOK, NEW t \in Threads, [Next]_vars, pc[t] = "dereg", pc'[t] = "relToken"
  PROVE  Deregister(t)
<1> USE DEF TypeOK, Goto
<1>1. ASSUME NEW u \in Threads, Call(u) PROVE pc'[t] = pc[t]
  <2>1. ASSUME NEW f \in Futs, NEW s \in Final, NEW m \in BOOLEAN, NEW o, Complete(u, f, s, m, o)
        PROVE  pc'[t] = pc[t]
    BY <2>1 DEF Complete, Settle
  <2>2. ASSUME NEW k \in Tokens, CancelToken(u, k) PROVE pc'[t] = pc[t]
    BY <2>2 DEF CancelToken
  <2>3. ASSUME NEW k \in Tokens, NEW f \in Futs, Associate(u, k, f) \/ AssociateLate(u, k, f)
        PROVE  pc'[t] = pc[t]
    BY <2>3 DEF Associate, AssociateLate, Associable
  <2> QED
    BY <1>1, <2>1, <2>2, <2>3 DEF Call
<1>2. ASSUME NEW u \in Threads, Step(u), ~Deregister(u) PROVE pc'[t] = pc[t]
  <2>1. ASSUME NEW f \in Futs, CancelNext(u, f) PROVE pc'[t] = pc[t]
    BY <2>1 DEF CancelNext, Settle
  <2>2. CASE AssociateCancels(u)
    BY <2>2 DEF AssociateCancels, Settle
  <2>3. CASE ReleaseLink(u) \/ Schedule(u) \/ Settled(u) \/ TakeList(u) \/ CancelReturns(u)
    BY <2>3 DEF ReleaseLink, Schedule, Settled, TakeList, CancelReturns
  <2> QED
    BY <1>2, <2>1, <2>2, <2>3 DEF Step
<1>3. ASSUME NEW u \in Threads, Deregister(u), u # t PROVE pc'[t] = pc[t]
  BY <1>3 DEF Deregister
<1>4. ASSUME NEW f \in Futs, NEW w \in Waiters, OnReady(f, w) PROVE pc'[t] = pc[t]
  BY <1>4 DEF OnReady
<1>5. ASSUME NEW f \in Futs, DropFuture(f) PROVE pc'[t] = pc[t]
  BY <1>5 DEF DropFuture
<1>6. ASSUME NEW k \in Tokens, DropToken(k) PROVE pc'[t] = pc[t]
  BY <1>6 DEF DropToken
<1>7. CASE RunOne \/ UNCHANGED vars
  BY <1>7 DEF RunOne, vars
<1> QED
  BY <1>1, <1>2, <1>3, <1>4, <1>5, <1>6, <1>7 DEF Next

(* The release that deregister_future_from_token makes while it holds the  *)
(* token's mutex is never the last: no destructor runs under that mutex,   *)
(* where one that reached the token again would never get it.              *)
THEOREM DeregisterKeepsAlive == Spec => NoDestructorUnderTokenLock
<1>1. FInv /\ [Next]_vars =>
        [\A t \in Threads, f \in Futs :
           pc[t] = "dereg" /\ pc'[t] = "relToken" /\ fut[t] = f => rc'[f] > 0]_vars
  <2> SUFFICES ASSUME FInv, [Next]_vars, NEW t \in Threads, NEW f \in Futs,
                      pc[t] = "dereg", pc'[t] = "relToken", fut[t] = f
               PROVE  rc'[f] > 0
    OBVIOUS
  <2>1. TypeOK
    BY DEF FInv
  <2>2. Deregister(t)
    BY <2>1, OnlyDeregister
  <2> QED
    BY <2>2, DeregisterKeeps
<1> QED
  BY <1>1, FuturesInvariant, PTL DEF Spec, NoDestructorUnderTokenLock

-----------------------------------------------------------------------------
(* A settle changes only a pending future, a release only what it frees. *)
Keeps(f) == status'[f] = status[f] /\ (managed'[f] = managed[f] \/ rc'[f] = 0)

\* Settling any future leaves those that have settled as they are.
LEMMA SettleKeepsSettled ==
  ASSUME TypeOK, NEW t \in Threads, NEW g \in Futs, NEW s, NEW m, Settle(t, g, s, m),
         NEW f \in Futs, status[f] # "Pending"
  PROVE  status'[f] = status[f] /\ managed'[f] = managed[f]
BY DEF TypeOK, Settle, Unsettled

\* So does releasing one, which may free it.
LEMMA ReleaseKeepsSettled ==
  ASSUME TypeOK, NEW g \in Futs, ReleaseFuture(g), NEW f \in Futs
  PROVE  Keeps(f)
<1>1. rc \in [Objects -> Nat] /\ g \in Objects /\ managed \in [Futs -> BOOLEAN]
  BY DEF TypeOK, Objects
<1>2. CASE rc[g] = 1
  <2>1. /\ rc' = [rc EXCEPT ![g] = 0] /\ managed' = [managed EXCEPT ![g] = FALSE]
             /\ status' = status
    BY <1>2 DEF ReleaseFuture
  <2> QED
    BY <1>1, <2>1 DEF Keeps
<1>3. CASE rc[g] # 1
  BY <1>3 DEF ReleaseFuture, future, Keeps
<1> QED
  BY <1>2, <1>3

(* The first settle wins, whatever races with it: a settled future keeps   *)
(* its status for ever, and its value until it is freed.                   *)
THEOREM FirstSettleWins == Spec => SettledOnce
<1>1. FInv /\ [Next]_vars =>
        [\A f \in Futs : status[f] # "Pending" =>
           /\ status'[f] = status[f]
           /\ managed'[f] = managed[f] \/ rc'[f] = 0]_vars
  <2> SUFFICES ASSUME FInv, Next, NEW f \in Futs, status[f] # "Pending" PROVE Keeps(f)
    BY DEF Keeps
  <2>0. TypeOK
    BY DEF FInv
  <2>1. ASSUME NEW u \in Threads, Call(u) PROVE Keeps(f)
    <3>1. ASSUME NEW g \in Futs, NEW s \in Final, NEW m \in BOOLEAN, NEW o, Complete(u, g, s, m, o)
          PROVE  Keeps(f)
      BY <2>0, <3>1, SettleKeepsSettled DEF Complete, Keeps
    <3>2. ASSUME NEW k \in Tokens, CancelToken(u, k) PROVE Keeps(f)
      BY <3>2 DEF CancelToken, future, Keeps
    <3>3. ASSUME NEW k \in Tokens, NEW g \in Futs, Associate(u, k, g) \/ AssociateLate(u, k, g)
          PROVE  Keeps(f)
      BY <3>3 DEF Associate, AssociateLate, future, Keeps
    <3> QED
      BY <2>1, <3>1, <3>2, <3>3 DEF Call
  <2>2. ASSUME NEW u \in Threads, Step(u) PROVE Keeps(f)
    <3>1. ASSUME NEW g \in Futs, CancelNext(u, g) PROVE Keeps(f)
      BY <2>0, <3>1, SettleKeepsSettled DEF CancelNext, Keeps
    <3>2. CASE AssociateCancels(u)
      <4>1. fut[u] \in Futs
        BY <3>2 DEF FInv, TypeOK, Locals, AssociateCancels
      <4> QED
        BY <2>0, <3>2, <4>1, SettleKeepsSettled DEF AssociateCancels, Keeps
    <3>3. CASE Settled(u)
      <4>1. fut[u] \in Futs
        BY <3>3 DEF FInv, TypeOK, Locals, InSettle, Settled
      <4>2. UNCHANGED future \/ ReleaseFuture(fut[u])
        BY <3>3 DEF Settled
      <4> QED
        BY <2>0, <4>1, <4>2, ReleaseKeepsSettled DEF future, Keeps
    <3>4. CASE Deregister(u) \/ ReleaseLink(u) \/ Schedule(u) \/ TakeList(u) \/ CancelReturns(u)
      BY <3>4 DEF Deregister, ReleaseLink, Schedule, TakeList, CancelReturns, future, Keeps
    <3> QED
      BY <2>2, <3>1, <3>2, <3>3, <3>4 DEF Step
  <2>3. ASSUME NEW g \in Futs, NEW w \in Waiters, OnReady(g, w) PROVE Keeps(f)
    BY <2>3 DEF OnReady, Keeps
  <2>4. ASSUME NEW g \in Futs, DropFuture(g) PROVE Keeps(f)
    BY <2>0, <2>4, ReleaseKeepsSettled DEF DropFuture
  <2>5. ASSUME NEW k \in Tokens, DropToken(k) PROVE Keeps(f)
    BY <2>5 DEF DropToken, future, Keeps
  <2>6. CASE RunOne
    BY <2>6 DEF RunOne, future, Keeps
  <2> QED
    BY <2>1, <2>2, <2>3, <2>4, <2>5, <2>6 DEF Next
<1> QED
  BY <1>1, FuturesInvariant, PTL DEF Spec, SettledOnce

-----------------------------------------------------------------------------
(* Whoever is going to cancel a linked future: a thread that has taken its *)
(* entry off the token's list, or, once the token is cancelled, one that   *)
(* is about to take the list.                                              *)
Reaching(f) ==
  link[f] # Nil =>
    \/ \E t \in Threads : tok[t] = link[f] /\ batch[t][f] > 0
    \/ /\ assoc[link[f]][f] > 0
       /\ cancelled[link[f]] => \E t \in Threads : tok[t] = link[f] /\ pc[t] = "take"

(* A step that leaves the entry where it is, unless it settles the future. *)
LEMMA ReachStays ==
  ASSUME NEW f \in Futs, Reaching(f), link'[f] \in {Nil, link[f]}, cancelled' = cancelled,
         \A u \in Threads : tok[u] # Nil /\ pc[u] = "take" => tok'[u] = tok[u] /\ pc'[u] = "take",
         link'[f] # Nil =>
           /\ \A u \in Threads : tok[u] # Nil /\ batch[u][f] > 0 => tok'[u] = tok[u]
                /\ batch'[u][f] > 0
           /\ \A k \in Tokens : assoc[k][f] > 0 => assoc'[k][f] > 0,
         link[f] \in Tokens \cup {Nil}
  PROVE  Reaching(f)'
<1> SUFFICES ASSUME link'[f] # Nil PROVE Reaching(f)'
  BY DEF Reaching
<1>1. link'[f] = link[f] /\ link[f] # Nil /\ link[f] \in Tokens
  OBVIOUS
<1>2. CASE \E t \in Threads : tok[t] = link[f] /\ batch[t][f] > 0
  BY <1>1, <1>2 DEF Reaching
<1>3. CASE /\ assoc[link[f]][f] > 0
           /\ cancelled[link[f]] => \E t \in Threads : tok[t] = link[f] /\ pc[t] = "take"
  BY <1>1, <1>3 DEF Reaching
<1> QED
  BY <1>1, <1>2, <1>3 DEF Reaching

\* A settle outside the taking of a batch keeps the promise to the cancelled.
LEMMA ReachSettle ==
  ASSUME FInv, NEW t \in Threads, NEW g \in Futs, Settles(t, g), pc[t] # "take",
         UNCHANGED <<cancelled, assoc, tok>>,
         \A u \in Threads, h \in Futs : h # g => batch'[u][h] = batch[u][h],
         NEW f \in Futs, Reaching(f)
  PROVE  Reaching(f)'
<1>1. /\ link'[f] \in {Nil, link[f]} /\ (link'[f] # Nil => f # g)
      /\ \A u \in Threads \ {t} : pc'[u] = pc[u]
  BY DEF Settles
<1>2. link[f] \in Tokens \cup {Nil}
  BY DEF FInv, TypeOK
<1> QED
  BY <1>1, <1>2, ReachStays

\* Reaching is inductive relative to FInv.
LEMMA ReachNext == FInv /\ (\A f \in Futs : Reaching(f))
  /\ [Next]_vars => \A f \in Futs : Reaching(f)'
<1> SUFFICES ASSUME FInv, [Next]_vars, NEW f \in Futs, Reaching(f) PROVE Reaching(f)'
  OBVIOUS
<1>0. TypeOK /\ Linked(f) /\ link[f] \in Tokens \cup {Nil}
  BY DEF FInv, TypeOK
<1>1. ASSUME NEW t \in Threads, NEW g \in Futs, NEW s \in Final, NEW m \in BOOLEAN,
             NEW o \in {"owned", "borrowed"}, Complete(t, g, s, m, o)
      PROVE  Reaching(f)'
  <2>1. Settle(t, g, s, m) /\ pc[t] = "idle" /\ UNCHANGED <<cancelled, assoc, tok, batch>>
    BY <1>1 DEF Complete, token
  <2>2. Settles(t, g)
    BY <2>1, SettleMoves
  <2> QED
    BY <2>1, <2>2, ReachSettle
<1>2. ASSUME NEW t \in Threads, NEW g \in Futs, CancelNext(t, g) PROVE Reaching(f)'
  <2>1. /\ Settle(t, g, "Cancelled", FALSE) /\ pc[t] = "next" /\ UNCHANGED <<cancelled, assoc, tok>>
        /\ batch' = [batch EXCEPT ![t][g] = @ - 1]
    BY <1>2 DEF CancelNext, token
  <2>2. Settles(t, g)
    BY <2>1, SettleMoves DEF Final
  <2>3. \A u \in Threads, h \in Futs : h # g => batch'[u][h] = batch[u][h]
    BY <1>0, <2>1 DEF TypeOK
  <2> QED
    BY <2>1, <2>2, <2>3, ReachSettle
<1>3. ASSUME NEW t \in Threads, AssociateCancels(t) PROVE Reaching(f)'
  <2>1. Settle(t, fut[t], "Cancelled", FALSE) /\ pc[t] = "assocCancel" /\ UNCHANGED <<cancelled,
          assoc, tok, batch>>
    BY <1>3 DEF AssociateCancels, token
  <2>2. PICK g \in Futs : fut[t] = g
    BY <2>1 DEF FInv, TypeOK, Locals
  <2>3. Settles(t, g)
    BY <2>1, <2>2, SettleMoves DEF Final
  <2> QED
    BY <2>1, <2>3, ReachSettle
<1>4. ASSUME NEW t \in Threads, NEW k \in Tokens, CancelToken(t, k) PROVE Reaching(f)'
  <2>1. /\ pc[t] = "idle" /\ cancelled' = [cancelled EXCEPT ![k] = TRUE] /\ tok'[t] = k
             /\ pc'[t] = "take"
        /\ \A u \in Threads \ {t} : tok'[u] = tok[u] /\ pc'[u] = pc[u]
        /\ UNCHANGED <<link, assoc, batch>>
    BY <1>0, <1>4 DEF CancelToken, TypeOK, Goto, future
  <2>2. tok[t] = Nil
    BY <2>1 DEF FInv, Locals, InSettle
  <2>3. SUFFICES ASSUME link[f] # Nil PROVE Reaching(f)'
    BY <2>1 DEF Reaching
  <2>4. CASE \E u \in Threads : tok[u] = link[f] /\ batch[u][f] > 0
    BY <2>1, <2>2, <2>3, <2>4 DEF Reaching
  <2>5. CASE /\ assoc[link[f]][f] > 0
             /\ cancelled[link[f]] => \E u \in Threads : tok[u] = link[f] /\ pc[u] = "take"
    <3>1. CASE link[f] = k
      BY <2>1, <2>5, <3>1 DEF Reaching
    <3>2. CASE link[f] # k
      <4>1. cancelled'[link[f]] = cancelled[link[f]]
        BY <1>0, <2>1, <2>3, <3>2 DEF TypeOK
      <4> QED
        BY <2>1, <2>5, <4>1 DEF Reaching
    <3> QED
      BY <3>1, <3>2
  <2> QED
    BY <2>3, <2>4, <2>5 DEF Reaching
<1>5. ASSUME NEW t \in Threads, TakeList(t) PROVE Reaching(f)'
  <2>0. pc[t] = "take"
    BY <1>5 DEF TakeList
  <2>1. PICK k \in Tokens : tok[t] = k
    BY <2>0 DEF FInv, TypeOK, Locals
  <2>2. /\ batch'[t] = assoc[k] /\ \A u \in Threads \ {t} : batch'[u] = batch[u] /\ pc'[u] = pc[u]
        /\ \A j \in Tokens \ {k} : assoc'[j] = assoc[j]
        /\ UNCHANGED <<link, cancelled, tok>>
    BY <1>0, <1>5, <2>1 DEF TakeList, TypeOK, Goto, future
  <2>3. \A g \in Futs : batch[t][g] = 0
    BY <2>0 DEF FInv, Locals
  <2>4. SUFFICES ASSUME link[f] # Nil PROVE Reaching(f)'
    BY <2>2 DEF Reaching
  <2>5. CASE \E u \in Threads : tok[u] = link[f] /\ batch[u][f] > 0
    BY <2>2, <2>3, <2>4, <2>5 DEF Reaching
  <2>6. CASE /\ assoc[link[f]][f] > 0
             /\ cancelled[link[f]] => \E u \in Threads : tok[u] = link[f] /\ pc[u] = "take"
    <3>1. CASE link[f] = k
      BY <2>1, <2>2, <2>6, <3>1 DEF Reaching
    <3>2. CASE link[f] # k
      BY <1>0, <2>1, <2>2, <2>4, <2>6, <3>2 DEF Reaching
    <3> QED
      BY <3>1, <3>2
  <2> QED
    BY <2>4, <2>5, <2>6 DEF Reaching
<1>6. ASSUME NEW t \in Threads, NEW k \in Tokens, NEW g \in Futs, Associate(t, k, g)
      PROVE  Reaching(f)'
  <2>1. /\ ~cancelled[k] /\ link' = [link EXCEPT ![g] = k]
             /\ assoc' = [assoc EXCEPT ![k][g] = @ + 1]
        /\ UNCHANGED <<cancelled, pc, tok, batch>>
    BY <1>6 DEF Associate, SeesCancelled
  <2>2. CASE f = g
    <3>1. link'[f] = k /\ assoc'[k][f] > 0 /\ ~cancelled'[k]
      BY <1>0, <2>1, <2>2 DEF TypeOK
    <3> QED
      BY <3>1 DEF Reaching
  <2>3. CASE f # g
    <3>1. link'[f] = link[f] /\ \A j \in Tokens : assoc'[j][f] = assoc[j][f]
      BY <1>0, <2>1, <2>3 DEF TypeOK
    <3> QED
      BY <1>0, <2>1, <3>1, ReachStays
  <2> QED
    BY <2>2, <2>3
<1>7. ASSUME NEW t \in Threads, NEW k \in Tokens, NEW g \in Futs, AssociateLate(t, k, g)
      PROVE  Reaching(f)'
  <2>1. pc[t] = "idle" /\ (\A u \in Threads \ {t} : pc'[u] = pc[u]) /\ UNCHANGED <<link,
          cancelled, assoc, tok, batch>>
    BY <1>0, <1>7 DEF AssociateLate, Associable, Goto, TypeOK, future, token
  <2> QED
    BY <1>0, <2>1, ReachStays
<1>8. ASSUME NEW t \in Threads, Deregister(t) PROVE Reaching(f)'
  <2>1. /\ pc[t] = "dereg" /\ (\A u \in Threads \ {t} : pc'[u] = pc[u]) /\ UNCHANGED <<link,
             cancelled, tok, batch>>
        /\ \A j \in Tokens, h \in Futs : h # fut[t] => assoc'[j][h] = assoc[j][h]
    BY <1>0, <1>8 DEF Deregister, Goto, TypeOK, future
  <2>2. f = fut[t] => link[f] = Nil
    BY <1>0, <2>1 DEF FInv, Locals, InSettle, Linked
  <2>3. link'[f] = link[f]
    BY <2>1
  <2> QED
    BY <1>0, <2>1, <2>2, <2>3, ReachStays
<1>9. ASSUME NEW t \in Threads, ReleaseLink(t) \/ Schedule(t) \/ Settled(t) PROVE Reaching(f)'
  <2>1. /\ pc[t] # "take" /\ (\A u \in Threads \ {t} : pc'[u] = pc[u])
        /\ UNCHANGED <<link, cancelled, assoc, tok, batch>>
    BY <1>0, <1>9 DEF ReleaseLink, Schedule, Settled, ReleaseFuture, Goto, TypeOK, future, token
  <2> QED
    BY <1>0, <2>1, ReachStays
<1>10. ASSUME NEW t \in Threads, CancelReturns(t) PROVE Reaching(f)'
  <2>1. /\ pc[t] = "next" /\ batch[t][f] = 0 /\ (\A u \in Threads \ {t} : pc'[u] = pc[u]
             /\ tok'[u] = tok[u])
        /\ UNCHANGED <<link, cancelled, assoc, batch>>
    BY <1>0, <1>10 DEF CancelReturns, Goto, TypeOK, future, token
  <2> QED
    BY <1>0, <2>1, ReachStays
<1>11. ASSUME \/ \E g \in Futs, w \in Waiters : OnReady(g, w)
              \/ RunOne \/ (\E g \in Futs : DropFuture(g)) \/ (\E k \in Tokens : DropToken(k))
              \/ UNCHANGED vars
       PROVE  Reaching(f)'
  <2>1. UNCHANGED <<link, cancelled, assoc, pc, tok, batch>>
    BY <1>11 DEF OnReady, RunOne, DropFuture, DropToken, ReleaseFuture, future, token, vars
  <2> QED
    BY <1>0, <2>1, ReachStays
<1> QED
  BY <1>1, <1>2, <1>3, <1>4, <1>5, <1>6, <1>7, <1>8, <1>9, <1>10, <1>11 DEF Next, Call, Step

(* A future that is linked to a cancelled token does not escape: a thread  *)
(* inside ori_task_cancel still has it to cancel, however associations and *)
(* any number of cancellations of the token interleave.                    *)
THEOREM CancellationReaches == Spec => []CancelReaches
<1>1. Init => \A f \in Futs : Reaching(f)
  BY DEF Init, Reaching
<1>2. (\A f \in Futs : Reaching(f)) => CancelReaches
  BY Names DEF Reaching, CancelReaches
<1>3. FInv /\ (\A f \in Futs : Reaching(f)) /\ [Next]_vars => (\A f \in Futs : Reaching(f))'
  BY ReachNext
<1> QED
  BY <1>1, <1>2, <1>3, FuturesInvariant, PTL DEF Spec

-----------------------------------------------------------------------------
(* Closures.  S[h] is the sequence of those that home h keeps. *)
Distinct(S, H) ==
  \A x, y \in H : \A i \in DOMAIN S[x], j \in DOMAIN S[y] : S[x][i] = S[y][j] => x = y /\ i = j

(* The first closure of x goes to the end of y. *)
LEMMA HeadMoves ==
  ASSUME NEW H, NEW S \in [H -> Seq(Waiters)], NEW T \in [H -> Seq(Waiters)], NEW x \in H,
         NEW y \in H,
         x # y, Distinct(S, H), S[x] # <<>>, T[x] = Tail(S[x]), T[y] = Append(S[y], Head(S[x])),
         \A z \in H \ {x, y} : T[z] = S[z]
  PROVE  Distinct(T, H)
<1>1. \A i \in DOMAIN T[x] : i \in Nat /\ i > 0 /\ i + 1 \in DOMAIN S[x] /\ T[x][i] = S[x][i + 1]
  OBVIOUS
<1>2. /\ 1 \in DOMAIN S[x]
      /\ \A i \in DOMAIN T[y] : \/ i \in DOMAIN S[y] /\ T[y][i] = S[y][i] /\ i <= Len(S[y])
                                \/ i = Len(S[y]) + 1 /\ T[y][i] = S[x][1]
  OBVIOUS
<1>3. ASSUME NEW a \in H, NEW i \in DOMAIN T[a]
      PROVE  \E a2 \in H, i2 \in Nat : /\ i2 \in DOMAIN S[a2] /\ S[a2][i2] = T[a][i] /\ i \in Nat
                                       /\ \/ a = x /\ a2 = x /\ i2 = i + 1 /\ i > 0
                                          \/ a = y /\ a2 = x /\ i2 = 1 /\ i = Len(S[y]) + 1
                                          \/ a # x /\ a2 = a /\ i2 = i /\ i <= Len(S[a])
  <2>1. CASE a = x
    BY <1>1, <2>1
  <2>2. CASE a = y
    BY <1>2, <2>2
  <2>3. CASE a # x /\ a # y
    <3>1. T[a] = S[a]
      BY <2>3
    <3>2. S[a] \in Seq(Waiters) /\ i \in DOMAIN S[a]
      BY <3>1
    <3>3. i \in Nat /\ i <= Len(S[a])
      BY <3>2
    <3> QED
      BY <2>3, <3>1, <3>2, <3>3
  <2> QED
    BY <2>1, <2>2, <2>3
<1> SUFFICES ASSUME NEW a \in H, NEW b \in H, NEW i \in DOMAIN T[a], NEW j \in DOMAIN T[b],
                      T[a][i] = T[b][j]
             PROVE  a = b /\ i = j
  BY DEF Distinct
<1>4. PICK a2 \in H, i2 \in Nat : /\ i2 \in DOMAIN S[a2] /\ S[a2][i2] = T[a][i] /\ i \in Nat
                                  /\ \/ a = x /\ a2 = x /\ i2 = i + 1 /\ i > 0
                                     \/ a = y /\ a2 = x /\ i2 = 1 /\ i = Len(S[y]) + 1
                                     \/ a # x /\ a2 = a /\ i2 = i /\ i <= Len(S[a])
  BY <1>3
<1>5. PICK b2 \in H, j2 \in Nat : /\ j2 \in DOMAIN S[b2] /\ S[b2][j2] = T[b][j] /\ j \in Nat
                                  /\ \/ b = x /\ b2 = x /\ j2 = j + 1 /\ j > 0
                                     \/ b = y /\ b2 = x /\ j2 = 1 /\ j = Len(S[y]) + 1
                                     \/ b # x /\ b2 = b /\ j2 = j /\ j <= Len(S[b])
  BY <1>3
<1>6. a2 = b2 /\ i2 = j2
  BY <1>4, <1>5 DEF Distinct
<1> QED
  BY <1>4, <1>5, <1>6

(* All of x goes to the end of y. *)
LEMMA AllMove ==
  ASSUME NEW H, NEW S \in [H -> Seq(Waiters)], NEW T \in [H -> Seq(Waiters)], NEW x \in H,
         NEW y \in H,
         x # y, Distinct(S, H), T[x] = <<>>, T[y] = S[y] \o S[x], \A z \in H \ {x, y} : T[z] = S[z]
  PROVE  Distinct(T, H)
<1>1. \A i : i \notin DOMAIN T[x]
  OBVIOUS
<1>2. \A i \in DOMAIN T[y] : \/ i \in DOMAIN S[y] /\ T[y][i] = S[y][i]
                             \/ i - Len(S[y]) \in DOMAIN S[x] /\ T[y][i] = S[x][i - Len(S[y])]
  OBVIOUS
<1>3. ASSUME NEW a \in H, NEW i \in DOMAIN T[a]
      PROVE  \E a2 \in H, i2 \in Nat : /\ i2 \in DOMAIN S[a2] /\ S[a2][i2] = T[a][i] /\ i \in Nat
                                       /\ \/ a = y /\ a2 = x /\ i = i2 + Len(S[y])
                                          \/ a # x /\ a2 = a /\ i2 = i
  <2>1. CASE a = y
    <3>0. i \in Nat /\ Len(S[y]) \in Nat /\ S[x] \in Seq(Waiters)
      BY <2>1
    <3>1. CASE i \in DOMAIN S[y] /\ T[y][i] = S[y][i]
      BY <2>1, <3>0, <3>1
    <3>2. CASE i - Len(S[y]) \in DOMAIN S[x] /\ T[y][i] = S[x][i - Len(S[y])]
      <4>0. DOMAIN S[x] \subseteq Nat
        BY <3>0
      <4>1. PICK i2 \in Nat : i2 = i - Len(S[y])
        BY <3>2, <4>0
      <4>2. i = i2 + Len(S[y])
        BY <3>0, <4>1
      <4> QED
        BY <2>1, <3>0, <3>2, <4>1, <4>2
    <3> QED
      BY <1>2, <2>1, <3>1, <3>2
  <2>2. CASE a # x /\ a # y
    <3>1. T[a] = S[a]
      BY <2>2
    <3> QED
      BY <2>2, <3>1
  <2> QED
    BY <1>1, <2>1, <2>2
<1> SUFFICES ASSUME NEW a \in H, NEW b \in H, NEW i \in DOMAIN T[a], NEW j \in DOMAIN T[b],
                      T[a][i] = T[b][j]
             PROVE  a = b /\ i = j
  BY DEF Distinct
<1>4. PICK a2 \in H, i2 \in Nat : /\ i2 \in DOMAIN S[a2] /\ S[a2][i2] = T[a][i] /\ i \in Nat
                                  /\ \/ a = y /\ a2 = x /\ i = i2 + Len(S[y])
                                     \/ a # x /\ a2 = a /\ i2 = i
  BY <1>3
<1>5. PICK b2 \in H, j2 \in Nat : /\ j2 \in DOMAIN S[b2] /\ S[b2][j2] = T[b][j] /\ j \in Nat
                                  /\ \/ b = y /\ b2 = x /\ j = j2 + Len(S[y])
                                     \/ b # x /\ b2 = b /\ j2 = j
  BY <1>3
<1>6. a2 = b2 /\ i2 = j2
  BY <1>4, <1>5 DEF Distinct
<1> QED
  BY <1>4, <1>5, <1>6

(* A closure nobody keeps is put at the end of y. *)
LEMMA FreshAppended ==
  ASSUME NEW H, NEW S \in [H -> Seq(Waiters)], NEW T \in [H -> Seq(Waiters)], NEW y \in H,
         NEW w \in Waiters,
         Distinct(S, H), \A z \in H : ~InSeq(w, S[z]),
         T[y] = Append(S[y], w), \A z \in H \ {y} : T[z] = S[z]
  PROVE  Distinct(T, H)
<1>0. \A z \in H : \A i \in DOMAIN S[z] : S[z][i] # w
  BY DEF InSeq
<1>1. \A i \in DOMAIN T[y] : \/ i \in DOMAIN S[y] /\ T[y][i] = S[y][i]
                             \/ i = Len(S[y]) + 1 /\ T[y][i] = w
  OBVIOUS
<1>2. \A a \in H : \A i \in DOMAIN T[a] : \/ i \in DOMAIN S[a] /\ T[a][i] = S[a][i]
                                          \/ a = y /\ i = Len(S[y]) + 1 /\ T[a][i] = w
  BY <1>1
<1> SUFFICES ASSUME NEW a \in H, NEW b \in H, NEW i \in DOMAIN T[a], NEW j \in DOMAIN T[b],
                      T[a][i] = T[b][j]
             PROVE  a = b /\ i = j
  BY DEF Distinct
<1>3. CASE i \in DOMAIN S[a] /\ T[a][i] = S[a][i]
  <2>1. T[b][j] # w
    BY <1>0, <1>3
  <2>2. j \in DOMAIN S[b] /\ T[b][j] = S[b][j]
    BY <1>2, <2>1
  <2>3. S[a][i] = S[b][j]
    BY <1>3, <2>2
  <2> QED
    BY <1>3, <2>2, <2>3 DEF Distinct
<1>4. CASE a = y /\ i = Len(S[y]) + 1 /\ T[a][i] = w
  <2>1. ~(j \in DOMAIN S[b] /\ T[b][j] = S[b][j])
    BY <1>0, <1>4
  <2> QED
    BY <1>2, <1>4, <2>1
<1> QED
  BY <1>2, <1>3, <1>4

(* The homes of closures: the futures, the settling threads, the queue of  *)
(* the executor, and the ones that ran or were dropped.                    *)
Homes == ({"fut"} \X Futs) \cup ({"thr"} \X Threads) \cup {<<"que", Nil>>, <<"end", Nil>>}

KeptOf(ws, wk, q, d) ==
  [h \in Homes |-> IF h[1] = "fut" THEN ws[h[2]] ELSE IF h[1] = "thr" THEN wk[h[2]]
                   ELSE IF h[1] = "que" THEN q ELSE d]

Kept == KeptOf(waiters, woken, queue, done)

(* What each home keeps. *)
KeptFacts(K, ws, wk, q, d) ==
  /\ K \in [Homes -> Seq(Waiters)]
  /\ \A f \in Futs : <<"fut", f>> \in Homes /\ K[<<"fut", f>>] = ws[f]
  /\ \A t \in Threads : <<"thr", t>> \in Homes /\ K[<<"thr", t>>] = wk[t]
  /\ <<"que", Nil>> \in Homes /\ K[<<"que", Nil>>] = q
  /\ <<"end", Nil>> \in Homes /\ K[<<"end", Nil>>] = d
  /\ \A h \in Homes : \/ \E f \in Futs : h = <<"fut", f>>
                      \/ \E t \in Threads : h = <<"thr", t>>
                      \/ h = <<"que", Nil>> \/ h = <<"end", Nil>>

\* What each home of waiters holds, for any lists, woken batches, queue and log.
LEMMA KeptAt ==
  ASSUME NEW ws \in [Futs -> Seq(Waiters)], NEW wk \in [Threads -> Seq(Waiters)],
         NEW q \in Seq(Waiters), NEW d \in Seq(Waiters)
  PROVE  KeptFacts(KeptOf(ws, wk, q, d), ws, wk, q, d)
BY DEF KeptOf, Homes, KeptFacts

\* The same of the current state.
LEMMA KeptNow ==
  ASSUME TypeOK
  PROVE  KeptFacts(Kept, waiters, woken, queue, done)
<1>1. /\ waiters \in [Futs -> Seq(Waiters)] /\ woken \in [Threads -> Seq(Waiters)]
      /\ queue \in Seq(Waiters) /\ done \in Seq(Waiters)
  BY DEF TypeOK
<1> QED
  BY <1>1, KeptAt DEF Kept

\* The same of the next state.
LEMMA KeptNext ==
  ASSUME TypeOK'
  PROVE  KeptFacts(Kept', waiters', woken', queue', done')
<1>1. /\ waiters' \in [Futs -> Seq(Waiters)] /\ woken' \in [Threads -> Seq(Waiters)]
      /\ queue' \in Seq(Waiters) /\ done' \in Seq(Waiters)
  BY DEF TypeOK
<1> QED
  BY <1>1, KeptAt DEF Kept

(* No closure is kept twice, none by a settled future, and a thread has    *)
(* some to schedule only between its settle and its last push.             *)
Waking == {"dereg", "relToken", "schedule"}

WInv ==
  /\ Distinct(Kept, Homes)
  /\ \A f \in Futs : status[f] # "Pending" => waiters[f] = <<>>
  /\ \A t \in Threads : woken[t] # <<>> => pc[t] \in Waking

(* A step that moves no closure. *)
LEMMA SameWaits ==
  ASSUME WInv, UNCHANGED <<waiters, woken, queue, done, status>>,
         \A t \in Threads : pc[t] \in Waking => pc'[t] \in Waking \/ woken[t] = <<>>
  PROVE  WInv'
<1>1. Kept' = Kept
  BY DEF Kept
<1> QED
  BY <1>1 DEF WInv

\* A settle moves the waiters of its future to the settling thread: homes stay distinct.
LEMMA SettleWaits ==
  ASSUME TypeOK, TypeOK', WInv, NEW t \in Threads, NEW g \in Futs, NEW s \in Final, NEW m,
         Settle(t, g, s, m), pc[t] \notin Waking, UNCHANGED <<queue, done>>
  PROVE  WInv'
<1>0. woken[t] = <<>>
  BY DEF WInv
<1>1. CASE Unsettled(g)
  <2>1. /\ status' = [status EXCEPT ![g] = s] /\ woken' = [woken EXCEPT ![t] = waiters[g]]
        /\ waiters' = [waiters EXCEPT ![g] = <<>>]
        /\ pc' = [pc EXCEPT ![t] = IF link[g] = Nil THEN "schedule" ELSE "dereg"]
    BY <1>1 DEF Settle, Goto
  <2>2. /\ waiters'[g] = <<>> /\ (\A f \in Futs \ {g} : waiters'[f] = waiters[f]
             /\ status'[f] = status[f])
        /\ woken'[t] = waiters[g] /\ (\A u \in Threads \ {t} : woken'[u] = woken[u]
             /\ pc'[u] = pc[u])
        /\ pc'[t] \in Waking
    BY <2>1 DEF TypeOK, Waking
  <2>3. Distinct(Kept', Homes)
    <3> DEFINE x == <<"fut", g>>
               y == <<"thr", t>>
    <3>1. /\ Kept \in [Homes -> Seq(Waiters)] /\ x \in Homes /\ y \in Homes
          /\ Kept[x] = waiters[g] /\ Kept[y] = <<>>
          /\ \A f \in Futs : Kept[<<"fut", f>>] = waiters[f]
          /\ \A u \in Threads : Kept[<<"thr", u>>] = woken[u]
          /\ Kept[<<"que", Nil>>] = queue /\ Kept[<<"end", Nil>>] = done
      BY <1>0, KeptNow DEF KeptFacts
    <3>2. /\ Kept' \in [Homes -> Seq(Waiters)] /\ Kept'[x] = <<>> /\ Kept'[y] = waiters[g]
          /\ \A f \in Futs : Kept'[<<"fut", f>>] = waiters'[f]
          /\ \A u \in Threads : Kept'[<<"thr", u>>] = woken'[u]
          /\ Kept'[<<"que", Nil>>] = queue' /\ Kept'[<<"end", Nil>>] = done'
      BY <2>2, KeptNext DEF KeptFacts
    <3>3. Kept'[y] = Kept[y] \o Kept[x]
      BY <3>1, <3>2 DEF TypeOK
    <3>4. ASSUME NEW z \in Homes \ {x, y} PROVE Kept'[z] = Kept[z]
      <4>1. \/ \E f \in Futs \ {g} : z = <<"fut", f>>
            \/ \E u \in Threads \ {t} : z = <<"thr", u>>
            \/ z = <<"que", Nil>> \/ z = <<"end", Nil>>
        BY DEF Homes
      <4>2. ASSUME NEW f \in Futs \ {g}, z = <<"fut", f>> PROVE Kept'[z] = Kept[z]
        BY <2>2, <3>1, <3>2, <4>2
      <4>3. ASSUME NEW u \in Threads \ {t}, z = <<"thr", u>> PROVE Kept'[z] = Kept[z]
        BY <2>2, <3>1, <3>2, <4>3
      <4> QED
        BY <3>1, <3>2, <4>1, <4>2, <4>3
    <3>5. x # y
      OBVIOUS
    <3>6. Distinct(Kept, Homes)
      BY DEF WInv
    <3> HIDE DEF x, y
    <3> QED
      BY <3>1, <3>2, <3>3, <3>4, <3>5, <3>6, AllMove
  <2> QED
    BY <2>2, <2>3 DEF WInv
<1>2. CASE ~Unsettled(g)
  <2>1. /\ UNCHANGED <<status, waiters>> /\ woken' = [woken EXCEPT ![t] = <<>>]
             /\ pc' = [pc EXCEPT ![t] = "settled"]
    BY <1>2 DEF Settle, Goto
  <2>2. woken' = woken
    BY <1>0, <2>1 DEF TypeOK
  <2>3. \A u \in Threads : pc[u] \in Waking => pc'[u] \in Waking
    BY <2>1 DEF TypeOK
  <2> QED
    BY <2>1, <2>2, <2>3, SameWaits
<1> QED
  BY <1>1, <1>2

(* The destructor of a future drops its closures. *)
LEMMA ReleaseWaits ==
  ASSUME TypeOK, TypeOK', WInv, NEW g \in Futs, ReleaseFuture(g), UNCHANGED woken,
         \A t \in Threads : pc[t] \in Waking => pc'[t] \in Waking
  PROVE  WInv'
<1>1. CASE rc[g] = 1
  <2>1. done' = done \o waiters[g] /\ waiters' = [waiters EXCEPT ![g] = <<>>]
          /\ UNCHANGED <<status, queue>>
    BY <1>1 DEF ReleaseFuture
  <2>2. waiters'[g] = <<>> /\ \A f \in Futs \ {g} : waiters'[f] = waiters[f]
    BY <2>1 DEF TypeOK
  <2>3. Distinct(Kept', Homes)
    <3> DEFINE x == <<"fut", g>>
               y == <<"end", Nil>>
    <3>1. /\ Kept \in [Homes -> Seq(Waiters)] /\ x \in Homes /\ y \in Homes
          /\ Kept[x] = waiters[g] /\ Kept[y] = done
          /\ \A f \in Futs : Kept[<<"fut", f>>] = waiters[f]
          /\ \A u \in Threads : Kept[<<"thr", u>>] = woken[u]
          /\ Kept[<<"que", Nil>>] = queue
      BY KeptNow DEF KeptFacts
    <3>2. /\ Kept' \in [Homes -> Seq(Waiters)] /\ Kept'[x] = <<>> /\ Kept'[y] = done'
          /\ \A f \in Futs : Kept'[<<"fut", f>>] = waiters'[f]
          /\ \A u \in Threads : Kept'[<<"thr", u>>] = woken'[u]
          /\ Kept'[<<"que", Nil>>] = queue'
      BY <2>2, KeptNext DEF KeptFacts
    <3>3. Kept'[y] = Kept[y] \o Kept[x]
      BY <2>1, <3>1, <3>2
    <3>4. ASSUME NEW z \in Homes \ {x, y} PROVE Kept'[z] = Kept[z]
      <4>1. \/ \E f \in Futs \ {g} : z = <<"fut", f>>
            \/ \E u \in Threads : z = <<"thr", u>>
            \/ z = <<"que", Nil>>
        BY DEF Homes
      <4>2. ASSUME NEW f \in Futs \ {g}, z = <<"fut", f>> PROVE Kept'[z] = Kept[z]
        BY <2>2, <3>1, <3>2, <4>2
      <4>3. ASSUME NEW u \in Threads, z = <<"thr", u>> PROVE Kept'[z] = Kept[z]
        BY <3>1, <3>2, <4>3
      <4> QED
        BY <2>1, <3>1, <3>2, <4>1, <4>2, <4>3
    <3>5. x # y
      OBVIOUS
    <3>6. Distinct(Kept, Homes)
      BY DEF WInv
    <3> HIDE DEF x, y
    <3> QED
      BY <3>1, <3>2, <3>3, <3>4, <3>5, <3>6, AllMove
  <2> QED
    BY <2>1, <2>2, <2>3 DEF WInv
<1>2. CASE rc[g] # 1
  <2>1. UNCHANGED <<waiters, woken, queue, done, status>>
    BY <1>2 DEF ReleaseFuture, future, exec
  <2> QED
    BY <2>1, SameWaits
<1> QED
  BY <1>1, <1>2

(* schedule_future_waiters hands its closures to the executor in turn. *)
LEMMA ScheduleWaits ==
  ASSUME TypeOK, TypeOK', WInv, NEW t \in Threads, Schedule(t)
  PROVE  WInv'
<1>0. UNCHANGED <<status, waiters, done>> /\ pc[t] = "schedule"
  BY DEF Schedule, future
<1>1. CASE woken[t] = <<>>
  <2>1. UNCHANGED <<queue, woken>> /\ pc' = [pc EXCEPT ![t] = "settled"]
    BY <1>1 DEF Schedule, Goto
  <2>2. \A u \in Threads : pc[u] \in Waking => pc'[u] \in Waking \/ woken[u] = <<>>
    BY <1>1, <2>1 DEF TypeOK
  <2> QED
    BY <1>0, <2>1, <2>2, SameWaits
<1>2. CASE woken[t] # <<>>
  <2>1. queue' = Append(queue, Head(woken[t]))
          /\ woken' = [woken EXCEPT ![t] = Tail(woken[t])] /\ pc' = pc
    BY <1>2 DEF Schedule
  <2>2. woken'[t] = Tail(woken[t]) /\ \A u \in Threads \ {t} : woken'[u] = woken[u]
    BY <2>1 DEF TypeOK
  <2>3. Distinct(Kept', Homes)
    <3> DEFINE x == <<"thr", t>>
               y == <<"que", Nil>>
    <3>1. /\ Kept \in [Homes -> Seq(Waiters)] /\ x \in Homes /\ y \in Homes
          /\ Kept[x] = woken[t] /\ Kept[y] = queue
          /\ \A f \in Futs : Kept[<<"fut", f>>] = waiters[f]
          /\ \A u \in Threads : Kept[<<"thr", u>>] = woken[u]
          /\ Kept[<<"end", Nil>>] = done
      BY KeptNow DEF KeptFacts
    <3>2. /\ Kept' \in [Homes -> Seq(Waiters)] /\ Kept'[x] = woken'[t] /\ Kept'[y] = queue'
          /\ \A f \in Futs : Kept'[<<"fut", f>>] = waiters'[f]
          /\ \A u \in Threads : Kept'[<<"thr", u>>] = woken'[u]
          /\ Kept'[<<"end", Nil>>] = done'
      BY KeptNext DEF KeptFacts
    <3>3. Kept[x] # <<>> /\ Kept'[x] = Tail(Kept[x]) /\ Kept'[y] = Append(Kept[y], Head(Kept[x]))
      BY <1>2, <2>1, <2>2, <3>1, <3>2
    <3>4. ASSUME NEW z \in Homes \ {x, y} PROVE Kept'[z] = Kept[z]
      <4>1. \/ \E f \in Futs : z = <<"fut", f>>
            \/ \E u \in Threads \ {t} : z = <<"thr", u>>
            \/ z = <<"end", Nil>>
        BY DEF Homes
      <4> QED
        BY <1>0, <2>2, <3>1, <3>2, <4>1
    <3>5. x # y
      OBVIOUS
    <3>6. Distinct(Kept, Homes)
      BY DEF WInv
    <3> HIDE DEF x, y
    <3> QED
      BY <3>1, <3>2, <3>3, <3>4, <3>5, <3>6, HeadMoves
  <2> QED
    BY <1>0, <2>1, <2>2, <2>3 DEF WInv, Waking
<1> QED
  BY <1>1, <1>2

(* The executor runs the first closure of its queue. *)
LEMMA RunWaits ==
  ASSUME TypeOK, TypeOK', WInv, RunOne
  PROVE  WInv'
<1>1. /\ UNCHANGED <<status, waiters, woken, pc>> /\ queue # <<>>
      /\ queue' = Tail(queue) /\ done' = Append(done, Head(queue))
  BY DEF RunOne, future
<1>2. Distinct(Kept', Homes)
  <2> DEFINE x == <<"que", Nil>>
             y == <<"end", Nil>>
  <2>1. /\ Kept \in [Homes -> Seq(Waiters)] /\ x \in Homes /\ y \in Homes
        /\ Kept[x] = queue /\ Kept[y] = done
        /\ \A f \in Futs : Kept[<<"fut", f>>] = waiters[f]
        /\ \A u \in Threads : Kept[<<"thr", u>>] = woken[u]
    BY KeptNow DEF KeptFacts
  <2>2. /\ Kept' \in [Homes -> Seq(Waiters)] /\ Kept'[x] = queue' /\ Kept'[y] = done'
        /\ \A f \in Futs : Kept'[<<"fut", f>>] = waiters'[f]
        /\ \A u \in Threads : Kept'[<<"thr", u>>] = woken'[u]
    BY KeptNext DEF KeptFacts
  <2>3. Kept[x] # <<>> /\ Kept'[x] = Tail(Kept[x]) /\ Kept'[y] = Append(Kept[y], Head(Kept[x]))
    BY <1>1, <2>1, <2>2
  <2>4. ASSUME NEW z \in Homes \ {x, y} PROVE Kept'[z] = Kept[z]
    <3>1. (\E f \in Futs : z = <<"fut", f>>) \/ (\E u \in Threads : z = <<"thr", u>>)
      BY DEF Homes
    <3> QED
      BY <1>1, <2>1, <2>2, <3>1
  <2>5. x # y
    OBVIOUS
  <2>6. Distinct(Kept, Homes)
    BY DEF WInv
  <2> HIDE DEF x, y
  <2> QED
    BY <2>1, <2>2, <2>3, <2>4, <2>5, <2>6, HeadMoves
<1> QED
  BY <1>1, <1>2 DEF WInv

(* ori_future_on_ready keeps a closure with a pending future, and hands it *)
(* to the executor otherwise.                                              *)
LEMMA OnReadyWaits ==
  ASSUME TypeOK, TypeOK', WInv, NEW g \in Futs, NEW w \in Waiters, OnReady(g, w)
  PROVE  WInv'
<1>1. UNCHANGED <<status, woken, done, pc>> /\ Fresh(w)
  BY DEF OnReady
<1>2. /\ Kept \in [Homes -> Seq(Waiters)]
      /\ \A f \in Futs : <<"fut", f>> \in Homes /\ Kept[<<"fut", f>>] = waiters[f]
      /\ \A u \in Threads : Kept[<<"thr", u>>] = woken[u]
      /\ <<"que", Nil>> \in Homes /\ Kept[<<"que", Nil>>] = queue /\ Kept[<<"end", Nil>>] = done
      /\ \A h \in Homes : \/ \E f \in Futs : h = <<"fut", f>>
                          \/ \E t \in Threads : h = <<"thr", t>>
                          \/ h = <<"que", Nil>> \/ h = <<"end", Nil>>
  BY KeptNow DEF KeptFacts
<1>3. /\ Kept' \in [Homes -> Seq(Waiters)]
      /\ \A f \in Futs : Kept'[<<"fut", f>>] = waiters'[f]
      /\ \A u \in Threads : Kept'[<<"thr", u>>] = woken'[u]
      /\ Kept'[<<"que", Nil>>] = queue' /\ Kept'[<<"end", Nil>>] = done'
  BY KeptNext DEF KeptFacts
<1>4. \A z \in Homes : ~InSeq(w, Kept[z])
  <2> SUFFICES ASSUME NEW z \in Homes PROVE ~InSeq(w, Kept[z])
    OBVIOUS
  <2> QED
    BY <1>1, <1>2 DEF Fresh
<1>5. Distinct(Kept, Homes)
  BY DEF WInv
<1>6. CASE Unsettled(g)
  <2>1. waiters' = [waiters EXCEPT ![g] = Append(waiters[g], w)] /\ queue' = queue
    BY <1>6 DEF OnReady
  <2>2. waiters'[g] = Append(waiters[g], w) /\ \A f \in Futs \ {g} : waiters'[f] = waiters[f]
    BY <2>1 DEF TypeOK
  <2>3. Distinct(Kept', Homes)
    <3>1. Kept'[<<"fut", g>>] = Append(Kept[<<"fut", g>>], w)
      BY <1>2, <1>3, <2>2
    <3>2. ASSUME NEW z \in Homes, z # <<"fut", g>> PROVE Kept'[z] = Kept[z]
      <4>1. ASSUME NEW f \in Futs, z = <<"fut", f>> PROVE Kept'[z] = Kept[z]
        <5>1. f # g
          BY <3>2, <4>1
        <5>2. waiters'[f] = waiters[f]
          BY <2>2, <5>1
        <5>3. Kept'[<<"fut", f>>] = waiters'[f] /\ Kept[<<"fut", f>>] = waiters[f]
          BY <1>2, <1>3
        <5> QED
          BY <4>1, <5>2, <5>3
      <4>2. ASSUME NEW u \in Threads, z = <<"thr", u>> PROVE Kept'[z] = Kept[z]
        BY <1>1, <1>2, <1>3, <4>2
      <4> QED
        BY <1>1, <1>2, <1>3, <2>1, <4>1, <4>2
    <3> DEFINE y == <<"fut", g>>
    <3>3. /\ y \in Homes /\ Kept'[y] = Append(Kept[y], w)
               /\ \A z \in Homes \ {y} : Kept'[z] = Kept[z]
          /\ Kept \in [Homes -> Seq(Waiters)] /\ Kept' \in [Homes -> Seq(Waiters)]
      BY <1>2, <1>3, <3>1, <3>2
    <3> HIDE DEF y
    <3> QED
      BY <1>4, <1>5, <3>3, FreshAppended
  <2> QED
    BY <1>1, <1>6, <2>2, <2>3 DEF WInv, Unsettled
<1>7. CASE ~Unsettled(g)
  <2>1. waiters' = waiters /\ queue' = Append(queue, w)
    BY <1>7 DEF OnReady
  <2>2. Distinct(Kept', Homes)
    <3>1. Kept'[<<"que", Nil>>] = Append(Kept[<<"que", Nil>>], w)
      BY <1>2, <1>3, <2>1
    <3>2. ASSUME NEW z \in Homes, z # <<"que", Nil>> PROVE Kept'[z] = Kept[z]
      <4>1. ASSUME NEW f \in Futs, z = <<"fut", f>> PROVE Kept'[z] = Kept[z]
        BY <1>2, <1>3, <2>1, <4>1
      <4>2. ASSUME NEW u \in Threads, z = <<"thr", u>> PROVE Kept'[z] = Kept[z]
        BY <1>1, <1>2, <1>3, <4>2
      <4> QED
        BY <1>1, <1>2, <1>3, <3>2, <4>1, <4>2
    <3> DEFINE y == <<"que", Nil>>
    <3>3. /\ y \in Homes /\ Kept'[y] = Append(Kept[y], w)
               /\ \A z \in Homes \ {y} : Kept'[z] = Kept[z]
          /\ Kept \in [Homes -> Seq(Waiters)] /\ Kept' \in [Homes -> Seq(Waiters)]
      BY <1>2, <1>3, <3>1, <3>2
    <3> HIDE DEF y
    <3> QED
      BY <1>4, <1>5, <3>3, FreshAppended
  <2> QED
    BY <1>1, <2>1, <2>2 DEF WInv
<1> QED
  BY <1>6, <1>7

\* WInv is inductive relative to FInv.
LEMMA WaiterNext == FInv /\ FInv' /\ WInv /\ [Next]_vars => WInv'
<1> SUFFICES ASSUME FInv, FInv', WInv, [Next]_vars PROVE WInv'
  OBVIOUS
<1>0. TypeOK /\ TypeOK'
  BY DEF FInv
<1>1. ASSUME NEW t \in Threads, NEW g \in Futs, NEW s \in Final, NEW m \in BOOLEAN,
             NEW o \in {"owned", "borrowed"}, Complete(t, g, s, m, o)
      PROVE  WInv'
  BY <1>0, <1>1, SettleWaits DEF Complete, exec, Waking
<1>2. ASSUME NEW t \in Threads, NEW g \in Futs, CancelNext(t, g) PROVE WInv'
  BY <1>0, <1>2, SettleWaits DEF CancelNext, exec, Waking, Final
<1>3. ASSUME NEW t \in Threads, AssociateCancels(t) PROVE WInv'
  <2>1. fut[t] \in Futs
    BY <1>3 DEF FInv, TypeOK, Locals, AssociateCancels
  <2> QED
    BY <1>0, <1>3, <2>1, SettleWaits DEF AssociateCancels, exec, Waking, Final
<1>4. ASSUME NEW t \in Threads, Settled(t) PROVE WInv'
  <2>1. fut[t] \in Futs
    BY <1>4 DEF FInv, TypeOK, Locals, InSettle, Settled
  <2>2. woken' = woken /\ \A u \in Threads : pc[u] \in Waking => pc'[u] \in Waking
    BY <1>0, <1>4 DEF Settled, Goto, TypeOK, Waking
  <2>3. UNCHANGED <<waiters, queue, done, status>> \/ ReleaseFuture(fut[t])
    BY <1>4 DEF Settled, future, exec
  <2> QED
    BY <1>0, <2>1, <2>2, <2>3, SameWaits, ReleaseWaits
<1>5. ASSUME NEW t \in Threads, NEW k \in Tokens, NEW g \in Futs,
             Associate(t, k, g) \/ AssociateLate(t, k, g)
      PROVE  WInv'
  <2>1. UNCHANGED <<waiters, woken, queue, done, status>>
    BY <1>5 DEF Associate, AssociateLate, future, exec
  <2>2. \A u \in Threads : pc[u] \in Waking => pc'[u] \in Waking
    BY <1>0, <1>5 DEF Associate, AssociateLate, Associable, Goto, Waking, TypeOK
  <2> QED
    BY <2>1, <2>2, SameWaits
<1>6. ASSUME NEW t \in Threads, Deregister(t) \/ ReleaseLink(t) PROVE WInv'
  <2>1. UNCHANGED <<waiters, woken, queue, done, status>>
    BY <1>6 DEF Deregister, ReleaseLink, future, exec
  <2>2. \A u \in Threads : pc[u] \in Waking => pc'[u] \in Waking
    BY <1>0, <1>6 DEF Deregister, ReleaseLink, Goto, Waking, TypeOK
  <2> QED
    BY <2>1, <2>2, SameWaits
<1>7. ASSUME NEW g \in Futs, DropFuture(g) PROVE WInv'
  <2>1. ReleaseFuture(g) /\ UNCHANGED <<woken, pc>>
    BY <1>7 DEF DropFuture
  <2> QED
    BY <1>0, <2>1, ReleaseWaits
<1>8. ASSUME (\E k \in Tokens : DropToken(k)) \/ UNCHANGED vars PROVE WInv'
  <2>1. UNCHANGED <<waiters, woken, queue, done, status, pc>>
    BY <1>8 DEF DropToken, vars, future, exec
  <2> QED
    BY <2>1, SameWaits
<1>9. ASSUME NEW t \in Threads, NEW k \in Tokens, CancelToken(t, k) PROVE WInv'
  <2>1. UNCHANGED <<waiters, woken, queue, done, status>>
    BY <1>9 DEF CancelToken, future, exec
  <2>2. \A u \in Threads : pc[u] \in Waking => pc'[u] \in Waking
    BY <1>0, <1>9 DEF CancelToken, Goto, Waking, TypeOK
  <2> QED
    BY <2>1, <2>2, SameWaits
<1>10. ASSUME NEW t \in Threads, TakeList(t) \/ CancelReturns(t) PROVE WInv'
  <2>1. UNCHANGED <<waiters, woken, queue, done, status>>
    BY <1>10 DEF TakeList, CancelReturns, future, exec
  <2>2. \A u \in Threads : pc[u] \in Waking => pc'[u] \in Waking
    BY <1>0, <1>10 DEF TakeList, CancelReturns, Goto, Waking, TypeOK
  <2> QED
    BY <2>1, <2>2, SameWaits
<1>11. ASSUME NEW t \in Threads, Call(t) PROVE WInv'
  BY <1>1, <1>5, <1>9, <1>11 DEF Call
<1>12. ASSUME NEW t \in Threads, Step(t) PROVE WInv'
  BY <1>0, <1>2, <1>3, <1>4, <1>6, <1>10, <1>12, ScheduleWaits DEF Step
<1> QED
  BY <1>0, <1>7, <1>8, <1>11, <1>12, OnReadyWaits, RunWaits DEF Next

(* A set any two members of which are equal has at most one. *)
LEMMA AtMostOne ==
  ASSUME NEW S, \A p, q \in S : p = q
  PROVE  Cardinality(S) <= 1
<1>1. CASE S = {}
  BY <1>1, FS_EmptySet
<1>2. CASE S # {}
  <2>1. PICK p : S = {p}
    BY <1>2
  <2>2. Cardinality(S) = 1
    BY <2>1, FS_Singleton
  <2> QED
    BY <2>2
<1> QED
  BY <1>1, <1>2

(* Two places where the same closure is are the same place. *)
LEMMA OnePlace ==
  ASSUME FInv, WInv, NEW w \in Waiters
  PROVE  Cardinality({p \in Places(w) : At(p, w)}) <= 1
<1>1. KeptFacts(Kept, waiters, woken, queue, done)
  BY KeptNow DEF FInv
<1>2. ASSUME NEW p \in Places(w), At(p, w)
      PROVE  \E h \in Homes : p = <<h[1], h[2], p[3]>> /\ p[3] \in DOMAIN Kept[h]
               /\ Kept[h][p[3]] = w
  <2>1. ASSUME NEW f \in Futs, NEW i, p = <<"fut", f, i>>
        PROVE  \E h \in Homes : p = <<h[1], h[2], p[3]>> /\ p[3] \in DOMAIN Kept[h]
                 /\ Kept[h][p[3]] = w
    <3>1. i \in DOMAIN waiters[f] /\ waiters[f][i] = w
      BY <1>2, <2>1 DEF At
    <3>2. <<"fut", f>> \in Homes /\ Kept[<<"fut", f>>] = waiters[f]
      BY <1>1 DEF KeptFacts
    <3> QED
      BY <2>1, <3>1, <3>2
  <2>2. ASSUME NEW t \in Threads, NEW i, p = <<"thr", t, i>>
        PROVE  \E h \in Homes : p = <<h[1], h[2], p[3]>> /\ p[3] \in DOMAIN Kept[h]
                 /\ Kept[h][p[3]] = w
    <3>1. i \in DOMAIN woken[t] /\ woken[t][i] = w
      BY <1>2, <2>2 DEF At
    <3>2. <<"thr", t>> \in Homes /\ Kept[<<"thr", t>>] = woken[t]
      BY <1>1 DEF KeptFacts
    <3> QED
      BY <2>2, <3>1, <3>2
  <2>3. ASSUME NEW i, p = <<"que", Nil, i>>
        PROVE  \E h \in Homes : p = <<h[1], h[2], p[3]>> /\ p[3] \in DOMAIN Kept[h]
                 /\ Kept[h][p[3]] = w
    <3>1. i \in DOMAIN queue /\ queue[i] = w
      BY <1>2, <2>3 DEF At
    <3>2. <<"que", Nil>> \in Homes /\ Kept[<<"que", Nil>>] = queue
      BY <1>1 DEF KeptFacts
    <3> QED
      BY <2>3, <3>1, <3>2
  <2>4. ASSUME NEW i, p = <<"end", Nil, i>>
        PROVE  \E h \in Homes : p = <<h[1], h[2], p[3]>> /\ p[3] \in DOMAIN Kept[h]
                 /\ Kept[h][p[3]] = w
    <3>1. i \in DOMAIN done /\ done[i] = w
      BY <1>2, <2>4 DEF At
    <3>2. <<"end", Nil>> \in Homes /\ Kept[<<"end", Nil>>] = done
      BY <1>1 DEF KeptFacts
    <3> QED
      BY <2>4, <3>1, <3>2
  <2> QED
    BY <2>1, <2>2, <2>3, <2>4 DEF Places
<1>3. ASSUME NEW p \in {x \in Places(w) : At(x, w)}, NEW q \in {x \in Places(w) : At(x, w)}
      PROVE  p = q
  <2>1. PICK h \in Homes : p = <<h[1], h[2], p[3]>> /\ p[3] \in DOMAIN Kept[h] /\ Kept[h][p[3]] = w
    BY <1>2
  <2>2. PICK g \in Homes : q = <<g[1], g[2], q[3]>> /\ q[3] \in DOMAIN Kept[g] /\ Kept[g][q[3]] = w
    BY <1>2
  <2>3. h = g /\ p[3] = q[3]
    BY <2>1, <2>2 DEF WInv, Distinct
  <2> QED
    BY <2>1, <2>2, <2>3
<1> QED
  BY <1>3, AtMostOne

(* A closure given to ori_future_on_ready has one owner at a time, and so  *)
(* runs or is dropped once at most, and no settled future keeps one: for   *)
(* any number of futures, closures and threads that settle and schedule.   *)
THEOREM WaitersRunOnce == Spec => []WaiterOwnedOnce
<1>1. Init => WInv
  <2> SUFFICES ASSUME Init PROVE WInv
    OBVIOUS
  <2>1. TypeOK
    BY FuturesInit DEF FInv
  <2>2. /\ \A f \in Futs : waiters[f] = <<>>
        /\ \A t \in Threads : woken[t] = <<>>
        /\ queue = <<>> /\ done = <<>>
    BY DEF Init
  <2>3. KeptFacts(Kept, waiters, woken, queue, done)
    BY <2>1, KeptNow
  <2>4. \A h \in Homes : Kept[h] = <<>>
    BY <2>2, <2>3 DEF KeptFacts
  <2>5. Distinct(Kept, Homes)
    BY <2>4 DEF Distinct
  <2> QED
    BY <2>2, <2>5 DEF WInv
<1>2. FInv /\ WInv => WaiterOwnedOnce
  BY OnePlace DEF WInv, WaiterOwnedOnce
<1> QED
  BY <1>1, <1>2, WaiterNext, FuturesInvariant, PTL DEF Spec

=============================================================================

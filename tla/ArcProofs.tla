------------------------------ MODULE ArcProofs ------------------------------
(***************************************************************************)
(* Proofs about Arc for any heap: any objects, any threads and any finite  *)
(* set of references.  Safe is inductive: trial deletion is sound because  *)
(* the counts are exact, and the counts stay exact because nothing that is *)
(* referenced is ever destroyed.  Cover then needs Safe, and that an       *)
(* address is not reused while references of its last owner are pending.   *)
(***************************************************************************)
EXTENDS Arc, FiniteSetTheorems, TLAPS

Safe == TypeOK /\ RefCountExact /\ NoDangling /\ DestroyedOnce

-----------------------------------------------------------------------------
(* The reference tokens. *)

(* Any set of reference tokens is finite: counting it gives a natural number. *)
LEMMA FiniteRefs ==
  ASSUME NEW S \in SUBSET Refs
  PROVE  IsFiniteSet(S) /\ Cardinality(S) \in Nat
BY ArcAssumption, FS_Subset, FS_CardinalityType DEF ArcAssumption

(* Nil, the program and the threads are not objects. *)
LEMMA Names ==
  /\ Nil \notin Objs /\ Nil \notin Threads /\ Nil # Program
  /\ Program \notin Objs /\ Program \notin Threads
  /\ \A t \in Threads : t \notin Objs
BY ArcAssumption DEF ArcAssumption

(* Closure(S, C) contains S, is closed, and is the least such set. *)
LEMMA ClosureFacts ==
  ASSUME NEW S \in SUBSET Objs, NEW C \in SUBSET Objs
  PROVE  /\ S \subseteq Closure(S, C)
         /\ Closed(Closure(S, C), C)
         /\ \A M \in SUBSET Objs : S \subseteq M /\ Closed(M, C) => Closure(S, C) \subseteq M
         /\ Closure(S, C) \in SUBSET Objs
<1>1. S \subseteq Closure(S, C)
  BY DEF Closure
<1>2. \A M \in SUBSET Objs : S \subseteq M /\ Closed(M, C) => Closure(S, C) \subseteq M
  BY DEF Closure
<1>3. Closed(Closure(S, C), C)
  <2> SUFFICES ASSUME NEW r \in Refs, from[r] \in Closure(S, C), to[r] \in C,
                      NEW M \in SUBSET Objs, S \subseteq M, Closed(M, C)
               PROVE  to[r] \in M
    BY DEF Closed, Closure
  <2>1. from[r] \in M
    BY DEF Closure
  <2> QED
    BY <2>1 DEF Closed
<1> QED
  BY <1>1, <1>2, <1>3 DEF Closure

(* What trial deletion leaves unmarked is referenced by the unmarked only: *)
(* a candidate whose count is exhausted by edges from candidates has no    *)
(* other reference, and the marked candidates are closed under edges.      *)
LEMMA DeadUnreferenced ==
  ASSUME Safe, NEW C \in SUBSET live, NEW r \in Refs, to[r] \in Dead(C)
  PROVE  from[r] \in Dead(C)
<1> USE DEF Safe
<1> DEFINE o == to[r]
           S == {x \in C : TrialCount(C, x) > 0}
<1>1. S \in SUBSET Objs /\ C \in SUBSET Objs /\ o \in C /\ o \in live
  BY DEF TypeOK, Dead
<1>2. o \notin S
  BY <1>1, ClosureFacts DEF Dead, Marked
<1>3. /\ RefsFrom(C, o) \in SUBSET RefsTo(o) /\ RefsTo(o) \in SUBSET Refs
      /\ IsFiniteSet(RefsTo(o))
  BY FiniteRefs DEF RefsFrom, RefsTo
<1>4. Cardinality(RefsFrom(C, o)) \in Nat /\ Cardinality(RefsTo(o)) \in Nat
  BY <1>3, FiniteRefs
<1>5. Cardinality(RefsFrom(C, o)) = Cardinality(RefsTo(o))
  <2>1. ~(rc[o] - Cardinality(RefsFrom(C, o)) > 0)
    BY <1>1, <1>2 DEF TrialCount
  <2>2. rc[o] = Cardinality(RefsTo(o))
    BY <1>1 DEF RefCountExact
  <2>3. Cardinality(RefsFrom(C, o)) <= Cardinality(RefsTo(o))
    BY <1>3, FS_Subset
  <2> QED
    BY <1>4, <2>1, <2>2, <2>3
<1>6. RefsFrom(C, o) = RefsTo(o)
  BY <1>3, <1>5, FS_Subset
<1>7. from[r] \in C
  BY <1>6 DEF RefsFrom, RefsTo
<1>8. from[r] \notin Marked(C)
  BY <1>1, ClosureFacts DEF Marked, Closed, Dead
<1> QED
  BY <1>7, <1>8 DEF Dead

-----------------------------------------------------------------------------
(* How the steps change the references to each object. *)

(* A new reference (alloc, retain, register_edge) adds one to one object's count. *)
LEMMA NewRefCounts ==
  ASSUME TypeOK, NEW r \in Refs, NEW w, NEW o \in Objs, NewRef(r, w, o)
  PROVE  /\ Cardinality(RefsTo(o)') = Cardinality(RefsTo(o)) + 1
         /\ \A p \in Objs \ {o} : RefsTo(p)' = RefsTo(p)
<1>1. RefsTo(o)' = RefsTo(o) \cup {r} /\ r \notin RefsTo(o)
  BY Names DEF NewRef, RefsTo, TypeOK
<1>2. \A p \in Objs \ {o} : RefsTo(p)' = RefsTo(p)
  BY Names DEF NewRef, RefsTo, TypeOK
<1>3. IsFiniteSet(RefsTo(o))
  BY FiniteRefs DEF RefsTo
<1> QED
  BY <1>1, <1>2, <1>3, FS_AddElement

(* A release takes exactly one reference off one object. *)
LEMMA ForgetCounts ==
  ASSUME TypeOK, NEW r \in Refs, to[r] # Nil, Forget({r})
  PROVE  /\ Cardinality(RefsTo(to[r])) > 0
         /\ \A p \in Objs : Cardinality(RefsTo(p)') =
              Cardinality(RefsTo(p)) - (IF p = to[r] THEN 1 ELSE 0)
<1> SUFFICES ASSUME NEW o \in Objs, o = to[r]
             PROVE  /\ Cardinality(RefsTo(o)) > 0
                    /\ Cardinality(RefsTo(o)') = Cardinality(RefsTo(o)) - 1
                    /\ \A p \in Objs \ {o} : /\ Cardinality(RefsTo(p)) \in Nat
                                             /\ RefsTo(p)' = RefsTo(p)
  BY DEF TypeOK
<1>1. RefsTo(o)' = RefsTo(o) \ {r} /\ r \in RefsTo(o)
  <2>1. \A q \in Refs : q \in RefsTo(o)' <=> q \in RefsTo(o) \ {r}
    BY Names DEF Forget, RefsTo
  <2> QED
    BY <2>1 DEF RefsTo
<1>2. \A p \in Objs \ {o} : RefsTo(p)' = RefsTo(p)
  BY Names DEF Forget, RefsTo
<1>3. \A p \in Objs : IsFiniteSet(RefsTo(p)) /\ Cardinality(RefsTo(p)) \in Nat
  BY FiniteRefs DEF RefsTo
<1>4. Cardinality(RefsTo(o)) # 0
  BY <1>1, <1>3, FS_EmptySet
<1>5. Cardinality(RefsTo(o) \ {r}) = Cardinality(RefsTo(o)) - 1
  BY <1>1, <1>3, FS_RemoveElement
<1> QED
  BY <1>1, <1>2, <1>3, <1>4, <1>5

(* The last counted reference is the only one. *)
LEMMA OnlyReference ==
  ASSUME Safe, NEW r \in Refs, to[r] \in live, rc[to[r]] = 1
  PROVE  RefsTo(to[r]) = {r}
<1>1. Cardinality(RefsTo(to[r])) = 1 /\ IsFiniteSet(RefsTo(to[r]))
  BY FiniteRefs DEF Safe, RefCountExact, RefsTo
<1>2. PICK x : RefsTo(to[r]) = {x}
  BY <1>1, FS_Singleton
<1> QED
  BY <1>2 DEF RefsTo

-----------------------------------------------------------------------------
(* Safe is preserved. *)

(* Allocation, retain and edge registration keep the heap safe. *)
LEMMA MutateSafe ==
  ASSUME Safe, Mutate
  PROVE  Safe'
<1> USE DEF Safe
<1>1. ASSUME NEW r \in Refs, NEW o \in Objs, Alloc(r, o)
      PROVE  Safe'
  <2>1. /\ NewRef(r, Program, o) /\ live' = live \cup {o} /\ rc' = [rc EXCEPT ![o] = 1]
        /\ UNCHANGED <<suspects, dtors, frees>> /\ o \notin live
        /\ \A t \in Threads : o \notin frees[t]
    BY <1>1 DEF Alloc
  <2>2. TypeOK'
    BY <2>1, Names DEF TypeOK, NewRef
  <2>3. Cardinality(RefsTo(o)) = 0
    <3>1. RefsTo(o) = {}
      BY <2>1, Names DEF RefsTo, NoDangling
    <3> QED
      BY <3>1, FS_EmptySet
  <2>4. RefCountExact'
    BY <2>1, <2>3, NewRefCounts DEF RefCountExact, TypeOK
  <2>5. NoDangling' /\ DestroyedOnce'
    BY <2>1 DEF NoDangling, DestroyedOnce, NewRef, TypeOK
  <2> QED
    BY <2>2, <2>4, <2>5
<1>2. ASSUME NEW r \in Refs, NEW w \in Objs \cup {Program}, NEW o \in Objs, o \in live,
             NewRef(r, w, o), rc' = [rc EXCEPT ![o] = @ + 1],
             UNCHANGED <<live, suspects, dtors, frees>>
      PROVE  Safe'
  <2>1. TypeOK'
    BY <1>2, Names DEF TypeOK, NewRef
  <2>2. RefCountExact'
    BY <1>2, NewRefCounts DEF RefCountExact, TypeOK
  <2>3. NoDangling' /\ DestroyedOnce'
    BY <1>2 DEF NoDangling, DestroyedOnce, NewRef, TypeOK
  <2> QED
    BY <2>1, <2>2, <2>3
<1> QED
  BY <1>1, <1>2 DEF Mutate, Retain, Link, Incremented

(* ori_arc_release and ori_arc_unregister_edge keep the heap safe. *)
LEMMA ReleaseSafe ==
  ASSUME Safe, NEW t \in Threads, NEW r \in Refs,
         Unlink(t, r) \/ Drop(t, r) \/ ReleaseShared(t, r) \/ ReleaseLast(t, r)
  PROVE  Safe'
<1> USE DEF Safe
<1>1. CASE Unlink(t, r) \/ Drop(t, r)
  <2>1. /\ from' = [from EXCEPT ![r] = t] /\ from[r] # Nil
        /\ UNCHANGED <<live, rc, suspects, to, dtors, frees>>
    BY <1>1, Names DEF Unlink, Drop, TypeOK
  <2>2. TypeOK'
    BY <2>1, Names DEF TypeOK
  <2> QED
    BY <2>1, <2>2 DEF RefCountExact, RefsTo, NoDangling, DestroyedOnce
<1>2. CASE ReleaseShared(t, r)
  <2>1. /\ to[r] \in live /\ Forget({r}) /\ rc' = [rc EXCEPT ![to[r]] = @ - 1]
        /\ suspects' \subseteq suspects \cup {to[r]} /\ UNCHANGED <<live, dtors, frees>>
        /\ to[r] \in Objs
    BY <1>2 DEF ReleaseShared, MarkSuspect, TypeOK
  <2>2. TypeOK'
    BY <2>1, Names DEF TypeOK, Forget
  <2>3. RefCountExact'
    BY <2>1, Names, ForgetCounts DEF RefCountExact, TypeOK
  <2>4. NoDangling' /\ DestroyedOnce'
    BY <2>1 DEF NoDangling, DestroyedOnce, Forget
  <2> QED
    BY <2>2, <2>3, <2>4
<1>3. CASE ReleaseLast(t, r)
  <2> SUFFICES ASSUME NEW o \in Objs, o = to[r] PROVE Safe'
    BY <1>3 DEF ReleaseLast, TypeOK
  <2>1. /\ o \in live /\ rc[o] = 1 /\ rc' = [rc EXCEPT ![o] = 0]
        /\ live' = live \ {o} /\ suspects' = suspects \ {o}
        /\ dtors' = [dtors EXCEPT ![t] = {o}] /\ frees' = [frees EXCEPT ![t] = {o}]
        /\ Forget({r})
    BY <1>3 DEF ReleaseLast, Registered, Cleared
  <2>2. RefsTo(o) = {r}
    BY <2>1, OnlyReference
  <2>3. Forget({r})
    BY <2>1
  <2>4. TypeOK'
    BY <2>1, <2>3, Names DEF TypeOK, Forget
  <2>5. RefCountExact'
    <3>1. \A p \in live' : RefsTo(p)' = RefsTo(p) /\ rc'[p] = rc[p] /\ p \in live
      BY <2>1, <2>2, <2>3, Names DEF RefsTo, Forget, TypeOK
    <3> QED
      BY <3>1 DEF RefCountExact
  <2>6. NoDangling'
    BY <2>1, <2>2, <2>3 DEF NoDangling, Forget, RefsTo
  <2>7. DestroyedOnce'
    BY <2>1 DEF DestroyedOnce, TypeOK
  <2> QED
    BY <2>4, <2>5, <2>6, <2>7
<1> QED
  BY <1>1, <1>2, <1>3

(* Running a finalizer or freeing a payload keeps the heap safe. *)
LEMMA DestroySafe ==
  ASSUME Safe, NEW t \in Threads, NEW o \in Objs, RunDestructor(t, o) \/ Free(t, o)
  PROVE  Safe'
<1> USE DEF Safe
<1>1. CASE RunDestructor(t, o)
  BY <1>1 DEF RunDestructor, TypeOK, RefCountExact, RefsTo, NoDangling, DestroyedOnce
<1>2. CASE Free(t, o)
  <2>1. TypeOK'
    BY <1>2, Names DEF Free, CanFree, TypeOK
  <2>2. RefCountExact' /\ NoDangling'
    BY <1>2 DEF Free, RefCountExact, RefsTo, NoDangling
  <2>3. DestroyedOnce'
    BY <1>2 DEF Free, DestroyedOnce, TypeOK
  <2> QED
    BY <2>1, <2>2, <2>3
<1> QED
  BY <1>1, <1>2

(* A collection over any set of registered candidates is safe: restricting *)
(* the set can only under-collect.                                         *)
LEMMA CollectSafe ==
  ASSUME Safe, NEW t \in Threads, NEW C \in SUBSET live, Idle(t), Collect(t, C),
         suspects' \subseteq suspects \ Dead(C)
  PROVE  Safe'
<1> USE DEF Safe
<1> SUFFICES ASSUME NEW D, D = Dead(C) PROVE Safe'
  OBVIOUS
<1>1. D \subseteq live /\ \A r \in Refs : to[r] \in D => from[r] \in D
  BY DeadUnreferenced DEF Dead
<1>2. /\ live' = live \ D /\ rc' = [o \in Objs |-> IF o \in D THEN 0 ELSE rc[o]]
      /\ dtors' = [dtors EXCEPT ![t] = D] /\ frees' = [frees EXCEPT ![t] = D]
      /\ Forget({r \in Refs : to[r] \in D /\ from[r] \in D})
      /\ suspects' \subseteq suspects \ D
  BY DEF Collect, Registered
<1>3. \A r \in Refs : to'[r] = (IF to[r] \in D THEN Nil ELSE to[r])
                    /\ from'[r] = (IF to[r] \in D THEN Nil ELSE from[r])
  BY <1>1, <1>2 DEF Forget
<1>4. TypeOK'
  <2>1. to' \in [Refs -> Objs \cup {Nil}]
        /\ from' \in [Refs -> Objs \cup Threads \cup {Program, Nil}]
    BY <1>2 DEF Forget, TypeOK
  <2> QED
    BY <1>1, <1>2, <1>3, <2>1, Names DEF TypeOK
<1>5. RefCountExact'
  <2>1. \A p \in live' : RefsTo(p)' = RefsTo(p) /\ rc'[p] = rc[p] /\ p \in live
    BY <1>2, <1>3, Names DEF RefsTo, TypeOK
  <2> QED
    BY <2>1 DEF RefCountExact
<1>6. NoDangling'
  BY <1>2, <1>3 DEF NoDangling
<1>7. DestroyedOnce'
  BY <1>1, <1>2 DEF DestroyedOnce, TypeOK
<1> QED
  BY <1>4, <1>5, <1>6, <1>7

(* The candidates of a partial collection are closed under edges. *)
LEMMA CandidatesClosed ==
  ASSUME TypeOK
  PROVE  /\ Candidates \in SUBSET live /\ Closed(Candidates, live)
         /\ suspects \subseteq Candidates
<1>1. suspects \in SUBSET Objs /\ live \in SUBSET Objs /\ Closed(live, live)
  BY DEF TypeOK, Closed
<1> QED
  BY <1>1, ClosureFacts DEF Candidates, TypeOK

(* Safe is an inductive invariant of the ARC runtime. *)
LEMMA SafeInductive == Safe /\ [Next]_vars => Safe'
<1> SUFFICES ASSUME Safe, [Next]_vars PROVE Safe'
  OBVIOUS
<1>1. CASE UNCHANGED vars
  BY <1>1 DEF vars, Safe, TypeOK, RefCountExact, RefsTo, NoDangling, DestroyedOnce
<1>2. ASSUME NEW t \in Threads, CollectCycles(t) \/ CollectFromSuspects(t)
      PROVE  Safe'
  <2>1. live \in SUBSET live /\ Candidates \in SUBSET live /\ suspects \subseteq Candidates
    BY CandidatesClosed DEF Safe
  <2> QED
    BY <1>2, <2>1, CollectSafe DEF CollectCycles, CollectFromSuspects, Cleared
<1> QED
  BY <1>1, <1>2, MutateSafe, ReleaseSafe, DestroySafe DEF Next, ThreadStep

(* The empty registry is safe. *)
LEMMA SafeInit == Init => Safe
BY Names DEF Init, Safe, TypeOK, RefCountExact, NoDangling, DestroyedOnce

(* Memory safety of the runtime's heap for any program: counts are exact,  *)
(* nothing reachable is freed, and nothing is destroyed twice, whichever   *)
(* thread releases or collects when.                                       *)
THEOREM HeapIsSafe == Spec => [](TypeOK /\ RefCountExact /\ NoDangling /\ DestroyedOnce)
<1>1. Safe => TypeOK /\ RefCountExact /\ NoDangling /\ DestroyedOnce
  BY DEF Safe
<1> QED
  BY <1>1, SafeInit, SafeInductive, PTL DEF Spec

-----------------------------------------------------------------------------
(* The suspect buffer. *)

(* An object that owns references is registered or being destroyed. *)
OwnersExist ==
  \A r \in Refs : from[r] \in Objs => from[r] \in live \/ \E t \in Threads : from[r] \in frees[t]

RootsIn(M) == \A r \in Refs : from[r] \notin live \cup {Nil} => to[r] \in M

(* SuspectsCover, said of every closed set instead of the least one. *)
Cover ==
  \A M \in SUBSET Objs : RootsIn(M) /\ suspects \subseteq M /\ Closed(M, live) => live \subseteq M

CoverInv == Safe /\ OwnersExist /\ Cover

(* The quantified form of the cover that the proofs use. *)
LEMMA CoverMeaning == ASSUME TypeOK PROVE Cover <=> SuspectsCover
<1>1. \A M \in SUBSET Objs : Roots \cup suspects \subseteq M <=> RootsIn(M) /\ suspects \subseteq M
  BY DEF Roots, RootsIn
<1> QED
  BY <1>1 DEF Cover, SuspectsCover, Closure, TypeOK

(* The owner of a reference is always registered or being destroyed. *)
LEMMA OwnersInductive == Safe /\ OwnersExist /\ [Next]_vars => OwnersExist'
<1> SUFFICES ASSUME Safe, OwnersExist, [Next]_vars PROVE OwnersExist'
  OBVIOUS
<1> USE Names DEF Safe, OwnersExist, TypeOK
<1>1. CASE UNCHANGED vars
  BY <1>1 DEF vars
<1>2. CASE Mutate
  BY <1>2 DEF Mutate, Alloc, Retain, Link, NewRef
<1>3. ASSUME NEW t \in Threads, NEW r \in Refs,
             Unlink(t, r) \/ Drop(t, r) \/ ReleaseShared(t, r)
      PROVE  OwnersExist'
  BY <1>3 DEF Unlink, Drop, ReleaseShared, Forget
<1>4. ASSUME NEW t \in Threads, NEW r \in Refs, ReleaseLast(t, r)
      PROVE  OwnersExist'
  <2>1. /\ \A q \in Refs : from'[q] \in {from[q], Nil}
        /\ live' = live \ {to[r]} /\ frees' = [frees EXCEPT ![t] = {to[r]}] /\ frees[t] = {}
    BY <1>4 DEF ReleaseLast, Forget, Registered
  <2> QED
    BY <2>1
<1>5. ASSUME NEW t \in Threads, NEW o \in Objs, RunDestructor(t, o) \/ Free(t, o)
      PROVE  OwnersExist'
  BY <1>5 DEF RunDestructor, Free
<1>6. ASSUME NEW t \in Threads, NEW C, Idle(t), Collect(t, C)
      PROVE  OwnersExist'
  <2>1. /\ \A q \in Refs : from'[q] \in {from[q], Nil}
        /\ live' = live \ Dead(C) /\ frees' = [frees EXCEPT ![t] = Dead(C)] /\ frees[t] = {}
    BY <1>6 DEF Idle, Collect, Forget, Registered
  <2> SUFFICES ASSUME NEW D, D = Dead(C) PROVE OwnersExist'
    OBVIOUS
  <2> QED
    BY <2>1
<1> QED
  BY <1>1, <1>2, <1>3, <1>4, <1>5, <1>6
  DEF Next, ThreadStep, CollectCycles, CollectFromSuspects

(* A collection over a closed set of candidates that contains the suspects *)
(* leaves only what a root reaches.                                        *)
LEMMA CollectComplete ==
  ASSUME CoverInv, NEW t \in Threads, NEW C \in SUBSET live, Collect(t, C),
         Closed(C, live), suspects \subseteq C,
         NEW M \in SUBSET Objs, RootsIn(M)', Closed(M, live)'
  PROVE  live' \subseteq M
<1> USE DEF CoverInv, Safe
<1> SUFFICES ASSUME NEW D, D = Dead(C) PROVE live' \subseteq M
  OBVIOUS
<1>1. D \subseteq C /\ \A r \in Refs : to[r] \in D => from[r] \in D
  BY DeadUnreferenced DEF Dead
<1>2. live' = live \ D
  BY DEF Collect, Registered
<1>3. \A r \in Refs : to[r] \notin D => to'[r] = to[r] /\ from'[r] = from[r]
  BY DEF Collect, Forget
<1>4. \A r \in Refs : from[r] \notin live \cup {Nil} => to[r] \in M
  <2> SUFFICES ASSUME NEW r \in Refs, from[r] \notin live \cup {Nil} PROVE to[r] \in M
    OBVIOUS
  <2>1. to[r] \notin D
    BY <1>1
  <2> QED
    BY <1>2, <1>3, <2>1 DEF RootsIn
<1>5. live \subseteq M \cup C
  <2>1. M \cup C \in SUBSET Objs
    BY DEF TypeOK
  <2>2. RootsIn(M \cup C)
    BY <1>4 DEF RootsIn
  <2>3. Closed(M \cup C, live)
    <3> SUFFICES ASSUME NEW r \in Refs, from[r] \in M \cup C, to[r] \in live
                 PROVE  to[r] \in M \cup C
      BY DEF Closed
    <3>1. CASE to[r] \in D \/ from[r] \in C
      BY <1>1, <3>1 DEF Closed
    <3>2. CASE to[r] \notin D /\ from[r] \in M
      BY <1>2, <1>3, <3>2 DEF Closed
    <3> QED
      BY <3>1, <3>2
  <2> QED
    BY <2>1, <2>2, <2>3 DEF Cover
<1> DEFINE S == {x \in C : TrialCount(C, x) > 0}
<1>6. S \in SUBSET Objs /\ C \in SUBSET Objs
  BY DEF TypeOK
<1>7. Closed(Marked(C), C) /\ Marked(C) \in SUBSET Objs /\ S \subseteq Marked(C)
  BY <1>6, ClosureFacts DEF Marked
<1>8. S \subseteq M
  <2> SUFFICES ASSUME NEW o \in C, TrialCount(C, o) > 0 PROVE o \in M
    OBVIOUS
  <2>1. PICK r \in Refs : to[r] = o /\ from[r] \notin C
    <3>1. /\ RefsFrom(C, o) \in SUBSET Refs /\ RefsTo(o) \in SUBSET Refs
          /\ o \in live /\ o \in Objs
      BY DEF RefsFrom, RefsTo, TypeOK
    <3>2. rc[o] = Cardinality(RefsTo(o)) /\ Cardinality(RefsTo(o)) \in Nat
      BY <3>1, FiniteRefs DEF RefCountExact
    <3>3. RefsFrom(C, o) # RefsTo(o)
      BY <3>2 DEF TrialCount
    <3> QED
      BY <3>3 DEF RefsFrom, RefsTo
  <2>2. o \notin D
    BY <1>7 DEF Dead
  <2>3. CASE from[r] \notin live \cup {Nil}
    BY <1>4, <2>1, <2>3
  <2>4. CASE from[r] \in live
    <3>1. from[r] \in M
      BY <1>5, <2>1, <2>4
    <3> QED
      BY <1>2, <1>3, <2>1, <2>2, <3>1 DEF Closed
  <2>5. from[r] # Nil
    BY <2>1, Names DEF TypeOK
  <2> QED
    BY <2>3, <2>4, <2>5
<1>9. Marked(C) \subseteq M
  <2>1. Closed(M \cap Marked(C), C)
    <3> SUFFICES ASSUME NEW r \in Refs, from[r] \in M, from[r] \in Marked(C), to[r] \in C
                 PROVE  to[r] \in M /\ to[r] \in Marked(C)
      BY DEF Closed
    <3>1. to[r] \in Marked(C) /\ to[r] \notin D
      BY <1>7 DEF Closed, Dead
    <3> QED
      BY <1>2, <1>3, <3>1 DEF Closed
  <2>2. S \subseteq M \cap Marked(C) /\ M \cap Marked(C) \in SUBSET Objs
    BY <1>7, <1>8
  <2> DEFINE N == M \cap Marked(C)
  <2>3. Marked(C) = Closure(S, C)
    BY DEF Marked
  <2>4. S \subseteq N /\ N \in SUBSET Objs /\ Closed(N, C)
    BY <2>1, <2>2
  <2> HIDE DEF N, S
  <2>5. Closure(S, C) \subseteq N
    BY <1>6, <2>4, ClosureFacts
  <2> QED
    BY <2>3, <2>5 DEF N
<1> QED
  BY <1>2, <1>5, <1>9 DEF Dead

(* A mutation of the heap leaves the suspects covering all garbage. *)
LEMMA MutateCover ==
  ASSUME CoverInv, Mutate
  PROVE  Cover'
<1> USE DEF CoverInv, Safe
<1> SUFFICES ASSUME NEW M \in SUBSET Objs, RootsIn(M)', suspects' \subseteq M, Closed(M, live)'
             PROVE  live' \subseteq M
  BY DEF Cover
<1>1. ASSUME NEW r \in Refs, NEW w \in Objs \cup {Program}, NEW o \in Objs, NewRef(r, w, o),
             live' = live \cup {o}, o \in live \/ w = Program, UNCHANGED <<suspects, frees>>,
             \A q \in Refs : from[q] = o => o \in live
      PROVE  live' \subseteq M
  <2>1. r \in Refs /\ to[r] = Nil /\ from[r] = Nil
    BY <1>1 DEF NewRef, TypeOK
  <2>2. \A q \in Refs : from[q] # Nil => from'[q] = from[q] /\ to'[q] = to[q]
    BY <1>1, <2>1 DEF NewRef, TypeOK
  <2>3. RootsIn(M)
    BY <1>1, <2>2 DEF RootsIn
  <2>4. Closed(M, live)
    BY <1>1, <2>2, Names DEF Closed
  <2>5. live \subseteq M
    BY <1>1, <2>3, <2>4 DEF Cover
  <2>6. w = Program => o \in M
    BY <1>1, Names DEF NewRef, RootsIn, TypeOK
  <2> QED
    BY <1>1, <2>5, <2>6
<1>2. ASSUME NEW r \in Refs, NEW o \in Objs, Alloc(r, o)
      PROVE  live' \subseteq M
  BY <1>1, <1>2 DEF Alloc, OwnersExist
<1>3. ASSUME NEW r \in Refs, NEW o \in Objs, Retain(r, o)
      PROVE  live' \subseteq M
  <2>1. live' = live \cup {o}
    BY <1>3 DEF Retain
  <2> QED
    BY <1>1, <1>3, <2>1 DEF Retain
<1>4. ASSUME NEW r \in Refs, NEW a \in Objs, NEW b \in Objs, Link(r, a, b)
      PROVE  live' \subseteq M
  <2>1. live' = live \cup {b}
    BY <1>4 DEF Link
  <2> QED
    BY <1>1, <1>4, <2>1 DEF Link
<1> QED
  BY <1>2, <1>3, <1>4 DEF Mutate

(* A release, an unlink, a free or a collection leaves the cover intact. *)
LEMMA ThreadCover ==
  ASSUME CoverInv, NEW t \in Threads, ThreadStep(t)
  PROVE  Cover'
<1> USE DEF CoverInv, Safe
<1> SUFFICES ASSUME NEW M \in SUBSET Objs, RootsIn(M)', suspects' \subseteq M, Closed(M, live)'
             PROVE  live' \subseteq M
  BY DEF Cover
<1>t. t \notin live /\ t # Nil /\ Program \notin live /\ Program # Nil
  BY Names DEF TypeOK
<1>1. ASSUME NEW r \in Refs, Unlink(t, r) \/ Drop(t, r)
      PROVE  live' \subseteq M
  <2>1. /\ from' = [from EXCEPT ![r] = t] /\ UNCHANGED <<live, suspects, to>>
    BY <1>1 DEF Unlink, Drop
  <2>2. RootsIn(M) /\ Closed(M, live)
    BY <1>t, <2>1 DEF RootsIn, Closed, TypeOK
  <2> QED
    BY <2>1, <2>2 DEF Cover
<1>2. ASSUME NEW r \in Refs, ReleaseShared(t, r)
      PROVE  live' \subseteq M
  <2> SUFFICES ASSUME NEW o \in Objs, o = to[r] PROVE live' \subseteq M
    BY <1>2 DEF ReleaseShared, TypeOK
  <2>1. /\ from[r] = t /\ o \in live /\ rc[o] # 1 /\ live' = live
        /\ suspects' = (IF HasChildren(o) THEN suspects \cup {o} ELSE suspects)
    BY <1>2 DEF ReleaseShared, MarkSuspect
  <2>2. \A q \in Refs : q # r => from'[q] = from[q] /\ to'[q] = to[q]
    BY <1>2 DEF ReleaseShared, Forget
  <2>3. \A q \in Refs : from[q] \notin live \cup {Nil} => to[q] \in M \cup {o}
    BY <2>1, <2>2 DEF RootsIn
  <2>4. Closed(M, live)
    BY <1>t, <2>1, <2>2, Names DEF Closed
  <2>5. CASE o \in M
    <3>1. RootsIn(M) /\ suspects \subseteq M
      BY <2>1, <2>3, <2>5 DEF RootsIn
    <3> QED
      BY <2>1, <2>4, <3>1 DEF Cover
  <2>6. CASE o \notin M
    <3>1. \A q \in Refs : from[q] # o
      BY <2>1, <2>6 DEF HasChildren
    <3>2. /\ RootsIn(M \cup {o}) /\ suspects \subseteq M \cup {o}
          /\ Closed(M \cup {o}, live) /\ M \cup {o} \in SUBSET Objs
      BY <2>1, <2>3, <2>4, <3>1 DEF RootsIn, Closed
    <3>3. live \subseteq M \cup {o}
      BY <3>2 DEF Cover
    <3>4. PICK q \in Refs : q # r /\ to[q] = o
      <4>1. /\ RefsTo(o) # {r} /\ r \in RefsTo(o)
        <5>1. Cardinality(RefsTo(o)) # 1
          BY <2>1 DEF RefCountExact
        <5> QED
          BY <5>1, FS_Singleton DEF RefsTo
      <4> QED
        BY <4>1 DEF RefsTo
    <3>5. from[q] # Nil /\ from'[q] = from[q] /\ to'[q] = o
      BY <2>2, <3>4, Names DEF TypeOK
    <3>6. CASE from[q] \notin live
      BY <2>1, <2>6, <3>5, <3>6 DEF RootsIn
    <3>7. CASE from[q] \in live
      BY <2>1, <2>6, <3>1, <3>3, <3>5, <3>7 DEF Closed
    <3> QED
      BY <3>6, <3>7
  <2> QED
    BY <2>5, <2>6
<1>3. ASSUME NEW r \in Refs, ReleaseLast(t, r)
      PROVE  live' \subseteq M
  <2> SUFFICES ASSUME NEW o \in Objs, o = to[r] PROVE live' \subseteq M
    BY <1>3 DEF ReleaseLast, TypeOK
  <2>1. /\ from[r] = t /\ o \in live /\ rc[o] = 1
        /\ live' = live \ {o} /\ suspects' = suspects \ {o}
    BY <1>3 DEF ReleaseLast, Registered, Cleared
  <2>2. RefsTo(o) = {r}
    BY <2>1, OnlyReference
  <2>3. \A q \in Refs : q # r => from'[q] = from[q] /\ to'[q] = to[q] /\ to[q] # o
    BY <1>3, <2>2 DEF ReleaseLast, Forget, RefsTo
  <2>4. RootsIn(M \cup {o}) /\ suspects \subseteq M \cup {o} /\ M \cup {o} \in SUBSET Objs
    BY <2>1, <2>3 DEF RootsIn
  <2>5. Closed(M \cup {o}, live)
    <3> SUFFICES ASSUME NEW q \in Refs, from[q] \in M \cup {o}, to[q] \in live
                 PROVE  to[q] \in M \cup {o}
      BY DEF Closed
    <3>1. CASE q = r
      BY <3>1
    <3>2. CASE q # r /\ from[q] = o
      BY <2>1, <2>3, <3>2, Names DEF RootsIn
    <3>3. CASE q # r /\ from[q] \in M
      BY <2>1, <2>3, <3>3 DEF Closed
    <3> QED
      BY <3>1, <3>2, <3>3
  <2>6. live \subseteq M \cup {o}
    BY <2>4, <2>5 DEF Cover
  <2> QED
    BY <2>1, <2>6
<1>4. ASSUME NEW o \in Objs, RunDestructor(t, o) \/ Free(t, o)
      PROVE  live' \subseteq M
  <2>1. /\ UNCHANGED <<live, suspects, to>>
        /\ \/ UNCHANGED from
           \/ /\ o \notin live
              /\ from' = [r \in Refs |-> IF from[r] = o THEN t ELSE from[r]]
    BY <1>4 DEF RunDestructor, Free, DestroyedOnce
  <2>2. RootsIn(M)
    BY <1>t, <2>1 DEF RootsIn
  <2>3. Closed(M, live)
    BY <2>1, <2>2, Names DEF Closed, RootsIn
  <2> QED
    BY <2>1, <2>2, <2>3 DEF Cover
<1>5. CASE CollectCycles(t)
  <2>1. live \in SUBSET live /\ Closed(live, live) /\ suspects \subseteq live /\ Collect(t, live)
    BY <1>5 DEF CollectCycles, Closed, TypeOK
  <2> QED
    BY <2>1, CollectComplete
<1>6. CASE CollectFromSuspects(t)
  <2>1. /\ Candidates \in SUBSET live /\ Closed(Candidates, live)
        /\ suspects \subseteq Candidates /\ Collect(t, Candidates)
    BY <1>6, CandidatesClosed DEF CollectFromSuspects
  <2> QED
    BY <2>1, CollectComplete
<1> QED
  BY <1>1, <1>2, <1>3, <1>4, <1>5, <1>6 DEF ThreadStep

(* The cover, with the heap's safety, is inductive. *)
LEMMA CoverInductive == CoverInv /\ [Next]_vars => CoverInv'
<1> SUFFICES ASSUME CoverInv, [Next]_vars PROVE Cover'
  BY SafeInductive, OwnersInductive DEF CoverInv
<1>1. CASE UNCHANGED vars
  BY <1>1 DEF vars, CoverInv, Cover, RootsIn, Closed
<1> QED
  BY <1>1, MutateCover, ThreadCover DEF Next

(* The cover holds of the empty heap. *)
LEMMA CoverInit == Init => CoverInv
<1>1. Init => OwnersExist /\ Cover
  BY Names DEF Init, OwnersExist, Cover
<1> QED
  BY <1>1, SafeInit DEF CoverInv

(* The suspect buffer misses no garbage: what no root reaches lies below a *)
(* suspect, in every heap and under every interleaving.                    *)
THEOREM SuspectsMissNothing == Spec => []SuspectsCover
<1>1. CoverInv => SuspectsCover
  BY CoverMeaning DEF CoverInv, Safe
<1> QED
  BY <1>1, CoverInit, CoverInductive, PTL DEF Spec

(* The full and the partial collector both reclaim all garbage. *)
THEOREM CollectorsAreComplete == Spec => CollectionComplete
<1>1. ASSUME CoverInv, NEW t \in Threads, CollectCycles(t) \/ CollectFromSuspects(t)
      PROVE  live' \subseteq Closure(Roots, live)'
  <2> USE DEF CoverInv, Safe
  <2>1. PICK C \in SUBSET live : Collect(t, C) /\ Closed(C, live) /\ suspects \subseteq C
    <3>1. CASE CollectCycles(t)
      BY <1>1, <3>1 DEF CollectCycles, Closed, TypeOK
    <3>2. CASE CollectFromSuspects(t)
      BY <1>1, <3>2, CandidatesClosed DEF CollectFromSuspects
    <3> QED
      BY <1>1, <3>1, <3>2
  <2>2. ASSUME NEW M \in SUBSET Objs, Roots' \subseteq M, Closed(M, live)'
        PROVE  live' \subseteq M
    <3>1. RootsIn(M)'
      BY <2>2 DEF Roots, RootsIn
    <3> QED
      BY <1>1, <2>1, <2>2, <3>1, CollectComplete
  <2>3. live' \subseteq Objs
    BY <1>1, <2>1 DEF Collect, Registered, TypeOK
  <2> QED
    BY <2>2, <2>3 DEF Closure
<1>2. CoverInv /\ [Next]_vars
        => [(\E t \in Threads : CollectCycles(t) \/ CollectFromSuspects(t))
               => live' \subseteq Closure(Roots, live)']_vars
  BY <1>1
<1> QED
  BY <1>2, CoverInit, CoverInductive, PTL DEF Spec, CollectionComplete
=============================================================================

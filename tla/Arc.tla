--------------------------------- MODULE Arc ---------------------------------
(***************************************************************************)
(* Automatic reference counting with a cycle collector, the memory manager *)
(* of the Ori runtime: ori_alloc, ori_arc_retain, ori_arc_release,         *)
(* ori_arc_register_edge, ori_arc_unregister_edge, ori_arc_update_edge (an *)
(* Unlink followed by a Link), ori_arc_collect_cycles and the cooperative  *)
(* collection over the suspect buffer.                                     *)
(*                                                                         *)
(* A step is one critical section under ARC_STATE, one finalizer or one    *)
(* free.  A counted reference is a token r of Refs: it points at to[r] and *)
(* is owned by from[r], which is the program (a variable), an object (a    *)
(* registered edge; parallel edges are separate tokens), or a thread that  *)
(* has given the reference up and has still to release it.  The children   *)
(* of an object that is being destroyed keep that object as their owner    *)
(* until its memory is freed; the registry no longer has these edges.      *)
(***************************************************************************)
EXTENDS Integers, FiniteSets

CONSTANTS Objs,      \* payload addresses
          Threads,
          Refs,        \* bounds how many counted references exist at once
          Program, Nil

ASSUME ArcAssumption ==
  /\ IsFiniteSet(Refs)
  /\ Program \notin Objs \cup Threads /\ Nil \notin Objs \cup Threads \cup {Program}
  /\ Objs \cap Threads = {}

VARIABLES live,       \* ArcState.allocations
          rc,         \* OriHeapHeader.refcount
          suspects,   \* ArcState.suspects
          to, from,   \* the references (ArcState.edges, variables, pending releases)
          dtors,      \* per thread: removed from the registry, finalizer not yet run
          frees       \* per thread: removed from the registry, memory not yet freed

vars == <<live, rc, suspects, to, from, dtors, frees>>

TypeOK ==
  /\ live \subseteq Objs
  /\ rc \in [Objs -> Int]
  /\ suspects \subseteq live
  /\ to \in [Refs -> Objs \cup {Nil}]
  /\ from \in [Refs -> Objs \cup Threads \cup {Program, Nil}]
  /\ \A r \in Refs : to[r] = Nil <=> from[r] = Nil
  /\ dtors \in [Threads -> SUBSET Objs]
  /\ frees \in [Threads -> SUBSET Objs]
  /\ \A t \in Threads : dtors[t] \subseteq frees[t]

Init ==
  /\ live = {} /\ suspects = {}
  /\ rc = [o \in Objs |-> 0]
  /\ to = [r \in Refs |-> Nil]
  /\ from = [r \in Refs |-> Nil]
  /\ dtors = [t \in Threads |-> {}]
  /\ frees = [t \in Threads |-> {}]

-----------------------------------------------------------------------------
(* The heap graph. *)

(* M is closed under the registered edges that end in C. *)
Closed(M, C) == \A r \in Refs : from[r] \in M /\ to[r] \in C => to[r] \in M

(* What is reached from S without leaving C (S itself included). *)
Closure(S, C) ==
  {o \in Objs : \A M \in SUBSET Objs : S \subseteq M /\ Closed(M, C) => o \in M}

RefsTo(o) == {r \in Refs : to[r] = o}
RefsFrom(C, o) == {r \in Refs : to[r] = o /\ from[r] \in C}
HasChildren(o) == \E r \in Refs : from[r] = o

(* The program can name an object through its variables and their fields. *)
Nameable(o) == o \in Closure({to[r] : r \in {q \in Refs : from[q] = Program}}, live)

Idle(t) == frees[t] = {} /\ \A r \in Refs : from[r] # t

NewRef(r, owner, o) ==
  /\ to[r] = Nil
  /\ to' = [to EXCEPT ![r] = o]
  /\ from' = [from EXCEPT ![r] = owner]

MutIncremented(o) == rc

(* refcount.fetch_add(1) *)
Incremented(o) == [rc EXCEPT ![o] = @ + 1]

(* remove_allocation: the registry without D, and the suspects without D *)
(* (clear_suspect).                                                      *)
Registered(D) == live \ D
Cleared(D) == suspects \ D

-----------------------------------------------------------------------------
(* Calls of the program. *)

(* ori_alloc_impl: malloc may hand out any address that is not in use. *)
Alloc(r, o) ==
  /\ o \notin live /\ \A t \in Threads : o \notin frees[t]
  /\ NewRef(r, Program, o)
  /\ live' = live \cup {o}
  /\ rc' = [rc EXCEPT ![o] = 1]
  /\ UNCHANGED <<suspects, dtors, frees>>

(* ori_arc_retain of an object the program can reach. *)
Retain(r, o) ==
  /\ o \in live /\ Nameable(o)
  /\ NewRef(r, Program, o)
  /\ rc' = Incremented(o)
  /\ UNCHANGED <<live, suspects, dtors, frees>>

(* try_register_arc_edge: both ends must be registered. *)
Link(r, a, b) ==
  /\ a \in live /\ b \in live /\ Nameable(a) /\ Nameable(b)
  /\ NewRef(r, a, b)
  /\ rc' = Incremented(b)
  /\ UNCHANGED <<live, suspects, dtors, frees>>

(* ori_arc_unregister_edge: the edge leaves the registry under the lock,   *)
(* the child is released afterwards.                                       *)
Unlink(t, r) ==
  /\ Idle(t) /\ from[r] \in live /\ Nameable(from[r])
  /\ from' = [from EXCEPT ![r] = t]
  /\ UNCHANGED <<live, rc, suspects, to, dtors, frees>>

(* A variable goes out of scope: ori_arc_release is called. *)
Drop(t, r) ==
  /\ Idle(t) /\ from[r] = Program
  /\ from' = [from EXCEPT ![r] = t]
  /\ UNCHANGED <<live, rc, suspects, to, dtors, frees>>

-----------------------------------------------------------------------------
(* ori_arc_release. *)

(* The references of gone no longer exist.  remove_edges_to erases every   *)
(* edge to a dead payload from the registry, but a survivor's field would  *)
(* keep the pointer: only the references of the dead go, so a reference of *)
(* a survivor would stay, and NoDangling would see it.                     *)
Forget(gone) ==
  /\ to' = [r \in Refs |-> IF r \in gone THEN Nil ELSE to[r]]
  /\ from' = [r \in Refs |-> IF r \in gone THEN Nil ELSE from[r]]

(* A payload that is not registered is ignored by the code; NoDangling     *)
(* says that no counted reference ever meets that case.                    *)

MutNeverMark(o) == suspects

(* Only a release that leaves an object with outgoing edges can disconnect *)
(* a cycle (mark_suspect).                                                 *)
MarkSuspect(o) == IF HasChildren(o) THEN suspects \cup {o} ELSE suspects

ReleaseShared(t, r) ==
  /\ from[r] = t /\ frees[t] = {} /\ to[r] \in live /\ rc[to[r]] # 1
  /\ rc' = [rc EXCEPT ![to[r]] = @ - 1]
  /\ suspects' = MarkSuspect(to[r])
  /\ Forget({r})
  /\ UNCHANGED <<live, dtors, frees>>

(* The last reference: take_children_of, remove_edges_to and               *)
(* remove_allocation in the same critical section.                         *)
ReleaseLast(t, r) ==
  /\ from[r] = t /\ frees[t] = {} /\ to[r] \in live /\ rc[to[r]] = 1
  /\ rc' = [rc EXCEPT ![to[r]] = 0]
  /\ live' = Registered({to[r]})
  /\ suspects' = Cleared({to[r]})
  /\ Forget({r})
  /\ dtors' = [dtors EXCEPT ![t] = {to[r]}]
  /\ frees' = [frees EXCEPT ![t] = {to[r]}]

RunDestructor(t, o) ==
  /\ o \in dtors[t]
  /\ dtors' = [dtors EXCEPT ![t] = @ \ {o}]
  /\ UNCHANGED <<live, rc, suspects, to, from, frees>>

CanFree(t) == dtors[t] = {}

(* libc::free; the children it owned are then released one by one. *)
Free(t, o) ==
  /\ o \in frees[t] /\ CanFree(t)
  /\ frees' = [frees EXCEPT ![t] = @ \ {o}]
  /\ from' = [r \in Refs |-> IF from[r] = o THEN t ELSE from[r]]
  /\ UNCHANGED <<live, rc, suspects, to, dtors>>

-----------------------------------------------------------------------------
(* collect_cycles_over_candidates: trial deletion restricted to C. *)

MutTrialAllOwners(C, o) == rc[o] - Cardinality(RefsFrom(live, o))
MutTrialOncePerOwner(C, o) == rc[o] - Cardinality({from[r] : r \in RefsFrom(C, o)})
TrialCount(C, o) == rc[o] - Cardinality(RefsFrom(C, o))

Marked(C) == Closure({o \in C : TrialCount(C, o) > 0}, C)

Dead(C) == C \ Marked(C)

(* The references among the dead disappear with them; a reference of a     *)
(* dead object to a survivor is released after the frees.                  *)
Collect(t, C) ==
  /\ live' = Registered(Dead(C))
  /\ rc' = [o \in Objs |-> IF o \in Dead(C) THEN 0 ELSE rc[o]]
  /\ Forget({r \in Refs : to[r] \in Dead(C) /\ from[r] \in Dead(C)})
  /\ dtors' = [dtors EXCEPT ![t] = Dead(C)]
  /\ frees' = [frees EXCEPT ![t] = Dead(C)]

(* ori_arc_collect_cycles: every allocation is a candidate. *)
CollectCycles(t) ==
  /\ Idle(t)
  /\ Collect(t, live)
  /\ suspects' = Cleared(Dead(live))

Candidates == Closure(suspects, live)

(* collect_cycles_from_suspects: the subgraph below the suspects. *)
CollectFromSuspects(t) ==
  /\ Idle(t) /\ suspects # {}
  /\ Collect(t, Candidates)
  /\ suspects' = {}

-----------------------------------------------------------------------------
Mutate ==
  \/ \E r \in Refs, o \in Objs : Alloc(r, o) \/ Retain(r, o)
  \/ \E r \in Refs, a, b \in Objs : Link(r, a, b)

ThreadStep(t) ==
  \/ \E r \in Refs : Unlink(t, r) \/ Drop(t, r) \/ ReleaseShared(t, r) \/ ReleaseLast(t, r)
  \/ \E o \in Objs : RunDestructor(t, o) \/ Free(t, o)
  \/ CollectCycles(t) \/ CollectFromSuspects(t)

Next == Mutate \/ \E t \in Threads : ThreadStep(t)

Spec == Init /\ [][Next]_vars

-----------------------------------------------------------------------------
(* Properties. *)

(* The count of a registered object is exactly the number of references to *)
(* it: variables, registered edges, and releases still to be made, though  *)
(* edges are registered under the lock and the children that a destroyed   *)
(* or unlinked owner gives up are released after it (ori_arc_release,      *)
(* try_register_arc_edge, collect_cycles_over_candidates).                 *)
RefCountExact == \A o \in live : rc[o] = Cardinality(RefsTo(o))

(* No reference dangles: whatever a variable, an edge or a destroyed       *)
(* object that has still to release its children points at is registered.  *)
(* Neither a release nor a collection, full or partial, frees an object    *)
(* that something can still reach.                                         *)
NoDangling == \A r \in Refs : to[r] # Nil => to[r] \in live

(* An object is destroyed once, by one thread, and its address cannot be   *)
(* registered again before its memory is freed.                            *)
DestroyedOnce ==
  \A t \in Threads : /\ frees[t] \cap live = {}
                     /\ \A u \in Threads \ {t} : frees[t] \cap frees[u] = {}

(* What is referenced from outside the registered graph. *)
Roots == {to[r] : r \in {q \in Refs : from[q] \notin live \cup {Nil}}}

(* Everything registered is reachable from a root or from a suspect: the   *)
(* suspect buffer misses no garbage, so the partial collection may confine *)
(* itself to the subgraph below it.                                        *)
SuspectsCover == live \subseteq Closure(Roots \cup suspects, live)

(* A collection reclaims all the garbage there is, the partial one too:    *)
(* afterwards every registered object is reachable from a root.            *)
CollectionComplete ==
  [][(\E t \in Threads : CollectCycles(t) \/ CollectFromSuspects(t))
       => live' \subseteq Closure(Roots, live)']_vars

=============================================================================

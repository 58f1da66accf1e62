------------------------------- MODULE Embed -------------------------------
(***************************************************************************)
(* The embedding API (ori-embed lib.rs and c_api.rs, and the hosted half   *)
(* of ori-codegen's jit.rs): engines, each owned by one host thread, that  *)
(* compile generations of a module, call them through handles and lend     *)
(* them a host callback; Ori tasks that reach the callback from worker     *)
(* threads; and the leases by which all engines of the process share one   *)
(* runtime.                                                                *)
(*                                                                         *)
(* Host code runs on an engine's thread while its stack is empty or its    *)
(* top frame is a callback: that is the reentry the API allows.  A lease   *)
(* is named after the code it was taken for, <<engine, n>>, and every      *)
(* holder of the lease (module, returned slice, callback binding) by that  *)
(* name.                                                                   *)
(***************************************************************************)
EXTENDS Integers, Sequences, FiniteSets, SequencesExt

CONSTANTS Engines, Workers, None,
          Depth,      \* MAX_HOST_CALLBACK_DEPTH
          MaxCode,    \* compilations of each engine
          MaxIds,     \* callbacks each engine registers
          MaxCalls,   \* calls on each engine's stack
          Cancelling  \* engines whose hosts use cancellation

Threads == Engines \cup Workers
Codes == UNION {{e} \X (1..MaxCode[e]) : e \in Engines}
Ids == UNION {{e} \X (1..MaxIds[e]) : e \in Engines}

ASSUME BoundsAreNatural ==
  /\ Depth \in Nat
  /\ {MaxCode, MaxIds, MaxCalls} \subseteq [Engines -> Nat]
  /\ Cancelling \subseteq Engines /\ IsFiniteSet(Workers)
  /\ None \notin Threads \cup Codes \cup Ids

VARIABLES
  lifecycle, attached,     \* RUNTIME_LIFECYCLE; threads with a signal stack
  leases, closing,         \* RUNTIME_LEASES; who is dropping the last one
  cb, named, box,          \* CALLBACK_STATES; the registry's entry; C boxes
  module, code, old, uses, \* snapshot, current, retired, baked callback ids
  compiled, pc,            \* compilations so far; where compile_source is
  handle, slices,          \* what the host holds
  stack, cbErr, hostErr,   \* of the owner thread
  cancelled, live,         \* cancellation flag; engines that exist
  work,                    \* Ori code on worker threads
  raced                    \* a lease was taken from under a shutdown

runtime == <<lifecycle, attached, leases, closing, raced>>
registry == <<cb, named, box>>
modules == <<module, code, old, uses, compiled, pc>>
calls == <<stack, cbErr, hostErr>>
vars == <<runtime, registry, modules, handle, slices, calls, cancelled, live, work>>

NoModule == [id |-> 0, gen |-> 0]
Unregistered ==
  [mapped |-> FALSE, orphaned |-> FALSE, store |-> "none", active |-> 0, bound |-> None]

(* A call on the owner's stack, and a callback it is in. *)
CallFrames == [k : {"call"}, code : Codes, resolved : Codes, failed : BOOLEAN, nested : BOOLEAN]
CallbackFrames == [k : {"cb"}, id : Ids]

(* store is the store to `orphaned' that the drop has made and no other    *)
(* thread sees yet; "missed" remembers that the last release did not.      *)
Registrations == [mapped : BOOLEAN, orphaned : BOOLEAN, store : {"none", "buffered", "missed"},
                  active : Nat, bound : Codes \cup {None}]
Modules == [id : Nat, gen : Nat]
Handles == [module : Modules, code : Codes]
Counts == [codes : Nat, ids : Nat]
Tasks == [pc : {"idle", "ori", "check", "cb", "rel", "orphan", "remove"}, code : Codes \cup {None}]

TypeOK ==
  /\ lifecycle \in {"Stopped", "Running", "Stopping"} /\ raced \in BOOLEAN
  /\ attached \subseteq Engines /\ leases \subseteq Codes
  /\ closing \in [Threads -> {"no", "zero", "stop"}]
  /\ cb \in [Ids -> Registrations]
  /\ named \in [Engines -> Ids \cup {None}] /\ box \subseteq Ids
  /\ module \in [Engines -> Modules]
  /\ code \in [Engines -> Codes \cup {None}] /\ old \subseteq Codes
  /\ uses \in [Codes -> Ids \cup {None}]
  /\ pc \in [Engines -> {"idle", "lease", "build"}]
  /\ compiled \in [Engines -> Counts]
  /\ \A e \in Engines : compiled[e].codes <= MaxCode[e] /\ compiled[e].ids <= MaxIds[e]
  /\ handle \in [Engines -> Handles \cup {None}] /\ slices \subseteq Codes
  /\ stack \in [Engines -> Seq(CallFrames \cup CallbackFrames)]
  /\ {cbErr, hostErr, cancelled} \subseteq [Engines -> BOOLEAN] /\ live \subseteq Engines
  /\ work \in [Workers -> Tasks]

Init ==
  /\ lifecycle = "Stopped" /\ attached = {} /\ leases = {} /\ raced = FALSE
  /\ closing = [t \in Threads |-> "no"]
  /\ cb = [i \in Ids |-> Unregistered]
  /\ named = [e \in Engines |-> None] /\ box = {}
  /\ module = [e \in Engines |-> NoModule]
  /\ code = [e \in Engines |-> None] /\ old = {}
  /\ uses = [c \in Codes |-> None]
  /\ compiled = [e \in Engines |-> [codes |-> 0, ids |-> 0]]
  /\ pc = [e \in Engines |-> "idle"]
  /\ handle = [e \in Engines |-> None] /\ slices = {}
  /\ stack = [e \in Engines |-> <<>>]
  /\ cbErr = [e \in Engines |-> FALSE] /\ hostErr = [e \in Engines |-> FALSE]
  /\ cancelled = [e \in Engines |-> FALSE] /\ live = Engines
  /\ work = [w \in Workers |-> [pc |-> "idle", code |-> None]]

-----------------------------------------------------------------------------
(* Leases.  Held is what still has a clone of a lease; a step that lets go *)
(* of the last clone drops the lease, and the one that takes the count to  *)
(* zero goes on to shut the runtime down.                                  *)

InCallback == {"check", "cb", "rel", "orphan", "remove"}
StateHeld(i) ==
  \/ cb[i].mapped \/ cb[i].active > 0
  \/ \E w \in Workers : work[w].pc \in InCallback /\ uses[work[w].code] = i

Newest(e) == <<e, compiled[e].codes>>
OwnedLeases ==
  {code[e] : e \in Engines} \cup old \cup {Newest(e) : e \in {b \in Engines : pc[b] = "build"}}
Bindings == {cb[i].bound : i \in {j \in Ids : StateHeld(j)}}

MutHeld == OwnedLeases \cup Bindings
Held == OwnedLeases \cup Bindings \cup slices

Drop(t, kept) ==
  /\ leases' = kept
  /\ closing' = IF leases # {} /\ kept = {} THEN [closing EXCEPT ![t] = "zero"] ELSE closing
  /\ UNCHANGED <<lifecycle, attached, raced>>
Settle(t) == Drop(t, leases \cap Held')

(* ori_rt_shutdown_ex(5000), from the thread that dropped the last lease.  *)
ShutdownBegin(t) ==
  /\ closing[t] = "zero"
  /\ IF lifecycle = "Stopped"
       THEN closing' = [closing EXCEPT ![t] = "no"] /\ UNCHANGED lifecycle
       ELSE closing' = [closing EXCEPT ![t] = "stop"] /\ lifecycle' = "Stopping"
  /\ UNCHANGED <<attached, leases, raced, registry, modules, handle, slices, calls,
                 cancelled, live, work>>

(* A worker that got here waits for itself until the deadline; a thread    *)
(* that is still attached elsewhere is refused too.  After a refusal the   *)
(* library is leaked and the runtime stays "Stopping".                     *)
ShutdownEnd(t) ==
  /\ closing[t] = "stop"
  /\ closing' = [closing EXCEPT ![t] = "no"]
  /\ IF (\A w \in Workers : work[w].pc = "idle") /\ attached \subseteq {t}
       THEN lifecycle' = "Stopped" /\ attached' = {}
       ELSE UNCHANGED <<lifecycle, attached>>
  /\ UNCHANGED <<leases, raced, registry, modules, handle, slices, calls,
                 cancelled, live, work>>

-----------------------------------------------------------------------------
(* Host code on an engine's own thread. *)

Free(e) == e \in live /\ closing[e] = "no" /\ pc[e] = "idle"
AtTop(e) == Free(e) /\ stack[e] = <<>>
HostRuns(e) == Free(e) /\ (stack[e] # <<>> => Last(stack[e]).k = "cb")
OriRuns(e) == Free(e) /\ stack[e] # <<>> /\ Last(stack[e]).k = "call"

RegisterCallback(e) ==
  /\ HostRuns(e) /\ named[e] = None /\ compiled[e].ids < MaxIds[e]
  /\ LET i == <<e, compiled[e].ids + 1>>
     IN  /\ cb' = [cb EXCEPT ![i] = [@ EXCEPT !.mapped = TRUE]]
         /\ named' = [named EXCEPT ![e] = i] /\ box' = box \cup {i}
  /\ compiled' = [compiled EXCEPT ![e].ids = @ + 1]
  /\ UNCHANGED <<runtime, module, code, old, uses, pc, handle, slices, calls,
                 cancelled, live, work>>

MutNotActive(i) == TRUE
NotActive(i) == cb[i].active = 0

(* unregister_callback_state, then the C box.  An active callback is       *)
(* refused and nothing changes.                                            *)
Unregister(i) ==
  /\ NotActive(i)
  /\ cb' = [cb EXCEPT ![i] = [@ EXCEPT !.mapped = FALSE, !.orphaned = TRUE]]
  /\ box' = box \ {i}

RemoveCallback(e) ==
  /\ HostRuns(e) /\ named[e] # None
  /\ Unregister(named[e])
  /\ named' = [named EXCEPT ![e] = None]
  /\ UNCHANGED <<modules, handle, slices, calls, cancelled, live, work>>
  /\ Settle(e)

(* compile_source up to RuntimeErrorApi::load's ori_rt_init, which refuses *)
(* a stopping runtime.                                                     *)
CompileInit(e) ==
  /\ AtTop(e) /\ ~cancelled[e] /\ compiled[e].codes < MaxCode[e]
  /\ lifecycle # "Stopping"
  /\ lifecycle' = "Running"
  /\ attached' = IF lifecycle = "Stopped" THEN attached \cup {e} ELSE attached
  /\ compiled' = [compiled EXCEPT ![e].codes = @ + 1]
  /\ pc' = [pc EXCEPT ![e] = "lease"]
  /\ UNCHANGED <<leases, closing, raced, registry, module, code, old, uses, handle,
                 slices, calls, cancelled, live, work>>

TakeLease(e) ==
  /\ pc[e] = "lease"
  /\ leases' = leases \cup {Newest(e)}
  /\ raced' = (raced \/ lifecycle # "Running" \/ \E t \in Threads : closing[t] # "no")
  /\ pc' = [pc EXCEPT ![e] = "build"]
  /\ UNCHANGED <<lifecycle, attached, closing, registry, module, code, old, uses, compiled,
                 handle, slices, calls, cancelled, live, work>>

(* The global initialiser ran: the callback it made may have failed, which *)
(* only fills the slot.                                                    *)
MutNextModule(e) == IF module[e] = NoModule THEN [id |-> 1, gen |-> 1] ELSE [module[e] EXCEPT !.gen = @ + 1]
NextModule(e) ==
  IF module[e].gen = 0
    THEN [id |-> module[e].id + 1, gen |-> 1]
    ELSE [module[e] EXCEPT !.gen = @ + 1]

Publish(e) ==
  /\ pc[e] = "build"
  /\ cbErr' \in {cbErr, [cbErr EXCEPT ![e] = @ \/ named[e] # None]}
  /\ module' = [module EXCEPT ![e] = NextModule(e)]
  /\ code' = [code EXCEPT ![e] = Newest(e)]
  /\ old' = old \cup ({code[e]} \ {None})
  /\ uses' = [uses EXCEPT ![Newest(e)] = named[e]]
  /\ cb' = IF named[e] = None THEN cb ELSE [cb EXCEPT ![named[e]].bound = Newest(e)]
  /\ pc' = [pc EXCEPT ![e] = "idle"]
  /\ UNCHANGED <<named, box, compiled, handle, slices, stack, hostErr,
                 cancelled, live, work>>
  /\ Settle(e)

(* Code generation or the global initialiser failed: the lease is dropped. *)
CompileFails(e) ==
  /\ pc[e] = "build"
  /\ pc' = [pc EXCEPT ![e] = "idle"]
  /\ Drop(e, leases \ {Newest(e)})
  /\ UNCHANGED <<registry, module, code, old, uses, compiled, handle, slices, calls,
                 cancelled, live, work>>

(* unload_module: the module id is not used again, generations restart.    *)
Unload(e) ==
  /\ AtTop(e) /\ code[e] # None
  /\ code' = [code EXCEPT ![e] = None]
  /\ old' = {c \in old : c[1] # e}
  /\ module' = [module EXCEPT ![e].gen = 0]
  /\ UNCHANGED <<registry, uses, compiled, pc, handle, slices, calls, cancelled, live, work>>
  /\ Settle(e)

Resolve(e) ==
  /\ HostRuns(e) /\ code[e] # None
  /\ handle' = [handle EXCEPT ![e] = [module |-> module[e], code |-> code[e]]]
  /\ UNCHANGED <<runtime, registry, modules, slices, calls, cancelled, live, work>>

ReleaseHandle(e) ==
  /\ AtTop(e) /\ handle[e] # None
  /\ handle' = [handle EXCEPT ![e] = None]
  /\ UNCHANGED <<runtime, registry, modules, slices, calls, cancelled, live, work>>

DropSlice(e) ==
  /\ HostRuns(e)
  /\ \E c \in slices : c[1] = e /\ slices' = slices \ {c}
  /\ UNCHANGED <<registry, modules, handle, calls, cancelled, live, work>>
  /\ Settle(e)

Cancel(e) ==
  /\ e \in live \cap Cancelling /\ ~cancelled[e] /\ cancelled' = [cancelled EXCEPT ![e] = TRUE]
  /\ UNCHANGED <<runtime, registry, modules, handle, slices, calls, live, work>>

ResetCancellation(e) ==
  /\ HostRuns(e) /\ cancelled[e] /\ cancelled' = [cancelled EXCEPT ![e] = FALSE]
  /\ UNCHANGED <<runtime, registry, modules, handle, slices, calls, live, work>>

Emptied(e) ==
  /\ code' = [code EXCEPT ![e] = None]
  /\ old' = {c \in old : c[1] # e}
  /\ live' = live \ {e}
  /\ named' = [named EXCEPT ![e] = None]
  /\ handle' = [handle EXCEPT ![e] = None]
  /\ UNCHANGED <<module, uses, compiled, pc, slices, calls, cancelled, work>>
  /\ Settle(e)

(* ori_embed_context_destroy: every handle released, no callback active.   *)
ContextDestroy(e) ==
  /\ HostRuns(e) /\ handle[e] = None /\ \A c \in slices : c[1] # e
  /\ IF named[e] = None THEN UNCHANGED <<cb, box>> ELSE Unregister(named[e])
  /\ Emptied(e)

(* Dropping a Rust OriEngine: orphan_callback_state; the host keeps        *)
(* user_data alive for calls still running.                                *)
MutOrphan(i) == [cb EXCEPT ![i] = [@ EXCEPT !.orphaned = TRUE]]
Orphan(i) ==
  IF cb[i].active = 0
    THEN [cb EXCEPT ![i] = [@ EXCEPT !.mapped = FALSE, !.orphaned = TRUE]]
    ELSE [cb EXCEPT ![i] = [@ EXCEPT !.orphaned = TRUE]]

(* Release and Acquire let the load of the count overtake the store: the   *)
(* drop has seen a call, and `orphaned' is not set for the others yet.     *)
Overtaken(i) == [cb EXCEPT ![i].store = "buffered"]

DropEngine(e) ==
  /\ AtTop(e)
  /\ \/ named[e] = None /\ UNCHANGED cb
     \/ named[e] # None /\ cb' = Orphan(named[e])
     \/ named[e] # None /\ cb[named[e]].active > 0 /\ cb' = Overtaken(named[e])
  /\ UNCHANGED box
  /\ Emptied(e)

InFlight(i) == cb[i].store # "none" /\ ~cb[i].orphaned

(* The store arrives; the drop holds the map's mutex until it has. *)
StoreArrives(i) ==
  /\ InFlight(i)
  /\ LET left == IF cb[i].store = "buffered" THEN "none" ELSE cb[i].store IN
     cb' = [cb EXCEPT ![i] = [@ EXCEPT !.orphaned = TRUE, !.store = left]]
  /\ UNCHANGED <<runtime, named, box, modules, handle, slices, calls, cancelled, live, work>>

(* The thread of a dropped engine ends; its signal stack goes with it.     *)
ThreadEnds(e) ==
  /\ e \in attached \ live /\ closing[e] = "no"
  /\ attached' = attached \ {e}
  /\ UNCHANGED <<lifecycle, leases, closing, raced, registry, modules, handle, slices, calls,
                 cancelled, live, work>>

-----------------------------------------------------------------------------
(* Calls on the owner's thread. *)

CallsIn(s) == Cardinality({k \in DOMAIN s : s[k].k = "call"})
Marked(s) == [k \in DOMAIN s |-> IF s[k].k = "call" THEN [s[k] EXCEPT !.nested = TRUE] ELSE s[k]]
Failing(s) == [s EXCEPT ![Len(s)].failed = TRUE]

MutCleared(e) == cbErr[e]
Cleared(e) == FALSE

Current(e) == handle[e] # None /\ code[e] # None /\ handle[e].module = module[e]

Call(e) ==
  /\ HostRuns(e) /\ ~cancelled[e] /\ Current(e) /\ CallsIn(stack[e]) < MaxCalls[e]
  /\ stack' = [stack EXCEPT ![e] =
       Append(Marked(@), [k |-> "call", code |-> code[e], resolved |-> handle[e].code,
                          failed |-> FALSE, nested |-> FALSE])]
  /\ cbErr' = [cbErr EXCEPT ![e] = Cleared(e)] /\ hostErr' = [hostErr EXCEPT ![e] = FALSE]
  /\ UNCHANGED <<runtime, registry, modules, handle, slices, cancelled, live, work>>

(* A hosted trap or a recoverable runtime error in Ori code. *)
OriError(e) ==
  /\ OriRuns(e)
  /\ hostErr' = [hostErr EXCEPT ![e] = TRUE]
  /\ stack' = [stack EXCEPT ![e] = Failing(@)]
  /\ UNCHANGED <<runtime, registry, modules, handle, slices, cbErr, cancelled, live, work>>

Acquirable(i) == cb[i].mapped /\ ~cb[i].orphaned

(* begin_callback: refused at the depth limit, unregistered or cancelled.  *)
Invoke(e) ==
  /\ OriRuns(e) /\ uses[Last(stack[e]).code] # None
  /\ LET i == uses[Last(stack[e]).code]
         d == Len(stack[e]) - CallsIn(stack[e])
     IN  IF d < Depth /\ Acquirable(i) /\ ~cancelled[e]
           THEN /\ cb' = [cb EXCEPT ![i].active = @ + 1]
                /\ stack' = [stack EXCEPT ![e] = Append(@, [k |-> "cb", id |-> i])]
                /\ UNCHANGED cbErr
           ELSE /\ cbErr' = [cbErr EXCEPT ![e] = TRUE]
                /\ stack' = [stack EXCEPT ![e] = Failing(@)]
                /\ UNCHANGED cb
  /\ UNCHANGED <<runtime, named, box, modules, handle, slices, hostErr,
                 cancelled, live, work>>

(* The callback returns a value, or panics or reports a bad status.  The   *)
(* owner's own thread is the only one that orphans, so finish_callback     *)
(* never removes here.                                                     *)
CallbackReturns(e) ==
  /\ HostRuns(e) /\ stack[e] # <<>>
  /\ cb' = [cb EXCEPT ![Last(stack[e]).id].active = @ - 1]
  /\ \/ stack' = [stack EXCEPT ![e] = Front(@)] /\ UNCHANGED cbErr
     \/ /\ stack' = [stack EXCEPT ![e] = Failing(Front(@))]
        /\ cbErr' = [cbErr EXCEPT ![e] = TRUE]
  /\ UNCHANGED <<runtime, named, box, modules, handle, slices, hostErr,
                 cancelled, live, work>>

(* The runtime's slot is read and left as it is; the callback slot is only *)
(* reached, and taken, when that one was clear.                            *)
Traps(e) == hostErr[e] \/ cbErr[e]

Return(e) ==
  /\ OriRuns(e)
  /\ cbErr' = [cbErr EXCEPT ![e] = @ /\ hostErr[e]]
  /\ IF Traps(e)
       THEN UNCHANGED slices
       ELSE slices' \in {slices, slices \cup {Last(stack[e]).code}}
  /\ stack' = [stack EXCEPT ![e] = Front(@)]
  /\ UNCHANGED <<runtime, registry, modules, handle, hostErr, cancelled, live, work>>

-----------------------------------------------------------------------------
(* Ori tasks that a call left on a worker thread. *)

Step(w, p) == work' = [work EXCEPT ![w].pc = p]
IdOf(w) == uses[work[w].code]

Spawn(w, e) ==
  /\ OriRuns(e) /\ work[w].pc = "idle" /\ closing[w] = "no" /\ lifecycle = "Running"
  /\ work' = [work EXCEPT ![w] = [pc |-> "ori", code |-> Last(stack[e]).code]]
  /\ UNCHANGED <<runtime, registry, modules, handle, slices, calls, cancelled, live>>

(* acquire_callback, under the map's mutex.  A refusal goes to the         *)
(* worker's own error slot, which nobody reads.                            *)
TaskAcquires(w) ==
  /\ work[w].pc = "ori" /\ closing[w] = "no" /\ IdOf(w) # None
  /\ Acquirable(IdOf(w)) /\ ~InFlight(IdOf(w))
  /\ cb' = [cb EXCEPT ![IdOf(w)].active = @ + 1]
  /\ Step(w, "check")
  /\ UNCHANGED <<runtime, named, box, modules, handle, slices, calls, cancelled, live>>

TaskChecks(w) ==
  /\ work[w].pc = "check"
  /\ Step(w, IF cancelled[work[w].code[1]] THEN "rel" ELSE "cb")
  /\ UNCHANGED <<runtime, registry, modules, handle, slices, calls, cancelled, live>>

TaskReturns(w) ==
  /\ work[w].pc = "cb" /\ Step(w, "rel")
  /\ UNCHANGED <<runtime, registry, modules, handle, slices, calls, cancelled, live>>

(* release_callback: the count goes down outside the mutex, ... *)
TaskReleases(w) ==
  /\ work[w].pc = "rel"
  /\ cb' = [cb EXCEPT ![IdOf(w)].active = @ - 1]
  /\ Step(w, IF cb[IdOf(w)].active = 1 THEN "orphan" ELSE "ori")
  /\ UNCHANGED <<named, box, modules, handle, slices, calls, cancelled, live>>
  /\ Settle(w)

(* ... then `orphaned' is read, ... *)
TaskReadsOrphan(w) ==
  /\ work[w].pc = "orphan"
  /\ Step(w, IF cb[IdOf(w)].orphaned THEN "remove" ELSE "ori")
  /\ cb' = IF InFlight(IdOf(w)) /\ cb[IdOf(w)].active = 0
             THEN [cb EXCEPT ![IdOf(w)].store = "missed"] ELSE cb
  /\ UNCHANGED <<named, box, modules, handle, slices, calls, cancelled, live>>
  /\ Settle(w)

(* ... and the entry removed under the mutex. *)
TaskRemoves(w) ==
  /\ work[w].pc = "remove"
  /\ cb' = [cb EXCEPT ![IdOf(w)].mapped = FALSE]
  /\ Step(w, "ori")
  /\ UNCHANGED <<named, box, modules, handle, slices, calls, cancelled, live>>
  /\ Settle(w)

TaskEnds(w) ==
  /\ work[w].pc = "ori" /\ closing[w] = "no"
  /\ work' = [work EXCEPT ![w] = [pc |-> "idle", code |-> None]]
  /\ UNCHANGED <<runtime, registry, modules, handle, slices, calls, cancelled, live>>

-----------------------------------------------------------------------------
Host(e) ==
  \/ RegisterCallback(e) \/ RemoveCallback(e)
  \/ CompileInit(e) \/ TakeLease(e) \/ Publish(e) \/ CompileFails(e) \/ Unload(e)
  \/ Resolve(e) \/ ReleaseHandle(e) \/ DropSlice(e)
  \/ Cancel(e) \/ ResetCancellation(e)
  \/ ContextDestroy(e) \/ DropEngine(e) \/ ThreadEnds(e)
  \/ Call(e) \/ OriError(e) \/ Invoke(e) \/ CallbackReturns(e) \/ Return(e)

Task(w) ==
  \/ \E e \in Engines : Spawn(w, e)
  \/ TaskAcquires(w) \/ TaskChecks(w) \/ TaskReturns(w)
  \/ TaskReleases(w) \/ TaskReadsOrphan(w) \/ TaskRemoves(w) \/ TaskEnds(w)

Next ==
  \/ \E e \in Engines : Host(e)
  \/ \E w \in Workers : Task(w)
  \/ \E i \in Ids : StoreArrives(i)
  \/ \E t \in Threads : ShutdownBegin(t) \/ ShutdownEnd(t)

Spec == Init /\ [][Next]_vars

-----------------------------------------------------------------------------
(* While host callback code runs, on the owner's stack or on a worker, its *)
(* registration is still there: unregister and destroy are refused until   *)
(* every call is out, however a worker's acquire and release fall around   *)
(* them.                                                                   *)
CallbackAlive ==
  /\ \A e \in Engines : \A k \in DOMAIN stack[e] : stack[e][k].k = "cb" => stack[e][k].id \in box
  /\ \A w \in Workers : work[w].pc = "cb" => IdOf(w) \in box

(* An orphaned entry of the process-wide callback map, with nobody inside  *)
(* and nobody about to remove it, is gone, with one exception: the drop of *)
(* the engine and the last release leave the removal to each other when    *)
(* that release reads `orphaned' after the drop has read the count and     *)
(* before its store arrives (orphan_callback_state, release_callback).     *)
NoCallbackLeak ==
  \A i \in Ids :
    cb[i].orphaned /\ cb[i].mapped =>
      \/ cb[i].active > 0
      \/ \E w \in Workers : work[w].pc \in {"orphan", "remove"} /\ IdOf(w) = i
      \/ cb[i].store = "missed"

(* A call runs the code its handle was resolved to, also when the module   *)
(* was unloaded and compiled again and its generations restarted.          *)
HandleRunsItsCode ==
  \A e \in Engines : \A k \in DOMAIN stack[e] :
    stack[e][k].k = "call" => stack[e][k].code = stack[e][k].resolved

(* A call during which no other call of the thread was made traps, if it   *)
(* returns now, exactly when its own Ori code or one of its callbacks      *)
(* failed, whatever earlier calls and compilations left in the two error   *)
(* slots.                                                                  *)
OutcomeExact ==
  \A e \in Engines :
    OriRuns(e) /\ ~Last(stack[e]).nested => (Traps(e) <=> Last(stack[e]).failed)

(* Nothing that needs the runtime outlives it: while a module, a returned  *)
(* slice or a callback's binding exists the runtime is running, provided   *)
(* no lease was taken while another thread was shutting the runtime down.  *)
HeldMeansRunning ==
  (~raced /\ \/ \E e \in Engines : code[e] # None
             \/ slices # {}
             \/ \E i \in Ids : StateHeld(i) /\ cb[i].bound # None)
    => lifecycle = "Running"

=============================================================================

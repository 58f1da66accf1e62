--------------------------- MODULE LifecycleProofs ---------------------------
(***************************************************************************)
(* A host that keeps the documented order may unload the runtime when      *)
(* ori_rt_shutdown_ex returns 0, for any number of workers and of foreign  *)
(* threads.                                                                *)
(***************************************************************************)
EXTENDS Lifecycle, FiniteSetTheorems, TLAPS

NoneLive == \A w \in Workers : pc[w] \notin Live

(* Where the host is determines the lifecycle, the flag and the count. *)
HostPhase ==
  /\ pc[Host] \in Stopping => initCount = 1
  /\ pc[Host] \in Stopping \ {"stop"} => lifecycle = "Stopping" /\ flag
  /\ pc[Host] \in Installing => initCount = 1 /\ lifecycle = "Stopping"
  /\ initCount = 0 <=> lifecycle = "Stopped"
  /\ booted => initCount = 1 /\ pc[Host] \notin Installing

(* Nobody is inside while the runtime is down or past its last check. *)
Quiet ==
  /\ initCount = 0 \/ pc[Host] \in Installing \cup {"join", "check", "finish"} => NoneLive
  /\ initCount = 0 \/ pc[Host] \in Installing =>
       attached \subseteq {Host} /\ \A f \in Foreign : pc[f] = "out"
  /\ pc[Host] \in Stopping => \A f \in Foreign : pc[f] \notin Installing
  /\ \A f \in Foreign : pc[f] = "in" => f \in attached

(* The handler is there while the runtime is up, and install() knows it. *)
Handler ==
  /\ initCount = 1 /\ pc[Host] \notin Installing \cup {"finish"} => installed
  /\ pc[Host] = "finish" => attached = {} /\ ~installed
  /\ pc[Host] = "attach" => installed
  /\ pc[Host] \in {"handler", "attach"} /\ ~was[Host] => attached = {}
  /\ \A t \in Foreign \cup Workers : pc[t] \in {"handler", "attach"} => was[t]
  /\ GuardInstalled

Returned == result = "ok" => initCount = 0 /\ attached = {} /\ ~installed

-----------------------------------------------------------------------------
(* Every step of the host, the workers and the foreign threads is well typed. *)
LEMMA TypeStep == ASSUME TypeOK, [Next]_vars PROVE TypeOK'
  <1> USE LifecycleAssumption DEF LifecycleAssumption
  <1>1. CASE RtInit
    BY TypeOK, <1>1 DEF RtInit, TypeOK, Goto, runtime, guard, host, Live, Installing, Stopping,
         Threads
  <1>2. CASE RtInitAgain
    BY TypeOK, <1>2 DEF RtInitAgain, TypeOK, Goto, runtime, guard, host, Live, Installing,
         Stopping, Threads
  <1>3. CASE RtShutdown
    BY TypeOK, <1>3 DEF RtShutdown, TypeOK, Goto, runtime, guard, host, Live, Installing,
         Stopping, Threads
  <1>4. CASE Stop
    BY TypeOK, <1>4 DEF Stop, TypeOK, Goto, runtime, guard, host, Live, Installing, Stopping,
         Threads
  <1>5. CASE WaitActive
    BY TypeOK, <1>5 DEF WaitActive, TypeOK, Goto, runtime, guard, host, Live, Installing,
         Stopping, Threads
  <1>6. CASE JoinWorkers
    BY TypeOK, <1>6 DEF JoinWorkers, TypeOK, Goto, runtime, guard, host, Live, Installing,
         Stopping, Threads
  <1>7. CASE CheckAttached
    BY TypeOK, <1>7 DEF CheckAttached, TypeOK, Goto, runtime, guard, host, Live, Installing,
         Stopping, Threads
  <1>8. CASE Finish
    BY TypeOK, <1>8 DEF Finish, TypeOK, Goto, runtime, guard, host, Live, Installing, Stopping,
         Threads
  <1>9. ASSUME NEW t \in Threads, ReadInstalled(t) PROVE TypeOK'
    BY TypeOK, <1>9 DEF ReadInstalled, Installed, KeepsHandler, TypeOK, Goto, runtime, guard,
         host, Live, Installing, Stopping, Threads
  <1>10. ASSUME NEW t \in Threads, InstallHandler(t) PROVE TypeOK'
    <2>1. flag' \in BOOLEAN
      BY <1>10, TypeOK DEF TypeOK, InstallHandler, Installed, runtime
    <2>2. installed' \in BOOLEAN
      BY <1>10, TypeOK DEF TypeOK, InstallHandler, Installed, guard
    <2>3. booted' \in BOOLEAN
      BY <1>10, TypeOK DEF TypeOK, InstallHandler, Installed, host
    <2>4. was' \in [Threads -> BOOLEAN]
      BY <1>10, TypeOK DEF TypeOK, InstallHandler, Installed, guard
    <2>5. active' \in Nat /\ initCount' \in {0, 1} /\ attached' \subseteq Threads
      BY <1>10, TypeOK DEF TypeOK, InstallHandler, Installed, guard, runtime, Threads
    <2>6. lifecycle' \in {"Stopped", "Running", "Stopping"} /\ result' \in {"none", "ok", "busy"}
      BY <1>10, TypeOK DEF TypeOK, InstallHandler, Installed, host, runtime
    <2>7. (pc \in [Threads -> {"idle", "out", "in", "none", "exiting"} \cup Stopping \cup Live])'
      BY <1>10, TypeOK DEF TypeOK, InstallHandler, Installed, Goto, Live, Threads, Installing
    <2>8. (pc[Host] \in {"idle"} \cup Stopping \cup Installing)'
      BY <1>10, TypeOK DEF TypeOK, InstallHandler, Installed, Goto, Live, Threads, Installing
    <2>9. \A f \in Foreign : pc'[f] \in {"out", "in"} \cup Installing
      BY <1>10, TypeOK DEF TypeOK, InstallHandler, Installed, Goto, Live, Threads, Installing
    <2>10. \A w \in Workers : pc'[w] \in {"none", "exiting"} \cup Live
      BY <1>10, TypeOK DEF TypeOK, InstallHandler, Installed, Goto, Live, Threads, Installing
    <2> QED
      BY <2>1, <2>2, <2>3, <2>4, <2>5, <2>6, <2>7, <2>8, <2>9, <2>10 DEF TypeOK
  <1>11. ASSUME NEW t \in Threads, AttachThread(t) PROVE TypeOK'
    <2>1. flag' \in BOOLEAN
      BY <1>11, TypeOK DEF TypeOK, AttachThread, Installed, KeepsHandler, runtime
    <2>2. installed' \in BOOLEAN
      BY <1>11, TypeOK DEF TypeOK, AttachThread, Installed, KeepsHandler, guard
    <2>3. booted' \in BOOLEAN
      BY <1>11, TypeOK DEF TypeOK, AttachThread, Installed, KeepsHandler, host
    <2>4. was' \in [Threads -> BOOLEAN]
      BY <1>11, TypeOK DEF TypeOK, AttachThread, Installed, KeepsHandler, guard
    <2>5. active' \in Nat /\ initCount' \in {0, 1} /\ attached' \subseteq Threads
      BY <1>11, TypeOK DEF TypeOK, AttachThread, Installed, KeepsHandler, guard, runtime, Threads
    <2>6. lifecycle' \in {"Stopped", "Running", "Stopping"} /\ result' \in {"none", "ok", "busy"}
      BY <1>11, TypeOK DEF TypeOK, AttachThread, Installed, KeepsHandler, host, runtime
    <2>7. (pc \in [Threads -> {"idle", "out", "in", "none", "exiting"} \cup Stopping \cup Live])'
      BY <1>11, TypeOK DEF TypeOK, AttachThread, Installed, KeepsHandler, Goto, Live, Threads
    <2>8. (pc[Host] \in {"idle"} \cup Stopping \cup Installing)'
      BY <1>11, TypeOK DEF TypeOK, AttachThread, Installed, KeepsHandler, Goto, Live, Threads,
           Installing
    <2>9. \A f \in Foreign : pc'[f] \in {"out", "in"} \cup Installing
      BY <1>11, TypeOK DEF TypeOK, AttachThread, Installed, KeepsHandler, Goto, Live, Threads,
           Installing
    <2>10. \A w \in Workers : pc'[w] \in {"none", "exiting"} \cup Live
      BY <1>11, TypeOK DEF TypeOK, AttachThread, Installed, KeepsHandler, Goto, Live, Threads,
           Installing
    <2> QED
      BY <2>1, <2>2, <2>3, <2>4, <2>5, <2>6, <2>7, <2>8, <2>9, <2>10 DEF TypeOK
  <1>12. ASSUME NEW w \in Workers, Admit(w) PROVE TypeOK'
    <2>1. flag' \in BOOLEAN
      BY <1>12, TypeOK DEF TypeOK, Admit
    <2>2. booted' \in BOOLEAN /\ installed' \in BOOLEAN /\ was' \in [Threads -> BOOLEAN]
      BY <1>12, TypeOK DEF TypeOK, Admit, guard, host
    <2>3. /\ pc[w] = "none" /\ pc' = [pc EXCEPT ![w] = "admitted"] /\ active' = active + 1
          /\ lifecycle' = "Running" /\ UNCHANGED <<initCount, attached, result>>
      BY <1>12 DEF Admit, Goto, guard, host
    <2> QED
      BY <2>1, <2>2, <2>3, TypeOK DEF TypeOK, Live, Installing, Stopping, Threads
  <1>13. ASSUME NEW w \in Workers, OsSpawn(w) PROVE TypeOK'
    BY TypeOK, <1>13 DEF OsSpawn, AfterFailedSpawn, Less, TypeOK, Goto, runtime, guard, host,
         Live, Installing, Stopping, Threads
  <1>14. ASSUME NEW w \in Workers, WorkerReturns(w) PROVE TypeOK'
    BY TypeOK, <1>14 DEF WorkerReturns, AfterFailedSpawn, Less, TypeOK, Goto, runtime, guard,
         host, Live, Installing, Stopping, Threads
  <1>15. ASSUME NEW w \in Workers, WorkerGone(w) PROVE TypeOK'
    BY TypeOK, <1>15 DEF WorkerGone, AfterFailedSpawn, Less, TypeOK, Goto, runtime, guard, host,
         Live, Installing, Stopping, Threads
  <1>16. ASSUME NEW f \in Foreign, Attach(f) PROVE TypeOK'
    BY TypeOK, <1>16 DEF Attach, TypeOK, Goto, runtime, guard, host, Live, Installing, Stopping,
         Threads
  <1>17. ASSUME NEW f \in Foreign, Detach(f) PROVE TypeOK'
    BY TypeOK, <1>17 DEF Detach, TypeOK, Goto, runtime, guard, host, Live, Installing, Stopping,
         Threads
  <1>18. CASE UNCHANGED vars
    BY TypeOK, <1>18 DEF vars, TypeOK, Goto, runtime, guard, host, Live, Installing, Stopping,
         Threads
  <1>19. QED
    BY <1>1, <1>2, <1>3, <1>4, <1>5, <1>6, <1>7, <1>8, <1>9, <1>10, <1>11, <1>12, <1>13, <1>14,
         <1>15, <1>16, <1>17, <1>18 DEF Next, HostStep, Install

-----------------------------------------------------------------------------
LiveSet == {w \in Workers : pc[w] \in Live}

(* A worker that stops counting takes one off the count, never below zero. *)
LEMMA Leaves ==
  ASSUME TypeOK, ActiveExact, NEW w \in Workers, w \in LiveSet,
         LiveSet' = LiveSet \ {w}, active' = Less(active)
  PROVE  ActiveExact'
  <1>1. IsFiniteSet(LiveSet)
    BY LifecycleAssumption, FS_Subset DEF LifecycleAssumption, LiveSet
  <1>2. Cardinality(LiveSet \ {w}) = Cardinality(LiveSet) - 1
    BY <1>1, FS_RemoveElement
  <1>3. Cardinality(LiveSet) \in Nat /\ Cardinality(LiveSet \ {w}) \in Nat
    BY <1>1, FS_CardinalityType, FS_RemoveElement
  <1>4. active = Cardinality(LiveSet)
    BY DEF ActiveExact, LiveSet
  <1>5. active' = Cardinality(LiveSet')
    BY <1>2, <1>3, <1>4 DEF Less
  <1> QED
    BY <1>5 DEF ActiveExact, LiveSet

(* Admission, a failed spawn and a worker's end keep ACTIVE_WORKERS exact. *)
LEMMA CountStep == ASSUME TypeOK, ActiveExact, [Next]_vars PROVE ActiveExact'
  <1> USE LifecycleAssumption DEF LifecycleAssumption
  <1>1. active = Cardinality(LiveSet) /\ (ActiveExact' <=> active' = Cardinality(LiveSet'))
    BY DEF ActiveExact, LiveSet
  <1>2. IsFiniteSet(LiveSet)
    BY FS_Subset DEF LiveSet
  <1>3. CASE RtInit
    BY <1>1, <1>3, TypeOK DEF RtInit, runtime, TypeOK, Goto, Live, Installing, Stopping, Threads,
         LiveSet
  <1>4. CASE RtInitAgain
    BY <1>1, <1>4, TypeOK DEF RtInitAgain, runtime, TypeOK, Goto, Live, Installing, Stopping,
         Threads, LiveSet
  <1>5. CASE RtShutdown
    BY <1>1, <1>5, TypeOK DEF RtShutdown, runtime, TypeOK, Goto, Live, Installing, Stopping,
         Threads, LiveSet
  <1>6. CASE Stop
    BY <1>1, <1>6, TypeOK DEF Stop, runtime, TypeOK, Goto, Live, Installing, Stopping, Threads,
         LiveSet
  <1>7. CASE WaitActive
    BY <1>1, <1>7, TypeOK DEF WaitActive, runtime, TypeOK, Goto, Live, Installing, Stopping,
         Threads, LiveSet
  <1>8. CASE JoinWorkers
    BY <1>1, <1>8, TypeOK DEF JoinWorkers, runtime, TypeOK, Goto, Live, Installing, Stopping,
         Threads, LiveSet
  <1>9. CASE CheckAttached
    BY <1>1, <1>9, TypeOK DEF CheckAttached, runtime, TypeOK, Goto, Live, Installing, Stopping,
         Threads, LiveSet
  <1>10. CASE Finish
    BY <1>1, <1>10, TypeOK DEF Finish, runtime, TypeOK, Goto, Live, Installing, Stopping, Threads,
         LiveSet
  <1>11. ASSUME NEW t \in Threads, ReadInstalled(t) PROVE ActiveExact'
    BY <1>1, <1>11, TypeOK DEF ReadInstalled, Installed, runtime, TypeOK, Goto, Live, Installing,
         Stopping, Threads, LiveSet
  <1>12. ASSUME NEW t \in Threads, InstallHandler(t) PROVE ActiveExact'
    BY <1>1, <1>12, TypeOK DEF InstallHandler, Installed, runtime, TypeOK, Goto, Live, Installing,
         Stopping, Threads, LiveSet
  <1>13. ASSUME NEW t \in Threads, AttachThread(t) PROVE ActiveExact'
    BY <1>1, <1>13, TypeOK DEF AttachThread, Installed, runtime, TypeOK, Goto, Live, Installing,
         Stopping, Threads, LiveSet
  <1>14. ASSUME NEW w \in Workers, Admit(w) PROVE ActiveExact'
    <2>1. LiveSet' = LiveSet \cup {w} /\ w \notin LiveSet /\ active' = active + 1
      BY <1>14, TypeOK DEF Admit, TypeOK, Goto, Live, Installing, Stopping, Threads, LiveSet
    <2>2. Cardinality(LiveSet \cup {w}) = Cardinality(LiveSet) + 1
      BY <1>2, <2>1, FS_AddElement
    <2> QED
      BY <1>1, <2>1, <2>2
  <1>15. ASSUME NEW w \in Workers, OsSpawn(w) PROVE ActiveExact'
    <2>1. CASE active' = active /\ pc' = [pc EXCEPT ![w] = "install"]
      BY <1>1, <1>15, <2>1, TypeOK DEF OsSpawn, TypeOK, Goto, Live, Installing, Stopping, Threads,
           LiveSet
    <2>2. CASE active' = Less(active) /\ pc' = [pc EXCEPT ![w] = "none"]
      BY <1>15, <2>2, <1>1, Leaves, TypeOK DEF OsSpawn, TypeOK, Goto, Live, Installing, Stopping,
           Threads, LiveSet
    <2> QED
      BY <1>15, <2>1, <2>2 DEF OsSpawn, Goto, AfterFailedSpawn
  <1>16. ASSUME NEW w \in Workers, WorkerReturns(w) PROVE ActiveExact'
    BY <1>16, <1>1, Leaves, TypeOK DEF WorkerReturns, TypeOK, Goto, Live, Installing, Stopping,
         Threads, LiveSet
  <1>17. ASSUME NEW w \in Workers, WorkerGone(w) PROVE ActiveExact'
    BY <1>17, <1>1, TypeOK DEF WorkerGone, runtime, TypeOK, Goto, Live, Installing, Stopping,
         Threads, LiveSet
  <1>18. ASSUME NEW f \in Foreign, Attach(f) PROVE ActiveExact'
    BY <1>18, <1>1, TypeOK DEF Attach, runtime, TypeOK, Goto, Live, Installing, Stopping, Threads,
         LiveSet
  <1>19. ASSUME NEW f \in Foreign, Detach(f) PROVE ActiveExact'
    BY <1>19, <1>1, TypeOK DEF Detach, runtime, TypeOK, Goto, Live, Installing, Stopping, Threads,
         LiveSet
  <1>20. CASE UNCHANGED vars
    BY <1>1, <1>20 DEF vars, LiveSet
  <1>21. QED
    BY <1>3, <1>4, <1>5, <1>6, <1>7, <1>8, <1>9, <1>10, <1>11, <1>12, <1>13, <1>14, <1>15, <1>16,
         <1>17, <1>18, <1>19, <1>20 DEF Next, HostStep, Install

-----------------------------------------------------------------------------
Safe == HostPhase /\ Quiet /\ Handler /\ Returned

(* When the count is zero no worker is between admission and its end. *)
LEMMA ZeroLive == ASSUME TypeOK, ActiveExact, active = 0 PROVE NoneLive
  <1>1. IsFiniteSet(LiveSet) /\ Cardinality(LiveSet) = 0
    BY LifecycleAssumption, FS_Subset DEF LifecycleAssumption, LiveSet, ActiveExact
  <1>2. LiveSet = {}
    BY <1>1, FS_EmptySet
  <1> QED
    BY <1>2 DEF LiveSet, NoneLive

(* Safe is inductive for an ordered host: initialised first, one call at a time. *)
LEMMA SafeStep == ASSUME Ordered, TypeOK, ActiveExact, Safe, [Next]_vars PROVE Safe'
  <1> USE LifecycleAssumption DEF LifecycleAssumption
  <1>0. Ordered /\ TypeOK /\ ActiveExact /\ HostPhase /\ Quiet /\ Handler /\ Returned
    BY DEF Safe
  <1>1. CASE RtInit
    <2>1. HostPhase'
      BY <1>0, <1>1 DEF RtInit, runtime, guard, host, TypeOK, HostPhase, Quiet, Handler, Returned,
           GuardInstalled, NoneLive, Live, Installing, Stopping, Threads, Goto
    <2>2. Quiet'
      BY <1>0, <1>1 DEF RtInit, runtime, guard, host, TypeOK, HostPhase, Quiet, Handler, Returned,
           GuardInstalled, NoneLive, Live, Installing, Stopping, Threads, Goto
    <2>3. Handler'
      BY <1>0, <1>1 DEF RtInit, runtime, guard, host, TypeOK, HostPhase, Quiet, Handler, Returned,
           GuardInstalled, NoneLive, Live, Installing, Stopping, Threads, Goto
    <2>4. Returned'
      BY <1>0, <1>1 DEF RtInit, runtime, guard, host, TypeOK, HostPhase, Quiet, Handler, Returned,
           GuardInstalled, NoneLive, Live, Installing, Stopping, Threads, Goto
    <2> QED
      BY <2>1, <2>2, <2>3, <2>4 DEF Safe
  <1>2. CASE RtInitAgain
    <2>1. HostPhase'
      BY <1>0, <1>2 DEF RtInitAgain, runtime, guard, host, TypeOK, HostPhase, Quiet, Handler,
           Returned, GuardInstalled, NoneLive, Live, Installing, Stopping, Threads, Goto
    <2>2. Quiet'
      BY <1>0, <1>2 DEF RtInitAgain, runtime, guard, host, TypeOK, HostPhase, Quiet, Handler,
           Returned, GuardInstalled, NoneLive, Live, Installing, Stopping, Threads, Goto
    <2>3. Handler'
      BY <1>0, <1>2 DEF RtInitAgain, runtime, guard, host, TypeOK, HostPhase, Quiet, Handler,
           Returned, GuardInstalled, NoneLive, Live, Installing, Stopping, Threads, Goto
    <2>4. Returned'
      BY <1>0, <1>2 DEF RtInitAgain, runtime, guard, host, TypeOK, HostPhase, Quiet, Handler,
           Returned, GuardInstalled, NoneLive, Live, Installing, Stopping, Threads, Goto
    <2> QED
      BY <2>1, <2>2, <2>3, <2>4 DEF Safe
  <1>3. CASE RtShutdown
    <2>1. HostPhase'
      BY <1>0, <1>3 DEF RtShutdown, runtime, guard, host, TypeOK, HostPhase, Quiet, Handler,
           Returned, GuardInstalled, NoneLive, Live, Installing, Stopping, Threads, Goto
    <2>2. Quiet'
      BY <1>0, <1>3 DEF RtShutdown, runtime, guard, host, TypeOK, HostPhase, Quiet, Handler,
           Returned, GuardInstalled, NoneLive, Live, Installing, Stopping, Threads, Goto
    <2>3. Handler'
      BY <1>0, <1>3 DEF RtShutdown, runtime, guard, host, TypeOK, HostPhase, Quiet, Handler,
           Returned, GuardInstalled, NoneLive, Live, Installing, Stopping, Threads, Goto
    <2>4. Returned'
      BY <1>0, <1>3 DEF RtShutdown, runtime, guard, host, TypeOK, HostPhase, Quiet, Handler,
           Returned, GuardInstalled, NoneLive, Live, Installing, Stopping, Threads, Goto
    <2> QED
      BY <2>1, <2>2, <2>3, <2>4 DEF Safe
  <1>4. CASE Stop
    <2>1. HostPhase'
      BY <1>0, <1>4 DEF Stop, guard, host, TypeOK, HostPhase, Quiet, Handler, Returned,
           GuardInstalled, NoneLive, Live, Installing, Stopping, Threads, Goto
    <2>2. Quiet'
      BY <1>0, <1>4 DEF Stop, guard, host, TypeOK, HostPhase, Quiet, Handler, Returned,
           GuardInstalled, NoneLive, Live, Installing, Stopping, Threads, Goto
    <2>3. Handler'
      BY <1>0, <1>4 DEF Stop, guard, host, TypeOK, HostPhase, Quiet, Handler, Returned,
           GuardInstalled, NoneLive, Live, Installing, Stopping, Threads, Goto
    <2>4. Returned'
      BY <1>0, <1>4 DEF Stop, guard, host, TypeOK, HostPhase, Quiet, Handler, Returned,
           GuardInstalled, NoneLive, Live, Installing, Stopping, Threads, Goto
    <2> QED
      BY <2>1, <2>2, <2>3, <2>4 DEF Safe
  <1>5. CASE WaitActive
    <2>1. HostPhase'
      BY <1>0, <1>5, ZeroLive DEF WaitActive, AllStopped, runtime, guard, host, TypeOK, HostPhase,
           Quiet, Handler, Returned, GuardInstalled, NoneLive, Live, Installing, Stopping,
             Threads, Goto
    <2>2. Quiet'
      BY <1>0, <1>5, ZeroLive DEF WaitActive, AllStopped, runtime, guard, host, TypeOK, HostPhase,
           Quiet, Handler, Returned, GuardInstalled, NoneLive, Live, Installing, Stopping,
             Threads, Goto
    <2>3. Handler'
      BY <1>0, <1>5, ZeroLive DEF WaitActive, AllStopped, runtime, guard, host, TypeOK, HostPhase,
           Quiet, Handler, Returned, GuardInstalled, NoneLive, Live, Installing, Stopping,
             Threads, Goto
    <2>4. Returned'
      BY <1>0, <1>5, ZeroLive DEF WaitActive, AllStopped, runtime, guard, host, TypeOK, HostPhase,
           Quiet, Handler, Returned, GuardInstalled, NoneLive, Live, Installing, Stopping,
             Threads, Goto
    <2> QED
      BY <2>1, <2>2, <2>3, <2>4 DEF Safe
  <1>6. CASE JoinWorkers
    <2>1. HostPhase'
      BY <1>0, <1>6 DEF JoinWorkers, runtime, guard, host, TypeOK, HostPhase, Quiet, Handler,
           Returned, GuardInstalled, NoneLive, Live, Installing, Stopping, Threads, Goto
    <2>2. Quiet'
      BY <1>0, <1>6 DEF JoinWorkers, runtime, guard, host, TypeOK, HostPhase, Quiet, Handler,
           Returned, GuardInstalled, NoneLive, Live, Installing, Stopping, Threads, Goto
    <2>3. Handler'
      BY <1>0, <1>6 DEF JoinWorkers, runtime, guard, host, TypeOK, HostPhase, Quiet, Handler,
           Returned, GuardInstalled, NoneLive, Live, Installing, Stopping, Threads, Goto
    <2>4. Returned'
      BY <1>0, <1>6 DEF JoinWorkers, runtime, guard, host, TypeOK, HostPhase, Quiet, Handler,
           Returned, GuardInstalled, NoneLive, Live, Installing, Stopping, Threads, Goto
    <2> QED
      BY <2>1, <2>2, <2>3, <2>4 DEF Safe
  <1>7. CASE CheckAttached
    <2>1. /\ pc[Host] = "check"
          /\ UNCHANGED <<lifecycle, flag, active, initCount, was, booted>>
      BY <1>7 DEF CheckAttached, runtime
    <2>2. CASE /\ attached \ {Host} = {} /\ attached' = attached \ {Host} /\ ~installed'
               /\ pc' = [pc EXCEPT ![Host] = "finish"] /\ result' = result
      <3>0. attached' = {}
        BY <2>2
      <3>1. HostPhase'
        BY <1>0, <2>1, <2>2, <3>0 DEF TypeOK, HostPhase, Quiet, Handler, Returned, GuardInstalled,
             NoneLive, Live, Installing, Stopping, Threads
      <3>2. Quiet'
        BY <1>0, <2>1, <2>2, <3>0 DEF TypeOK, HostPhase, Quiet, Handler, Returned, GuardInstalled,
             NoneLive, Live, Installing, Stopping, Threads
      <3>3. Handler'
        BY <1>0, <2>1, <2>2, <3>0 DEF TypeOK, HostPhase, Quiet, Handler, Returned, GuardInstalled,
             NoneLive, Live, Installing, Stopping, Threads
      <3>4. Returned'
        BY <1>0, <2>1, <2>2, <3>0 DEF TypeOK, HostPhase, Quiet, Handler, Returned, GuardInstalled,
             NoneLive, Live, Installing, Stopping, Threads
      <3> QED
        BY <3>1, <3>2, <3>3, <3>4 DEF Safe
    <2>3. CASE /\ UNCHANGED <<installed, attached>> /\ result' = "busy"
               /\ pc' = [pc EXCEPT ![Host] = "idle"]
      <3>1. HostPhase'
        BY <1>0, <2>1, <2>3 DEF TypeOK, HostPhase, Quiet, Handler, Returned, GuardInstalled,
             NoneLive, Live, Installing, Stopping, Threads
      <3>2. Quiet'
        BY <1>0, <2>1, <2>3 DEF TypeOK, HostPhase, Quiet, Handler, Returned, GuardInstalled,
             NoneLive, Live, Installing, Stopping, Threads
      <3>3. Handler'
        BY <1>0, <2>1, <2>3 DEF TypeOK, HostPhase, Quiet, Handler, Returned, GuardInstalled,
             NoneLive, Live, Installing, Stopping, Threads
      <3>4. Returned'
        BY <1>0, <2>1, <2>3 DEF TypeOK, HostPhase, Quiet, Handler, Returned, GuardInstalled,
             NoneLive, Live, Installing, Stopping, Threads
      <3> QED
        BY <3>1, <3>2, <3>3, <3>4 DEF Safe
    <2>4. \/ /\ attached \ {Host} = {} /\ attached' = attached \ {Host} /\ ~installed'
             /\ pc' = [pc EXCEPT ![Host] = "finish"] /\ result' = result
          \/ /\ UNCHANGED <<installed, attached>> /\ result' = "busy"
             /\ pc' = [pc EXCEPT ![Host] = "idle"]
      BY <1>7, Zenon DEF CheckAttached, CanUninstall, Goto
    <2> QED
      BY <2>2, <2>3, <2>4
  <1>8. CASE Finish
    <2>1. HostPhase'
      BY <1>0, <1>8 DEF Finish, guard, host, TypeOK, HostPhase, Quiet, Handler, Returned,
           GuardInstalled, NoneLive, Live, Installing, Stopping, Threads, Goto
    <2>2. Quiet'
      BY <1>0, <1>8 DEF Finish, guard, host, TypeOK, HostPhase, Quiet, Handler, Returned,
           GuardInstalled, NoneLive, Live, Installing, Stopping, Threads, Goto
    <2>3. Handler'
      BY <1>0, <1>8 DEF Finish, guard, host, TypeOK, HostPhase, Quiet, Handler, Returned,
           GuardInstalled, NoneLive, Live, Installing, Stopping, Threads, Goto
    <2>4. Returned'
      BY <1>0, <1>8 DEF Finish, guard, host, TypeOK, HostPhase, Quiet, Handler, Returned,
           GuardInstalled, NoneLive, Live, Installing, Stopping, Threads, Goto
    <2> QED
      BY <2>1, <2>2, <2>3, <2>4 DEF Safe
  <1>9. ASSUME NEW t \in Threads, ReadInstalled(t) PROVE Safe'
    <2>1. HostPhase'
      BY <1>0, <1>9 DEF ReadInstalled, runtime, host, TypeOK, HostPhase, Quiet, Handler, Returned,
           GuardInstalled, NoneLive, Live, Installing, Stopping, Threads, Goto
    <2>2. Quiet'
      BY <1>0, <1>9 DEF ReadInstalled, runtime, host, TypeOK, HostPhase, Quiet, Handler, Returned,
           GuardInstalled, NoneLive, Live, Installing, Stopping, Threads, Goto
    <2>3. Handler'
      BY <1>0, <1>9 DEF ReadInstalled, runtime, host, TypeOK, HostPhase, Quiet, Handler, Returned,
           GuardInstalled, NoneLive, Live, Installing, Stopping, Threads, Goto
    <2>4. Returned'
      BY <1>0, <1>9 DEF ReadInstalled, runtime, host, TypeOK, HostPhase, Quiet, Handler, Returned,
           GuardInstalled, NoneLive, Live, Installing, Stopping, Threads, Goto
    <2> QED
      BY <2>1, <2>2, <2>3, <2>4 DEF Safe
  <1>10. ASSUME NEW t \in Threads, InstallHandler(t) PROVE Safe'
    <2>1. HostPhase'
      BY <1>0, <1>10 DEF InstallHandler, Installed, runtime, host, TypeOK, HostPhase, Quiet,
           Handler, Returned, GuardInstalled, NoneLive, Live, Installing, Stopping, Threads, Goto
    <2>2. Quiet'
      BY <1>0, <1>10 DEF InstallHandler, Installed, runtime, host, TypeOK, HostPhase, Quiet,
           Handler, Returned, GuardInstalled, NoneLive, Live, Installing, Stopping, Threads, Goto
    <2>3. Handler'
      BY <1>0, <1>10 DEF InstallHandler, Installed, runtime, host, TypeOK, HostPhase, Quiet,
           Handler, Returned, GuardInstalled, NoneLive, Live, Installing, Stopping, Threads, Goto
    <2>4. Returned'
      BY <1>0, <1>10 DEF InstallHandler, Installed, runtime, host, TypeOK, HostPhase, Quiet,
           Handler, Returned, GuardInstalled, NoneLive, Live, Installing, Stopping, Threads, Goto
    <2> QED
      BY <2>1, <2>2, <2>3, <2>4 DEF Safe
  <1>11. ASSUME NEW t \in Threads, AttachThread(t) PROVE Safe'
    <2>1. HostPhase'
      BY <1>0, <1>11 DEF AttachThread, Installed, KeepsHandler, runtime, host, TypeOK, HostPhase,
           Quiet, Handler, Returned, GuardInstalled, NoneLive, Live, Installing, Stopping,
             Threads, Goto
    <2>2. Quiet'
      BY <1>0, <1>11 DEF AttachThread, Installed, KeepsHandler, runtime, host, TypeOK, HostPhase,
           Quiet, Handler, Returned, GuardInstalled, NoneLive, Live, Installing, Stopping,
             Threads, Goto
    <2>3. Handler'
      BY <1>0, <1>11 DEF AttachThread, Installed, KeepsHandler, runtime, host, TypeOK, HostPhase,
           Quiet, Handler, Returned, GuardInstalled, NoneLive, Live, Installing, Stopping,
             Threads, Goto
    <2>4. Returned'
      BY <1>0, <1>11 DEF AttachThread, Installed, KeepsHandler, runtime, host, TypeOK, HostPhase,
           Quiet, Handler, Returned, GuardInstalled, NoneLive, Live, Installing, Stopping,
             Threads, Goto
    <2> QED
      BY <2>1, <2>2, <2>3, <2>4 DEF Safe
  <1>12. ASSUME NEW w \in Workers, Admit(w) PROVE Safe'
    <2>1. HostPhase'
      BY <1>0, <1>12 DEF Admit, Entered, Rejects, LifecycleFree, guard, host, TypeOK, HostPhase,
           Quiet, Handler, Returned, GuardInstalled, NoneLive, Live, Installing, Stopping,
             Threads, Goto
    <2>2. Quiet'
      BY <1>0, <1>12 DEF Admit, Entered, Rejects, LifecycleFree, guard, host, TypeOK, HostPhase,
           Quiet, Handler, Returned, GuardInstalled, NoneLive, Live, Installing, Stopping,
             Threads, Goto
    <2>3. Handler'
      BY <1>0, <1>12 DEF Admit, Entered, Rejects, LifecycleFree, guard, host, TypeOK, HostPhase,
           Quiet, Handler, Returned, GuardInstalled, NoneLive, Live, Installing, Stopping,
             Threads, Goto
    <2>4. Returned'
      BY <1>0, <1>12 DEF Admit, Entered, Rejects, LifecycleFree, guard, host, TypeOK, HostPhase,
           Quiet, Handler, Returned, GuardInstalled, NoneLive, Live, Installing, Stopping,
             Threads, Goto
    <2> QED
      BY <2>1, <2>2, <2>3, <2>4 DEF Safe
  <1>13. ASSUME NEW w \in Workers, OsSpawn(w) PROVE Safe'
    <2>1. HostPhase'
      BY <1>0, <1>13 DEF OsSpawn, guard, host, TypeOK, HostPhase, Quiet, Handler, Returned,
           GuardInstalled, NoneLive, Live, Installing, Stopping, Threads, Goto
    <2>2. Quiet'
      BY <1>0, <1>13 DEF OsSpawn, guard, host, TypeOK, HostPhase, Quiet, Handler, Returned,
           GuardInstalled, NoneLive, Live, Installing, Stopping, Threads, Goto
    <2>3. Handler'
      BY <1>0, <1>13 DEF OsSpawn, guard, host, TypeOK, HostPhase, Quiet, Handler, Returned,
           GuardInstalled, NoneLive, Live, Installing, Stopping, Threads, Goto
    <2>4. Returned'
      BY <1>0, <1>13 DEF OsSpawn, guard, host, TypeOK, HostPhase, Quiet, Handler, Returned,
           GuardInstalled, NoneLive, Live, Installing, Stopping, Threads, Goto
    <2> QED
      BY <2>1, <2>2, <2>3, <2>4 DEF Safe
  <1>14. ASSUME NEW w \in Workers, WorkerReturns(w) PROVE Safe'
    <2>1. HostPhase'
      BY <1>0, <1>14 DEF WorkerReturns, guard, host, TypeOK, HostPhase, Quiet, Handler, Returned,
           GuardInstalled, NoneLive, Live, Installing, Stopping, Threads, Goto
    <2>2. Quiet'
      BY <1>0, <1>14 DEF WorkerReturns, guard, host, TypeOK, HostPhase, Quiet, Handler, Returned,
           GuardInstalled, NoneLive, Live, Installing, Stopping, Threads, Goto
    <2>3. Handler'
      BY <1>0, <1>14 DEF WorkerReturns, guard, host, TypeOK, HostPhase, Quiet, Handler, Returned,
           GuardInstalled, NoneLive, Live, Installing, Stopping, Threads, Goto
    <2>4. Returned'
      BY <1>0, <1>14 DEF WorkerReturns, guard, host, TypeOK, HostPhase, Quiet, Handler, Returned,
           GuardInstalled, NoneLive, Live, Installing, Stopping, Threads, Goto
    <2> QED
      BY <2>1, <2>2, <2>3, <2>4 DEF Safe
  <1>15. ASSUME NEW w \in Workers, WorkerGone(w) PROVE Safe'
    <2>1. HostPhase'
      BY <1>0, <1>15 DEF WorkerGone, runtime, host, TypeOK, HostPhase, Quiet, Handler, Returned,
           GuardInstalled, NoneLive, Live, Installing, Stopping, Threads, Goto
    <2>2. Quiet'
      BY <1>0, <1>15 DEF WorkerGone, runtime, host, TypeOK, HostPhase, Quiet, Handler, Returned,
           GuardInstalled, NoneLive, Live, Installing, Stopping, Threads, Goto
    <2>3. Handler'
      BY <1>0, <1>15 DEF WorkerGone, runtime, host, TypeOK, HostPhase, Quiet, Handler, Returned,
           GuardInstalled, NoneLive, Live, Installing, Stopping, Threads, Goto
    <2>4. Returned'
      BY <1>0, <1>15 DEF WorkerGone, runtime, host, TypeOK, HostPhase, Quiet, Handler, Returned,
           GuardInstalled, NoneLive, Live, Installing, Stopping, Threads, Goto
    <2> QED
      BY <2>1, <2>2, <2>3, <2>4 DEF Safe
  <1>16. ASSUME NEW f \in Foreign, Attach(f) PROVE Safe'
    <2>1. HostPhase'
      BY <1>0, <1>16 DEF Attach, Entered, LifecycleFree, runtime, guard, host, TypeOK, HostPhase,
           Quiet, Handler, Returned, GuardInstalled, NoneLive, Live, Installing, Stopping,
             Threads, Goto
    <2>2. Quiet'
      BY <1>0, <1>16 DEF Attach, Entered, LifecycleFree, runtime, guard, host, TypeOK, HostPhase,
           Quiet, Handler, Returned, GuardInstalled, NoneLive, Live, Installing, Stopping,
             Threads, Goto
    <2>3. Handler'
      BY <1>0, <1>16 DEF Attach, Entered, LifecycleFree, runtime, guard, host, TypeOK, HostPhase,
           Quiet, Handler, Returned, GuardInstalled, NoneLive, Live, Installing, Stopping,
             Threads, Goto
    <2>4. Returned'
      BY <1>0, <1>16 DEF Attach, Entered, LifecycleFree, runtime, guard, host, TypeOK, HostPhase,
           Quiet, Handler, Returned, GuardInstalled, NoneLive, Live, Installing, Stopping,
             Threads, Goto
    <2> QED
      BY <2>1, <2>2, <2>3, <2>4 DEF Safe
  <1>17. ASSUME NEW f \in Foreign, Detach(f) PROVE Safe'
    <2>1. HostPhase'
      BY <1>0, <1>17 DEF Detach, runtime, host, TypeOK, HostPhase, Quiet, Handler, Returned,
           GuardInstalled, NoneLive, Live, Installing, Stopping, Threads, Goto
    <2>2. Quiet'
      BY <1>0, <1>17 DEF Detach, runtime, host, TypeOK, HostPhase, Quiet, Handler, Returned,
           GuardInstalled, NoneLive, Live, Installing, Stopping, Threads, Goto
    <2>3. Handler'
      BY <1>0, <1>17 DEF Detach, runtime, host, TypeOK, HostPhase, Quiet, Handler, Returned,
           GuardInstalled, NoneLive, Live, Installing, Stopping, Threads, Goto
    <2>4. Returned'
      BY <1>0, <1>17 DEF Detach, runtime, host, TypeOK, HostPhase, Quiet, Handler, Returned,
           GuardInstalled, NoneLive, Live, Installing, Stopping, Threads, Goto
    <2> QED
      BY <2>1, <2>2, <2>3, <2>4 DEF Safe
  <1>18. CASE UNCHANGED vars
    BY <1>0, <1>18 DEF vars, Safe, TypeOK, HostPhase, Quiet, Handler, Returned, GuardInstalled,
         NoneLive
  <1>19. QED
    BY <1>1, <1>2, <1>3, <1>4, <1>5, <1>6, <1>7, <1>8, <1>9, <1>10, <1>11, <1>12, <1>13, <1>14,
         <1>15, <1>16, <1>17, <1>18 DEF Next, HostStep, Install

-----------------------------------------------------------------------------
(* ACTIVE_WORKERS is exact, whatever the host does. *)
THEOREM WorkersAreCounted == Spec => [](TypeOK /\ ActiveExact)
  <1>1. Init => TypeOK /\ ActiveExact
    <2> SUFFICES ASSUME Init PROVE TypeOK /\ ActiveExact
      OBVIOUS
    <2> USE LifecycleAssumption DEF LifecycleAssumption
    <2>1. \A w \in Workers : pc[w] = "none"
      BY DEF Init, Threads
    <2>2. {w \in Workers : pc[w] \in Live} = {}
      BY <2>1 DEF Live, Installing
    <2>3. ActiveExact
      BY <2>2, FS_EmptySet DEF Init, ActiveExact
    <2>4. TypeOK
      BY DEF Init, TypeOK, Threads, Live, Installing, Stopping
    <2> QED
      BY <2>3, <2>4
  <1>2. TypeOK /\ ActiveExact /\ [Next]_vars => (TypeOK /\ ActiveExact)'
    BY TypeStep, CountStep
  <1> QED
    BY <1>1, <1>2, PTL DEF Spec

(* In the documented order, a shutdown that returns 0 leaves no worker, no *)
(* attached thread and no signal handler behind; no worker is admitted     *)
(* once it has counted them; and the handler covers every attached thread. *)
THEOREM UnloadIsSafe ==
  ASSUME Ordered
  PROVE  Spec => [](/\ SafeToUnload
                    /\ AdmissionClosed /\ GuardInstalled)
  <1>1. Init => Safe
    <2> SUFFICES ASSUME Init PROVE Safe
      OBVIOUS
    <2> USE LifecycleAssumption DEF LifecycleAssumption
    <2>1. HostPhase /\ Returned
      BY DEF Init, HostPhase, Returned, Stopping, Installing, Threads
    <2>2. Quiet
      BY DEF Init, Quiet, NoneLive, Live, Stopping, Installing, Threads
    <2>3. Handler
      BY DEF Init, Handler, GuardInstalled, Installing, Threads
    <2> QED
      BY <2>1, <2>2, <2>3 DEF Safe
  <1>2. TypeOK /\ ActiveExact /\ Safe /\ [Next]_vars => Safe'
    BY SafeStep
  <1>3. Safe => /\ SafeToUnload
                /\ AdmissionClosed /\ GuardInstalled
    BY DEF Safe, Quiet, Handler, Returned, NoneLive, SafeToUnload,
           AdmissionClosed, GuardInstalled, Unloadable
  <1> QED
    BY <1>1, <1>2, <1>3, WorkersAreCounted, PTL DEF Spec
=============================================================================

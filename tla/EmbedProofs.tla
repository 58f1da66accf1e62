----------------------------- MODULE EmbedProofs -----------------------------
(***************************************************************************)
(* The embedding API for any number of engines and worker threads, and any *)
(* bounds on compilations, callbacks and the nesting of calls.             *)
(***************************************************************************)
EXTENDS Embed, FiniteSetTheorems, SequenceTheorems, TLAPS

(* A code whose compilation is over. *)
Over(c) == c[2] <= compiled[c[1]].codes /\ (pc[c[1]] # "idle" => c[2] < compiled[c[1]].codes)

(* What an engine has a name for is its own. *)
Owned(e) ==
  /\ code[e] # None => code[e][1] = e /\ module[e].gen > 0
  /\ named[e] # None => named[e][1] = e /\ named[e][2] <= compiled[e].ids
  /\ pc[e] # "idle" => stack[e] = <<>> /\ compiled[e].codes > 0

(* A handle is no newer than the module, and if it names the current one   *)
(* it was resolved to the current code.                                    *)
Resolved(e) ==
  handle[e] # None =>
    /\ handle[e].module.gen > 0 /\ handle[e].module.id <= module[e].id
    /\ handle[e].module.id = module[e].id /\ module[e].gen > 0 =>
         handle[e].module.gen <= module[e].gen
    /\ handle[e].module = module[e] /\ code[e] # None => handle[e].code = code[e]

(* Calls and callbacks alternate, and only the last call is not nested.    *)
Alternate(s) ==
  /\ s # <<>> => s[1].k = "call"
  /\ \A k \in 1..(Len(s) - 1) : s[k].k # s[k + 1].k

CallFrame(e, k) ==
  stack[e][k].k = "call" =>
    /\ stack[e][k].code = stack[e][k].resolved
    /\ stack[e][k].code[1] = e /\ Over(stack[e][k].code)
    /\ e \in live => stack[e][k].code = code[e]
    /\ ~stack[e][k].nested => k >= Len(stack[e]) - 1 /\ (Traps(e) <=> stack[e][k].failed)

Frames(e) ==
  /\ Alternate(stack[e])
  /\ \A k \in DOMAIN stack[e] : CallFrame(e, k)
  /\ \A k \in DOMAIN stack[e] : stack[e][k].k = "cb" => stack[e][k].id[1] = e

(* Code in use was published. *)
Codings ==
  /\ \A e \in Engines : code[e] # None => Over(code[e])
  /\ \A c \in old \cup slices : Over(c)
  /\ \A i \in Ids : cb[i].bound # None => Over(cb[i].bound)
  /\ \A w \in Workers : work[w].pc # "idle" => work[w].code \in Codes /\ Over(work[w].code)
  /\ \A w \in Workers : work[w].pc \in InCallback => IdOf(w) \in Ids

Baked(c) == uses[c] # None => uses[c][1] = c[1] /\ uses[c][2] <= compiled[c[1]].ids

(* A callback's count of active calls is the number of calls. *)
CallbacksIn(s, i) == {k \in DOMAIN s : s[k].k = "cb" /\ s[k].id = i}
OnStack(i) == CallbacksIn(stack[i[1]], i)
OnWorkers(i) == {w \in Workers : work[w].pc \in {"check", "cb", "rel"} /\ IdOf(w) = i}
Counted(i) == cb[i].active = Cardinality(OnStack(i)) + Cardinality(OnWorkers(i))

(* Somebody will remove the entry of an engine that is dropped, its store  *)
(* arrived or not, unless the last release has missed that store.          *)
Leaks(i) ==
  (cb[i].orphaned \/ cb[i].store = "buffered") /\ cb[i].mapped =>
    \/ cb[i].active > 0
    \/ \E w \in Workers : work[w].pc \in {"orphan", "remove"} /\ IdOf(w) = i
    \/ cb[i].store = "missed"

Callback(i) ==
  /\ Counted(i)
  /\ i[2] > compiled[i[1]].ids => cb[i] = Unregistered
  /\ cb[i].mapped \/ cb[i].active > 0 => i \in box
  /\ cb[i].mapped /\ (cb[i].orphaned \/ cb[i].store # "none") => i[1] \notin live
  /\ Leaks(i)

Leases ==
  /\ Held \ {None} \subseteq leases
  /\ ~raced /\ leases # {} => lifecycle = "Running" /\ \A t \in Threads : closing[t] = "no"

EInv ==
  /\ TypeOK
  /\ \A e \in Engines : Owned(e) /\ Resolved(e) /\ Frames(e)
  /\ Codings
  /\ \A c \in Codes : Baked(c)
  /\ \A i \in Ids : Callback(i)
  /\ Leases

-----------------------------------------------------------------------------
Frame == CallFrames \cup CallbackFrames

(* Codes and callback ids are pairs of an engine and a number. *)
LEMMA Pairs ==
  /\ \A c \in Codes : /\ c[1] \in Engines /\ c[2] \in 1..MaxCode[c[1]] /\ c = <<c[1], c[2]>>
                      /\ MaxCode[c[1]] \in Nat
  /\ \A i \in Ids : /\ i[1] \in Engines /\ i[2] \in 1..MaxIds[i[1]] /\ i = <<i[1], i[2]>>
                    /\ MaxIds[i[1]] \in Nat
  /\ \A e \in Engines : \A n \in 1..MaxCode[e] : <<e, n>> \in Codes
  /\ \A e \in Engines : \A n \in 1..MaxIds[e] : <<e, n>> \in Ids
  /\ None \notin Codes /\ None \notin Ids /\ IsFiniteSet(Workers)
<1>1. \A e \in Engines : MaxCode[e] \in Nat /\ MaxIds[e] \in Nat
  BY BoundsAreNatural DEF BoundsAreNatural
<1>2. \A c \in Codes : \E e \in Engines : \E n \in 1..MaxCode[e] : c = <<e, n>>
  BY DEF Codes
<1>3. \A i \in Ids : \E e \in Engines : \E n \in 1..MaxIds[e] : i = <<e, n>>
  BY DEF Ids
<1>4. \A e \in Engines : \A n \in 1..MaxCode[e] : <<e, n>> \in Codes
  BY DEF Codes
<1>5. \A e \in Engines : \A n \in 1..MaxIds[e] : <<e, n>> \in Ids
  BY DEF Ids
<1> QED
  BY <1>1, <1>2, <1>3, <1>4, <1>5, BoundsAreNatural DEF BoundsAreNatural

(* The frame on top of the stack, and the stack below it. *)
LEMMA Popped ==
  ASSUME NEW s \in Seq(Frame), s # <<>>
  PROVE  /\ Len(s) \in Nat \ {0} /\ Last(s) = s[Len(s)] /\ s[Len(s)] \in Frame
         /\ Front(s) \in Seq(Frame) /\ Len(Front(s)) = Len(s) - 1
         /\ \A k \in 1..(Len(s) - 1) : Front(s)[k] = s[k]
<1>1. Len(s) \in Nat \ {0}
  BY EmptySeq
<1>2. \A k \in 1..Len(s) : s[k] \in Frame
  BY ElementOfSeq
<1>3. \A k \in 1..(Len(s) - 1) : s[k] \in Frame
  BY <1>1, <1>2
<1>4. PICK n \in Nat : n = Len(s) - 1
  BY <1>1
<1>5. PICK t : t = SubSeq(s, 1, n)
  OBVIOUS
<1>6. /\ t \in Seq(Frame) /\ Len(t) = IF 1 <= n THEN n - 1 + 1 ELSE 0
      /\ \A k \in 1..(n - 1 + 1) : t[k] = s[1 + k - 1]
  BY <1>3, <1>4, <1>5, SubSeqProperties
<1>7. Len(t) = n /\ \A k \in 1..n : t[k] = s[k]
  BY <1>6
<1>8. Front(s) = t
  BY <1>4, <1>5 DEF Front
<1> QED
  BY <1>1, <1>2, <1>4, <1>6, <1>7, <1>8 DEF Last

(* The last frame, a call, is marked as failed. *)
LEMMA Failed ==
  ASSUME NEW s \in Seq(Frame), s # <<>>, s[Len(s)] \in CallFrames
  PROVE  /\ Failing(s) \in Seq(Frame) /\ Len(Failing(s)) = Len(s)
         /\ \A k \in 1..(Len(s) - 1) : Failing(s)[k] = s[k]
         /\ Failing(s)[Len(s)] = [s[Len(s)] EXCEPT !.failed = TRUE]
<1>1. [s[Len(s)] EXCEPT !.failed = TRUE] \in Frame
  BY DEF CallFrames, Frame
<1>2. Len(s) \in 1..Len(s) /\ Len(s) \in Nat
  BY EmptySeq
<1>3. PICK f \in Frame : f = [s[Len(s)] EXCEPT !.failed = TRUE]
  BY <1>1
<1>4. Failing(s) = [s EXCEPT ![Len(s)] = f]
  BY <1>3 DEF Failing
<1>5. /\ Failing(s) \in Seq(Frame) /\ Len(Failing(s)) = Len(s)
      /\ \A j \in 1..Len(s) : Failing(s)[j] = IF j = Len(s) THEN f ELSE s[j]
  BY <1>2, <1>3, <1>4, ExceptSeq
<1>6. \A k \in 1..(Len(s) - 1) : k \in 1..Len(s) /\ k # Len(s)
  BY <1>2
<1> QED
  BY <1>2, <1>3, <1>5, <1>6, Zenon

(* Every call below is nested now. *)
LEMMA Marks ==
  ASSUME NEW s \in Seq(Frame)
  PROVE  /\ Marked(s) \in Seq(Frame) /\ Len(Marked(s)) = Len(s)
         /\ \A k \in 1..Len(s) :
              Marked(s)[k] = IF s[k].k = "call" THEN [s[k] EXCEPT !.nested = TRUE] ELSE s[k]
<1>1. DOMAIN s = 1..Len(s) /\ Len(s) \in Nat
  BY LenProperties
<1>2. \A k \in 1..Len(s) : s[k] \in Frame /\ (s[k].k = "call" => s[k] \in CallFrames)
  BY ElementOfSeq DEF Frame, CallFrames, CallbackFrames
<1>3. \A k \in 1..Len(s) : s[k].k = "call" => [s[k] EXCEPT !.nested = TRUE] \in Frame
  BY <1>2 DEF CallFrames, Frame
<1>4. Marked(s) \in [1..Len(s) -> Frame]
  BY <1>1, <1>2, <1>3 DEF Marked
<1>5. Marked(s) \in Seq(Frame)
  BY <1>1, <1>4, SeqDef
<1>6. Len(Marked(s)) = Len(s)
  BY <1>1, <1>4, <1>5, LenProperties
<1> QED
  BY <1>1, <1>5, <1>6 DEF Marked

(* The owner's stack: its length, and what its frames are. *)
LEMMA StackOf ==
  ASSUME TypeOK, NEW e \in Engines
  PROVE  /\ stack[e] \in Seq(Frame) /\ Len(stack[e]) \in Nat /\ DOMAIN stack[e] = 1..Len(stack[e])
         /\ \A k \in DOMAIN stack[e] :
              /\ stack[e][k].k \in {"call", "cb"}
              /\ stack[e][k].k = "call" => stack[e][k] \in CallFrames
              /\ stack[e][k].k = "cb" => stack[e][k] \in CallbackFrames
<1>1. stack[e] \in Seq(Frame)
  BY DEF TypeOK, Frame
<1>2. Len(stack[e]) \in Nat /\ DOMAIN stack[e] = 1..Len(stack[e])
  BY <1>1, LenProperties
<1>3. \A k \in DOMAIN stack[e] : stack[e][k] \in Frame
  BY <1>1, <1>2, ElementOfSeq
<1> QED
  BY <1>1, <1>2, <1>3 DEF Frame, CallFrames, CallbackFrames

(* While Ori code runs on the owner's thread the top frame is a call, ... *)
LEMMA TopCall ==
  ASSUME TypeOK, NEW e \in Engines, OriRuns(e)
  PROVE  /\ e \in live /\ pc[e] = "idle" /\ stack[e] # <<>>
         /\ Len(stack[e]) \in 1..Len(stack[e]) /\ Len(stack[e]) \in Nat \ {0}
         /\ Last(stack[e]) = stack[e][Len(stack[e])]
         /\ Last(stack[e]) \in CallFrames
<1>1. stack[e] # <<>> /\ Last(stack[e]).k = "call" /\ e \in live /\ pc[e] = "idle"
  BY DEF OriRuns, Free
<1>2. stack[e] \in Seq(Frame) /\ DOMAIN stack[e] = 1..Len(stack[e])
  BY StackOf
<1>3. Len(stack[e]) \in Nat \ {0} /\ Last(stack[e]) = stack[e][Len(stack[e])]
  BY <1>1, <1>2, Popped
<1>4. Len(stack[e]) \in DOMAIN stack[e]
  BY <1>2, <1>3
<1> QED
  BY <1>1, <1>2, <1>3, <1>4, StackOf

(* ... and a callback while the host runs below the top, with the call     *)
(* that made it underneath.                                                *)
LEMMA TopCallback ==
  ASSUME TypeOK, NEW e \in Engines, Frames(e), HostRuns(e), stack[e] # <<>>
  PROVE  /\ e \in live /\ pc[e] = "idle"
         /\ Len(stack[e]) \in Nat /\ Len(stack[e]) > 1
         /\ Len(stack[e]) \in DOMAIN stack[e] /\ Len(stack[e]) - 1 \in DOMAIN stack[e]
         /\ Last(stack[e]) = stack[e][Len(stack[e])]
         /\ Last(stack[e]) \in CallbackFrames /\ Last(stack[e]).id[1] = e
         /\ stack[e][Len(stack[e]) - 1] \in CallFrames
<1>1. Last(stack[e]).k = "cb" /\ e \in live /\ pc[e] = "idle"
  BY DEF HostRuns, Free
<1>2. stack[e] \in Seq(Frame) /\ DOMAIN stack[e] = 1..Len(stack[e])
  BY StackOf
<1>3. Len(stack[e]) \in Nat \ {0} /\ Last(stack[e]) = stack[e][Len(stack[e])]
  BY <1>2, Popped
<1>4. PICK n \in Nat \ {0} : n = Len(stack[e])
  BY <1>3
<1>5. n # 1
  BY <1>1, <1>3, <1>4 DEF Frames, Alternate
<1>6. stack[e][n - 1].k # "cb"
  <2>1. n - 1 \in 1..(n - 1) /\ (n - 1) + 1 = n
    BY <1>5
  <2> QED
    BY <1>1, <1>3, <1>4, <2>1 DEF Frames, Alternate
<1>7. n \in 1..n /\ n - 1 \in 1..n
  BY <1>5
<1>8. stack[e][n - 1] \in CallFrames
  BY <1>2, <1>4, <1>6, <1>7, StackOf
<1>9. Last(stack[e]) \in CallbackFrames
  BY <1>1, <1>2, <1>3, <1>4, <1>7, StackOf
<1> QED
  BY <1>1, <1>2, <1>3, <1>4, <1>5, <1>7, <1>8, <1>9 DEF Frames

-----------------------------------------------------------------------------
(* Two stacks whose common frames differ at most in the flags of a call.   *)
Alike(a, b) ==
  /\ b.k = a.k /\ (a.k = "cb" => b = a)
  /\ a.k = "call" => b.code = a.code /\ b.resolved = a.resolved

(* A longer stack has one callback more where its top frame is one. *)
LEMMA PushCounts ==
  ASSUME NEW s \in Seq(Frame), NEW t \in Seq(Frame), Len(t) = Len(s) + 1,
         \A k \in 1..Len(s) : Alike(s[k], t[k]), NEW i
  PROVE  /\ Cardinality(CallbacksIn(s, i)) \in Nat
         /\ Cardinality(CallbacksIn(t, i)) = Cardinality(CallbacksIn(s, i))
              + IF t[Len(t)].k = "cb" /\ t[Len(t)].id = i THEN 1 ELSE 0
<1>1. DOMAIN s = 1..Len(s) /\ DOMAIN t = 1..Len(t) /\ Len(s) \in Nat
  BY LenProperties
<1>2. PICK n \in Nat : n = Len(s) /\ Len(t) = n + 1
  BY <1>1
<1>3. DOMAIN s = 1..n /\ DOMAIN t = 1..(n + 1) /\ n + 1 \notin 1..n
  BY <1>1, <1>2
<1>4. IsFiniteSet(CallbacksIn(s, i)) /\ Cardinality(CallbacksIn(s, i)) \in Nat
  <2>1. IsFiniteSet(1..n)
    BY FS_Interval
  <2>2. CallbacksIn(s, i) \subseteq 1..n
    BY <1>3 DEF CallbacksIn
  <2> QED
    BY <2>1, <2>2, FS_Subset, FS_CardinalityType
<1>5. \A k \in 1..(n + 1) : k \in 1..n \/ k = n + 1
  BY <1>2
<1>6. \A k \in 1..n : k \in 1..(n + 1)
  BY <1>2
<1>7. n + 1 \in 1..(n + 1)
  BY <1>2
<1>8. \A k \in 1..n : k \in CallbacksIn(t, i) <=> k \in CallbacksIn(s, i)
  BY <1>2, <1>3, <1>6 DEF CallbacksIn, Alike
<1>9. CASE t[n + 1].k = "cb" /\ t[n + 1].id = i
  <2>1. CallbacksIn(t, i) = CallbacksIn(s, i) \cup {n + 1}
    BY <1>3, <1>5, <1>7, <1>8, <1>9 DEF CallbacksIn
  <2>2. n + 1 \notin CallbacksIn(s, i)
    BY <1>3 DEF CallbacksIn
  <2>3. Cardinality(CallbacksIn(t, i)) = Cardinality(CallbacksIn(s, i)) + 1
    BY <1>4, <2>1, <2>2, FS_AddElement
  <2> QED
    BY <1>2, <1>4, <1>9, <2>3
<1>10. CASE ~(t[n + 1].k = "cb" /\ t[n + 1].id = i)
  <2>1. CallbacksIn(t, i) = CallbacksIn(s, i)
    BY <1>3, <1>5, <1>8, <1>10 DEF CallbacksIn
  <2> QED
    BY <1>2, <1>4, <1>10, <2>1
<1> QED
  BY <1>9, <1>10

(* Alike stacks of one length have the same callbacks. *)
LEMMA SameCounts ==
  ASSUME NEW s \in Seq(Frame), NEW t \in Seq(Frame), Len(t) = Len(s),
         \A k \in 1..Len(s) : Alike(s[k], t[k]), NEW i
  PROVE  CallbacksIn(t, i) = CallbacksIn(s, i)
<1>1. DOMAIN s = 1..Len(s) /\ DOMAIN t = 1..Len(s)
  BY LenProperties
<1> QED
  BY <1>1 DEF CallbacksIn, Alike

(* Both parts of the count are numbers, and one is positive while somebody *)
(* is inside.                                                              *)
LEMMA Inside ==
  ASSUME TypeOK, NEW i \in Ids
  PROVE  /\ Cardinality(OnStack(i)) \in Nat /\ Cardinality(OnWorkers(i)) \in Nat
         /\ IsFiniteSet(OnWorkers(i))
         /\ Counted(i) /\ OnStack(i) # {} => cb[i].active > 0
         /\ Counted(i) /\ OnWorkers(i) # {} => cb[i].active > 0
<1>1. i[1] \in Engines /\ IsFiniteSet(Workers)
  BY Pairs
<1>2. IsFiniteSet(OnStack(i))
  <2>1. PICK n \in Nat : n = Len(stack[i[1]]) /\ DOMAIN stack[i[1]] = 1..n
    BY <1>1, StackOf
  <2>2. IsFiniteSet(1..n)
    BY FS_Interval
  <2>3. OnStack(i) \subseteq 1..n
    BY <2>1 DEF OnStack, CallbacksIn
  <2> QED
    BY <2>2, <2>3, FS_Subset
<1>3. IsFiniteSet(OnWorkers(i))
  BY <1>1, FS_Subset DEF OnWorkers
<1>4. Cardinality(OnStack(i)) \in Nat /\ Cardinality(OnWorkers(i)) \in Nat
  BY <1>2, <1>3, FS_CardinalityType
<1>5. OnStack(i) # {} => Cardinality(OnStack(i)) # 0
  BY <1>2, FS_EmptySet
<1>6. OnWorkers(i) # {} => Cardinality(OnWorkers(i)) # 0
  BY <1>3, FS_EmptySet
<1> QED
  BY <1>3, <1>4, <1>5, <1>6 DEF Counted

-----------------------------------------------------------------------------
(* What the steps of a call do to the stack of the thread. *)
OnlyStackOf(e) ==
  /\ stack' \in [Engines -> Seq(Frame)]
  /\ \A b \in Engines \ {e} : stack'[b] = stack[b]

\* A new stack of one engine leaves the stacks of the others alone.
LEMMA OnlyStack ==
  ASSUME TypeOK, NEW e \in Engines, NEW t \in Seq(Frame), stack' = [stack EXCEPT ![e] = t]
  PROVE  OnlyStackOf(e) /\ stack'[e] = t
  BY DEF TypeOK, Frame, OnlyStackOf

(* A call is pushed, and every call below it is nested from now on. *)
LEMMA CallMoves ==
  ASSUME TypeOK, NEW e \in Engines, Resolved(e), Call(e)
  PROVE  /\ OnlyStackOf(e) /\ Len(stack'[e]) = Len(stack[e]) + 1
         /\ \A k \in 1..Len(stack[e]) :
              /\ Alike(stack[e][k], stack'[e][k])
              /\ stack'[e][k].k = "call" => stack'[e][k].nested
         /\ stack'[e][Len(stack[e]) + 1] =
              [k |-> "call", code |-> code[e], resolved |-> code[e], failed |-> FALSE,
                nested |-> FALSE]
         /\ code[e] \in Codes
<1>1. code[e] \in Codes /\ handle[e].code = code[e]
  BY DEF Call, Current, Resolved, TypeOK
<1>2. PICK f \in Frame : f = [k |-> "call", code |-> code[e], resolved |-> code[e],
                              failed |-> FALSE, nested |-> FALSE]
  BY <1>1 DEF Frame, CallFrames
<1>3. PICK s \in Seq(Frame) : s = stack[e]
  BY StackOf
<1>4. PICK m \in Seq(Frame) :
        /\ m = Marked(s) /\ Len(m) = Len(s)
        /\ \A k \in 1..Len(s) : m[k] = IF s[k].k = "call" THEN [s[k] EXCEPT !.nested = TRUE] ELSE s[k]
  BY Marks
<1>5. PICK t \in Seq(Frame) :
        /\ t = Append(m, f) /\ Len(t) = Len(m) + 1
        /\ \A k \in 1..Len(m) : t[k] = m[k]
        /\ t[Len(m) + 1] = f
  BY AppendProperties
<1>6. stack' = [stack EXCEPT ![e] = t]
  BY <1>1, <1>2, <1>3, <1>4, <1>5 DEF Call
<1>7. OnlyStackOf(e) /\ stack'[e] = t
  BY <1>6, OnlyStack
<1>8. ASSUME NEW k \in 1..Len(s)
      PROVE  Alike(s[k], t[k]) /\ (t[k].k = "call" => t[k].nested)
  <2>1. s[k] \in CallFrames \/ s[k] \in CallbackFrames
    BY ElementOfSeq DEF Frame
  <2>4. t[k] = IF s[k].k = "call" THEN [s[k] EXCEPT !.nested = TRUE] ELSE s[k]
    BY <1>4, <1>5
  <2>2. CASE s[k] \in CallFrames
    BY <2>2, <2>4 DEF CallFrames, Alike
  <2>3. CASE s[k] \in CallbackFrames
    BY <2>3, <2>4 DEF CallbackFrames, Alike
  <2> QED
    BY <2>1, <2>2, <2>3
<1> QED
  BY <1>1, <1>2, <1>3, <1>4, <1>5, <1>7, <1>8

(* The call on top fails. *)
LEMMA FailMoves ==
  ASSUME TypeOK, NEW e \in Engines, OriRuns(e), stack' = [stack EXCEPT ![e] = Failing(@)]
  PROVE  /\ OnlyStackOf(e) /\ Len(stack'[e]) = Len(stack[e])
         /\ \A k \in 1..(Len(stack[e]) - 1) : stack'[e][k] = stack[e][k]
         /\ \A k \in 1..Len(stack[e]) : Alike(stack[e][k], stack'[e][k])
         /\ stack'[e][Len(stack[e])] = [Last(stack[e]) EXCEPT !.failed = TRUE]
<1>1. PICK s \in Seq(Frame) : s = stack[e]
  BY StackOf
<1>2. PICK n \in Nat \ {0} : n = Len(s) /\ s # <<>> /\ Last(s) = s[n] /\ s[n] \in CallFrames
  BY <1>1, TopCall
<1>3. PICK t \in Seq(Frame) :
        /\ t = Failing(s) /\ Len(t) = n
        /\ \A k \in 1..(n - 1) : t[k] = s[k]
        /\ t[n] = [s[n] EXCEPT !.failed = TRUE]
  BY <1>2, Failed
<1>4. OnlyStackOf(e) /\ stack'[e] = t
  BY <1>1, <1>3, OnlyStack
<1>5. \A k \in 1..n : k \in 1..(n - 1) \/ k = n
  BY <1>2
<1>6. Alike(s[n], t[n])
  BY <1>2, <1>3 DEF Alike, CallFrames
<1>7. \A k \in 1..(n - 1) : Alike(s[k], t[k])
  BY <1>3 DEF Alike
<1> QED
  BY <1>1, <1>2, <1>3, <1>4, <1>5, <1>6, <1>7

(* A callback is entered. *)
LEMMA EnterMoves ==
  ASSUME TypeOK, NEW e \in Engines, NEW i \in Ids,
         stack' = [stack EXCEPT ![e] = Append(@, [k |-> "cb", id |-> i])]
  PROVE  /\ OnlyStackOf(e) /\ Len(stack'[e]) = Len(stack[e]) + 1
         /\ \A k \in 1..Len(stack[e]) : stack'[e][k] = stack[e][k]
         /\ stack'[e][Len(stack[e]) + 1] = [k |-> "cb", id |-> i]
<1>1. PICK s \in Seq(Frame) : s = stack[e]
  BY StackOf
<1>2. PICK f \in Frame : f = [k |-> "cb", id |-> i]
  BY DEF Frame, CallbackFrames
<1>3. PICK t \in Seq(Frame) :
        /\ t = Append(s, f) /\ Len(t) = Len(s) + 1
        /\ \A k \in 1..Len(s) : t[k] = s[k]
        /\ t[Len(s) + 1] = f
  BY AppendProperties
<1>4. OnlyStackOf(e) /\ stack'[e] = t
  BY <1>1, <1>2, <1>3, OnlyStack
<1> QED
  BY <1>1, <1>2, <1>3, <1>4

(* A call or a callback returns. *)
LEMMA LeaveMoves ==
  ASSUME TypeOK, NEW e \in Engines, stack[e] # <<>>, stack' = [stack EXCEPT ![e] = Front(@)]
  PROVE  /\ OnlyStackOf(e) /\ Len(stack'[e]) = Len(stack[e]) - 1
         /\ \A k \in 1..(Len(stack[e]) - 1) : stack'[e][k] = stack[e][k]
<1>1. PICK s \in Seq(Frame) : s = stack[e]
  BY StackOf
<1>2. PICK t \in Seq(Frame) :
        t = Front(s) /\ Len(t) = Len(s) - 1 /\ \A k \in 1..(Len(s) - 1) : t[k] = s[k]
  BY <1>1, Popped
<1>3. OnlyStackOf(e) /\ stack'[e] = t
  BY <1>1, <1>2, OnlyStack
<1> QED
  BY <1>1, <1>2, <1>3

(* A callback returns and fails the call that made it. *)
LEMMA LeaveFails ==
  ASSUME TypeOK, NEW e \in Engines, Frames(e), HostRuns(e), stack[e] # <<>>,
         stack' = [stack EXCEPT ![e] = Failing(Front(@))]
  PROVE  /\ OnlyStackOf(e) /\ Len(stack'[e]) = Len(stack[e]) - 1
         /\ \A k \in 1..(Len(stack[e]) - 2) : stack'[e][k] = stack[e][k]
         /\ \A k \in 1..(Len(stack[e]) - 1) : Alike(stack[e][k], stack'[e][k])
         /\ stack'[e][Len(stack[e]) - 1] = [stack[e][Len(stack[e]) - 1] EXCEPT !.failed = TRUE]
<1>1. PICK s \in Seq(Frame) : s = stack[e]
  BY StackOf
<1>2. PICK n \in Nat : n = Len(s) /\ n > 1 /\ s[n - 1] \in CallFrames
  BY <1>1, TopCallback
<1>3. PICK r \in Seq(Frame) :
        r = Front(s) /\ Len(r) = n - 1 /\ \A k \in 1..(n - 1) : r[k] = s[k]
  BY <1>1, <1>2, Popped
<1>4. n - 1 \in 1..(n - 1) /\ (n - 1) - 1 = n - 2
  BY <1>2
<1>5. r # <<>> /\ r[n - 1] = s[n - 1]
  BY <1>2, <1>3, <1>4, EmptySeq
<1>6. PICK t \in Seq(Frame) :
        /\ t = Failing(r) /\ Len(t) = n - 1
        /\ \A k \in 1..(n - 2) : t[k] = r[k]
        /\ t[n - 1] = [r[n - 1] EXCEPT !.failed = TRUE]
  BY <1>2, <1>3, <1>4, <1>5, Failed
<1>7. OnlyStackOf(e) /\ stack'[e] = t
  BY <1>1, <1>3, <1>6, OnlyStack
<1>8. \A k \in 1..(n - 1) : k \in 1..(n - 2) \/ k = n - 1
  BY <1>2
<1>9. \A k \in 1..(n - 2) : k \in 1..(n - 1)
  BY <1>2
<1>10. Alike(s[n - 1], t[n - 1])
  BY <1>2, <1>5, <1>6 DEF Alike, CallFrames
<1>11. \A k \in 1..(n - 2) : t[k] = s[k] /\ Alike(s[k], t[k])
  BY <1>3, <1>6, <1>9 DEF Alike
<1> QED
  BY <1>1, <1>2, <1>5, <1>6, <1>7, <1>8, <1>10, <1>11

-----------------------------------------------------------------------------
(* What a step does to the registration of a callback, ... *)
Entry(i, m, o, a, b) ==
  /\ cb' \in [Ids -> Registrations]
  /\ \A j \in Ids \ {i} : cb'[j] = cb[j]
  /\ cb'[i].mapped = m /\ cb'[i].orphaned = o /\ cb'[i].active = a /\ cb'[i].bound = b
  /\ cb'[i].store = cb[i].store

Stored(i, o, s) ==
  /\ cb' \in [Ids -> Registrations]
  /\ \A j \in Ids \ {i} : cb'[j] = cb[j]
  /\ cb'[i].mapped = cb[i].mapped /\ cb'[i].active = cb[i].active /\ cb'[i].bound = cb[i].bound
  /\ cb'[i].orphaned = o /\ cb'[i].store = s

\* Replacing one registration by a typed one is a move of the form Entry.
LEMMA EntryMoves ==
  ASSUME TypeOK, NEW i \in Ids, NEW f \in Registrations, cb' = [cb EXCEPT ![i] = f],
         f.store = cb[i].store
  PROVE  Entry(i, f.mapped, f.orphaned, f.active, f.bound)
  BY DEF TypeOK, Entry

\* The fields of a registration have their types.
LEMMA EntryOf ==
  ASSUME TypeOK, NEW i \in Ids
  PROVE  /\ cb[i] \in Registrations /\ cb[i].mapped \in BOOLEAN /\ cb[i].orphaned \in BOOLEAN
         /\ cb[i].active \in Nat /\ cb[i].bound \in Codes \cup {None}
         /\ cb[i].store \in {"none", "buffered", "missed"}
  BY DEF TypeOK, Registrations

\* The store of `orphaned' that a drop has made: it is on its way, it arrives, or the last
\* release has missed it.
LEMMA StoreMoves ==
  ASSUME TypeOK, NEW i \in Ids
  PROVE  /\ cb' = Overtaken(i) => Stored(i, cb[i].orphaned, "buffered")
         /\ cb' = [cb EXCEPT ![i].store = "missed"] => Stored(i, cb[i].orphaned, "missed")
         /\ StoreArrives(i) =>
              /\ cb[i].store # "none"
              /\ Stored(i, TRUE, IF cb[i].store = "buffered" THEN "none" ELSE cb[i].store)
<1>1. PICK r \in Registrations : r = cb[i]
  BY EntryOf
<1>2. ASSUME NEW s \in {"none", "buffered", "missed"}, cb' = [cb EXCEPT ![i].store = s]
      PROVE  Stored(i, cb[i].orphaned, s)
  <2>1. PICK f \in Registrations : f = [r EXCEPT !.store = s]
    BY DEF Registrations
  <2>2. /\ f.mapped = r.mapped /\ f.active = r.active /\ f.bound = r.bound
        /\ f.orphaned = r.orphaned /\ f.store = s
    BY <2>1 DEF Registrations
  <2>3. cb' = [cb EXCEPT ![i] = f]
    BY <1>1, <1>2, <2>1
  <2> QED
    BY <1>1, <2>2, <2>3 DEF TypeOK, Stored
<1>3. ASSUME StoreArrives(i)
      PROVE  Stored(i, TRUE, IF cb[i].store = "buffered" THEN "none" ELSE cb[i].store)
  <2>1. PICK s \in {"none", "buffered", "missed"} :
          s = IF r.store = "buffered" THEN "none" ELSE r.store
    BY <1>1, EntryOf
  <2>2. PICK f \in Registrations : f = [r EXCEPT !.orphaned = TRUE, !.store = s]
    BY DEF Registrations
  <2>3. /\ f.mapped = r.mapped /\ f.active = r.active /\ f.bound = r.bound
        /\ f.orphaned = TRUE /\ f.store = s
    BY <2>2 DEF Registrations
  <2>4. cb' = [cb EXCEPT ![i] = f]
    <3>1. cb' = [cb EXCEPT ![i] = [@ EXCEPT !.orphaned = TRUE, !.store = s]]
      BY <1>1, <1>3, <2>1, Zenon DEF StoreArrives
    <3> QED
      BY <1>1, <2>2, <3>1, Zenon
  <2> QED
    BY <1>1, <2>1, <2>3, <2>4 DEF TypeOK, Stored
<1>4. StoreArrives(i) => cb[i].store # "none"
  BY DEF StoreArrives, InFlight
<1> QED
  BY <1>2, <1>3, <1>4 DEF Overtaken

\* Every update the actions make to a registration - register, orphan and unregister,
\* remove, enter, leave, bind - is a move of the form Entry.
LEMMA EntryUpdates ==
  ASSUME TypeOK, NEW i \in Ids
  PROVE  /\ cb' = [cb EXCEPT ![i] = [@ EXCEPT !.mapped = TRUE]] =>
              Entry(i, TRUE, cb[i].orphaned, cb[i].active, cb[i].bound)
         /\ cb' = [cb EXCEPT ![i] = [@ EXCEPT !.mapped = FALSE, !.orphaned = TRUE]] =>
              Entry(i, FALSE, TRUE, cb[i].active, cb[i].bound)
         /\ cb' = [cb EXCEPT ![i].mapped = FALSE] =>
              Entry(i, FALSE, cb[i].orphaned, cb[i].active, cb[i].bound)
         /\ cb' = [cb EXCEPT ![i].active = @ + 1] =>
              Entry(i, cb[i].mapped, cb[i].orphaned, cb[i].active + 1, cb[i].bound)
         /\ cb[i].active > 0 /\ cb' = [cb EXCEPT ![i].active = @ - 1] =>
              Entry(i, cb[i].mapped, cb[i].orphaned, cb[i].active - 1, cb[i].bound)
         /\ cb' = [cb EXCEPT ![i] = [@ EXCEPT !.orphaned = TRUE]] =>
              Entry(i, cb[i].mapped, TRUE, cb[i].active, cb[i].bound)
         /\ \A c \in Codes : cb' = [cb EXCEPT ![i].bound = c] =>
              Entry(i, cb[i].mapped, cb[i].orphaned, cb[i].active, c)
<1>1. PICK r \in Registrations : r = cb[i]
  BY EntryOf
<1>2. ASSUME cb' = [cb EXCEPT ![i] = [@ EXCEPT !.mapped = TRUE]]
      PROVE  Entry(i, TRUE, cb[i].orphaned, cb[i].active, cb[i].bound)
  <2>1. PICK f \in Registrations : f = [r EXCEPT !.mapped = TRUE]
    BY DEF Registrations
  <2> QED
    BY <1>1, <1>2, <2>1, EntryMoves DEF Registrations
<1>3. ASSUME cb' = [cb EXCEPT ![i] = [@ EXCEPT !.mapped = FALSE, !.orphaned = TRUE]]
      PROVE  Entry(i, FALSE, TRUE, cb[i].active, cb[i].bound)
  <2>1. PICK f \in Registrations : f = [r EXCEPT !.mapped = FALSE, !.orphaned = TRUE]
    BY DEF Registrations
  <2> QED
    BY <1>1, <1>3, <2>1, EntryMoves DEF Registrations
<1>4. ASSUME cb' = [cb EXCEPT ![i].mapped = FALSE]
      PROVE  Entry(i, FALSE, cb[i].orphaned, cb[i].active, cb[i].bound)
  <2>1. PICK f \in Registrations : f = [r EXCEPT !.mapped = FALSE]
    BY DEF Registrations
  <2> QED
    BY <1>1, <1>4, <2>1, EntryMoves DEF Registrations
<1>5. ASSUME cb' = [cb EXCEPT ![i].active = @ + 1]
      PROVE  Entry(i, cb[i].mapped, cb[i].orphaned, cb[i].active + 1, cb[i].bound)
  <2>2. PICK n \in Nat : n = r.active + 1
    BY <1>1 DEF Registrations
  <2>1. PICK f \in Registrations : f = [r EXCEPT !.active = n]
    BY DEF Registrations
  <2> QED
    BY <1>1, <1>5, <2>1, <2>2, EntryMoves DEF Registrations
<1>6. ASSUME cb[i].active > 0, cb' = [cb EXCEPT ![i].active = @ - 1]
      PROVE  Entry(i, cb[i].mapped, cb[i].orphaned, cb[i].active - 1, cb[i].bound)
  <2>2. PICK n \in Nat : n = r.active - 1
    BY <1>1, <1>6 DEF Registrations
  <2>1. PICK f \in Registrations : f = [r EXCEPT !.active = n]
    BY DEF Registrations
  <2> QED
    BY <1>1, <1>6, <2>1, <2>2, EntryMoves DEF Registrations
<1>7. ASSUME cb' = [cb EXCEPT ![i] = [@ EXCEPT !.orphaned = TRUE]]
      PROVE  Entry(i, cb[i].mapped, TRUE, cb[i].active, cb[i].bound)
  <2>1. PICK f \in Registrations : f = [r EXCEPT !.orphaned = TRUE]
    BY DEF Registrations
  <2>2. /\ f.mapped = r.mapped /\ f.orphaned = TRUE /\ f.store = r.store /\ f.active = r.active
        /\ f.bound = r.bound
    BY <2>1 DEF Registrations
  <2>3. cb' = [cb EXCEPT ![i] = f]
    BY <1>1, <1>7, <2>1, Zenon
  <2>4. Entry(i, f.mapped, f.orphaned, f.active, f.bound)
    BY <1>1, <2>2, <2>3, EntryMoves
  <2> QED
    BY <1>1, <2>2, <2>4
<1>8. ASSUME NEW c \in Codes, cb' = [cb EXCEPT ![i].bound = c]
      PROVE  Entry(i, cb[i].mapped, cb[i].orphaned, cb[i].active, c)
  <2>1. PICK f \in Registrations : f = [r EXCEPT !.bound = c]
    BY DEF Registrations
  <2> QED
    BY <1>1, <1>8, <2>1, EntryMoves DEF Registrations
<1> QED
  BY <1>2, <1>3, <1>4, <1>5, <1>6, <1>7, <1>8

(* ... to a task on a worker thread, ... *)
TaskIs(w, p, c) ==
  /\ work' \in [Workers -> Tasks]
  /\ \A v \in Workers \ {w} : work'[v] = work[v]
  /\ work'[w].pc = p /\ work'[w].code = c

\* A step of a worker changes that worker's place and code only.
LEMMA TaskMoves ==
  ASSUME TypeOK, NEW w \in Workers
  PROVE  /\ work[w].code \in Codes \cup {None}
         /\ \A p \in {"idle", "ori", "check", "cb", "rel", "orphan", "remove"} :
              /\ Step(w, p) => TaskIs(w, p, work[w].code)
              /\ \A c \in Codes \cup {None} :
                   work' = [work EXCEPT ![w] = [pc |-> p, code |-> c]] => TaskIs(w, p, c)
<1>1. work[w] \in Tasks /\ work[w].code \in Codes \cup {None}
  BY DEF TypeOK, Tasks
<1>2. ASSUME NEW f \in Tasks, work' = [work EXCEPT ![w] = f]
      PROVE  TaskIs(w, f.pc, f.code)
  BY <1>2 DEF TypeOK, TaskIs
<1>3. ASSUME NEW p \in {"idle", "ori", "check", "cb", "rel", "orphan", "remove"}
      PROVE  /\ Step(w, p) => TaskIs(w, p, work[w].code)
             /\ \A c \in Codes \cup {None} :
                  work' = [work EXCEPT ![w] = [pc |-> p, code |-> c]] => TaskIs(w, p, c)
  <2>1. ASSUME Step(w, p) PROVE TaskIs(w, p, work[w].code)
    <3>1. PICK r \in Tasks : r = work[w]
      BY <1>1
    <3>2. PICK f \in Tasks : f = [r EXCEPT !.pc = p]
      BY DEF Tasks
    <3>3. f.pc = p /\ f.code = r.code
      BY <3>2 DEF Tasks
    <3>4. work' = [work EXCEPT ![w] = f]
      BY <2>1, <3>1, <3>2 DEF Step
    <3> QED
      BY <1>2, <3>1, <3>3, <3>4
  <2>2. ASSUME NEW c \in Codes \cup {None}, work' = [work EXCEPT ![w] = [pc |-> p, code |-> c]]
        PROVE  TaskIs(w, p, c)
    <3>1. PICK f \in Tasks : f = [pc |-> p, code |-> c]
      BY DEF Tasks
    <3> QED
      BY <1>2, <2>2, <3>1
  <2> QED
    BY <2>1, <2>2
<1> QED
  BY <1>1, <1>3

(* ... and to the numbers an engine has handed out. *)
LEMMA CountMoves ==
  ASSUME TypeOK, NEW e \in Engines
  PROVE  /\ compiled[e].codes \in Nat /\ compiled[e].ids \in Nat
         /\ MaxCode[e] \in Nat /\ MaxIds[e] \in Nat
         /\ compiled' = [compiled EXCEPT ![e].codes = @ + 1] =>
              /\ compiled' \in [Engines -> Counts]
              /\ \A b \in Engines \ {e} : compiled'[b] = compiled[b]
              /\ compiled'[e].codes = compiled[e].codes + 1 /\ compiled'[e].ids = compiled[e].ids
         /\ compiled' = [compiled EXCEPT ![e].ids = @ + 1] =>
              /\ compiled' \in [Engines -> Counts]
              /\ \A b \in Engines \ {e} : compiled'[b] = compiled[b]
              /\ compiled'[e].ids = compiled[e].ids + 1 /\ compiled'[e].codes = compiled[e].codes
<1>1. MaxCode[e] \in Nat /\ MaxIds[e] \in Nat
  BY BoundsAreNatural DEF BoundsAreNatural
<1>2. PICK r \in Counts : r = compiled[e]
  BY DEF TypeOK
<1>3. r.codes \in Nat /\ r.ids \in Nat
  BY DEF Counts
<1>4. ASSUME compiled' = [compiled EXCEPT ![e].codes = @ + 1]
      PROVE  /\ compiled' \in [Engines -> Counts]
             /\ \A b \in Engines \ {e} : compiled'[b] = compiled[b]
             /\ compiled'[e].codes = compiled[e].codes + 1 /\ compiled'[e].ids = compiled[e].ids
  <2>1. PICK n \in Nat : n = r.codes + 1
    BY <1>3
  <2>2. PICK f \in Counts : f = [r EXCEPT !.codes = n]
    BY DEF Counts
  <2>4. f.codes = n /\ f.ids = r.ids
    BY <2>2 DEF Counts
  <2>3. compiled' = [compiled EXCEPT ![e] = f]
    BY <1>2, <1>4, <2>1, <2>2
  <2> QED
    BY <1>2, <2>1, <2>3, <2>4 DEF TypeOK
<1>5. ASSUME compiled' = [compiled EXCEPT ![e].ids = @ + 1]
      PROVE  /\ compiled' \in [Engines -> Counts]
             /\ \A b \in Engines \ {e} : compiled'[b] = compiled[b]
             /\ compiled'[e].ids = compiled[e].ids + 1 /\ compiled'[e].codes = compiled[e].codes
  <2>1. PICK n \in Nat : n = r.ids + 1
    BY <1>3
  <2>2. PICK f \in Counts : f = [r EXCEPT !.ids = n]
    BY DEF Counts
  <2>4. f.ids = n /\ f.codes = r.codes
    BY <2>2 DEF Counts
  <2>3. compiled' = [compiled EXCEPT ![e] = f]
    BY <1>2, <1>5, <2>1, <2>2
  <2> QED
    BY <1>2, <2>1, <2>3, <2>4 DEF TypeOK
<1> QED
  BY <1>1, <1>2, <1>3, <1>4, <1>5

(* The code being compiled is one. *)
LEMMA NewestIsCode ==
  ASSUME TypeOK, NEW e \in Engines, Owned(e), pc[e] # "idle"
  PROVE  Newest(e) \in Codes /\ Newest(e)[1] = e /\ Newest(e)[2] = compiled[e].codes
<1>1. compiled[e].codes \in 1..MaxCode[e]
  BY CountMoves DEF TypeOK, Owned
<1> QED
  BY <1>1, Pairs DEF Newest

-----------------------------------------------------------------------------
(* The steps that change a registration, with the callback they change. *)
LEMMA RegisterMoves ==
  ASSUME TypeOK, NEW e \in Engines, RegisterCallback(e)
  PROVE  \E i \in Ids : /\ i[1] = e /\ i[2] = compiled[e].ids + 1
                        /\ Entry(i, TRUE, cb[i].orphaned, cb[i].active, cb[i].bound)
                        /\ named' = [named EXCEPT ![e] = i] /\ box' = box \cup {i}
<1>1. compiled[e].ids + 1 \in 1..MaxIds[e]
  <2>1. compiled[e].ids \in Nat /\ MaxIds[e] \in Nat
    BY CountMoves
  <2>2. compiled[e].ids < MaxIds[e]
    BY DEF RegisterCallback
  <2> QED
    BY <2>1, <2>2
<1>2. PICK i \in Ids : i = <<e, compiled[e].ids + 1>>
  BY <1>1, Pairs
<1>3. /\ cb' = [cb EXCEPT ![i] = [@ EXCEPT !.mapped = TRUE]]
      /\ named' = [named EXCEPT ![e] = i] /\ box' = box \cup {i}
  BY <1>2 DEF RegisterCallback
<1> QED
  BY <1>2, <1>3, EntryUpdates

\* Unregistering happens at active = 0 and takes the callback out of map and box.
LEMMA UnregisterMoves ==
  ASSUME TypeOK, NEW i \in Ids, Unregister(i)
  PROVE  /\ cb[i].active = 0 /\ Entry(i, FALSE, TRUE, 0, cb[i].bound)
         /\ box' = box \ {i}
  BY EntryUpdates DEF Unregister, NotActive

\* Orphaning leaves the map at once when nobody is inside, and else stays mapped.
LEMMA OrphanMoves ==
  ASSUME TypeOK, NEW i \in Ids, cb' = Orphan(i)
  PROVE  \/ cb[i].active = 0 /\ Entry(i, FALSE, TRUE, cb[i].active, cb[i].bound)
         \/ cb[i].active > 0 /\ Entry(i, cb[i].mapped, TRUE, cb[i].active, cb[i].bound)
<1>1. CASE cb[i].active = 0
  <2>1. cb' = [cb EXCEPT ![i] = [@ EXCEPT !.mapped = FALSE, !.orphaned = TRUE]]
    BY <1>1 DEF Orphan
  <2> QED
    BY <1>1, <2>1, EntryUpdates
<1>2. CASE cb[i].active # 0
  <2>1. cb' = [cb EXCEPT ![i] = [@ EXCEPT !.orphaned = TRUE]]
    BY <1>2 DEF Orphan
  <2>2. cb[i].active > 0
    BY <1>2, EntryOf
  <2> QED
    BY <2>1, <2>2, EntryUpdates
<1> QED
  BY <1>1, <1>2

\* A publication binds its new code to the callback the engine names, and to no other.
LEMMA BindMoves ==
  ASSUME TypeOK, NEW e \in Engines, Owned(e), Publish(e)
  PROVE  /\ Newest(e) \in Codes
         /\ \/ named[e] = None /\ cb' = cb
            \/ /\ named[e] \in Ids /\ named[e] # None
               /\ Entry(named[e], cb[named[e]].mapped, cb[named[e]].orphaned,
                        cb[named[e]].active, Newest(e))
<1>1. PICK c \in Codes : c = Newest(e)
  BY NewestIsCode DEF Publish
<1>2. CASE named[e] = None
  BY <1>1, <1>2 DEF Publish
<1>3. CASE named[e] # None
  <2>1. PICK i \in Ids : i = named[e]
    BY <1>3 DEF TypeOK
  <2>2. cb' = [cb EXCEPT ![i].bound = c]
    BY <1>1, <1>3, <2>1 DEF Publish
  <2> QED
    BY <1>1, <1>3, <2>1, <2>2, EntryUpdates
<1> QED
  BY <1>2, <1>3

\* A call of the import either fails with an error or enters a mapped callback, not orphaned,
\* of the engine itself, counting one more caller.
LEMMA InvokeMoves ==
  ASSUME TypeOK, NEW e \in Engines, Frames(e), Baked(Last(stack[e]).code), Invoke(e)
  PROVE  \/ cb' = cb /\ cbErr' = [cbErr EXCEPT ![e] = TRUE]
              /\ stack' = [stack EXCEPT ![e] = Failing(@)]
         \/ \E i \in Ids : /\ i[1] = e /\ cb[i].mapped /\ ~cb[i].orphaned /\ cbErr' = cbErr
                           /\ Entry(i, cb[i].mapped, cb[i].orphaned, cb[i].active + 1, cb[i].bound)
                           /\ stack' = [stack EXCEPT ![e] = Append(@, [k |-> "cb", id |-> i])]
<1>1. PICK c \in Codes : c = Last(stack[e]).code /\ c[1] = e
  <2>1. PICK n \in DOMAIN stack[e] : Last(stack[e]) = stack[e][n] /\ stack[e][n] \in CallFrames
    BY TopCall, StackOf DEF Invoke
  <2> QED
    BY <2>1 DEF CallFrames, Frames, CallFrame
<1>2. PICK i \in Ids : i = uses[c] /\ i[1] = e
  <2>1. uses[c] # None
    BY <1>1 DEF Invoke
  <2> QED
    BY <1>1, <2>1 DEF TypeOK, Baked
<1>3. \/ cb' = cb /\ cbErr' = [cbErr EXCEPT ![e] = TRUE]
           /\ stack' = [stack EXCEPT ![e] = Failing(@)]
      \/ /\ cb[i].mapped /\ ~cb[i].orphaned /\ cbErr' = cbErr
         /\ cb' = [cb EXCEPT ![i].active = @ + 1]
         /\ stack' = [stack EXCEPT ![e] = Append(@, [k |-> "cb", id |-> i])]
  BY <1>1, <1>2 DEF Invoke, Acquirable
<1> QED
  BY <1>2, <1>3, EntryUpdates

\* A callback that returns was counted, and is counted once less.
LEMMA BackMoves ==
  ASSUME TypeOK, NEW e \in Engines, Frames(e), \A i \in Ids : Counted(i), CallbackReturns(e)
  PROVE  \E i \in Ids : /\ i[1] = e /\ Last(stack[e]).id = i /\ Last(stack[e]).k = "cb"
                        /\ cb[i].active > 0
                        /\ Entry(i, cb[i].mapped, cb[i].orphaned, cb[i].active - 1, cb[i].bound)
<1>1. HostRuns(e) /\ stack[e] # <<>>
  BY DEF CallbackReturns
<1>2. PICK i \in Ids : i = Last(stack[e]).id /\ i[1] = e /\ Last(stack[e]).k = "cb"
  BY <1>1, TopCallback DEF CallbackFrames
<1>3. Len(stack[e]) \in OnStack(i)
  BY <1>1, <1>2, TopCallback DEF OnStack, CallbacksIn
<1>4. cb[i].active > 0
  BY <1>3, Inside
<1>5. cb' = [cb EXCEPT ![i].active = @ - 1]
  BY <1>2 DEF CallbackReturns
<1> QED
  BY <1>2, <1>4, <1>5, EntryUpdates

\* A worker that acquires enters the callback its code was compiled for, mapped and not
\* orphaned.
LEMMA AcquireMoves ==
  ASSUME TypeOK, Codings, NEW w \in Workers, TaskAcquires(w)
  PROVE  \E i \in Ids : /\ i = IdOf(w) /\ cb[i].mapped /\ ~cb[i].orphaned
                        /\ Entry(i, cb[i].mapped, cb[i].orphaned, cb[i].active + 1, cb[i].bound)
                        /\ TaskIs(w, "check", work[w].code)
<1>1. PICK i \in Ids : i = IdOf(w)
  BY DEF TaskAcquires, Codings, TypeOK, IdOf
<1>2. cb[i].mapped /\ ~cb[i].orphaned /\ cb' = [cb EXCEPT ![i].active = @ + 1] /\ Step(w, "check")
  BY <1>1 DEF TaskAcquires, Acquirable
<1> QED
  BY <1>1, <1>2, EntryUpdates, TaskMoves

\* A worker that releases was counted; the last one goes on to look at the orphan flag.
LEMMA ReleaseMoves ==
  ASSUME TypeOK, Codings, \A i \in Ids : Counted(i), NEW w \in Workers, TaskReleases(w)
  PROVE  \E i \in Ids : /\ i = IdOf(w) /\ cb[i].active > 0 /\ w \in OnWorkers(i)
                        /\ Entry(i, cb[i].mapped, cb[i].orphaned, cb[i].active - 1, cb[i].bound)
                        /\ TaskIs(w, IF cb[i].active = 1 THEN "orphan" ELSE "ori", work[w].code)
<1>1. PICK i \in Ids : i = IdOf(w) /\ w \in OnWorkers(i)
  BY DEF TaskReleases, Codings, InCallback, OnWorkers
<1>2. cb[i].active > 0
  BY <1>1, Inside
<1>3. /\ cb' = [cb EXCEPT ![i].active = @ - 1]
      /\ Step(w, IF cb[i].active = 1 THEN "orphan" ELSE "ori")
  BY <1>1 DEF TaskReleases
<1> QED
  BY <1>1, <1>2, <1>3, EntryUpdates, TaskMoves

\* A worker that removes an orphan takes the callback its code was compiled for from the map.
LEMMA RemoveMoves ==
  ASSUME TypeOK, Codings, NEW w \in Workers, TaskRemoves(w)
  PROVE  \E i \in Ids : /\ i = IdOf(w)
                        /\ Entry(i, FALSE, cb[i].orphaned, cb[i].active, cb[i].bound)
                        /\ TaskIs(w, "ori", work[w].code)
<1>1. PICK i \in Ids : i = IdOf(w)
  BY DEF TaskRemoves, Codings, InCallback
<1>2. cb' = [cb EXCEPT ![i].mapped = FALSE] /\ Step(w, "ori")
  BY <1>1 DEF TaskRemoves
<1> QED
  BY <1>1, <1>2, EntryUpdates, TaskMoves

\* A worker that reads the orphan flag while the store is on its way, with nobody inside, has
\* missed it.
LEMMA ReadMoves ==
  ASSUME TypeOK, Codings, NEW w \in Workers, TaskReadsOrphan(w)
  PROVE  \E i \in Ids :
           /\ i = IdOf(w)
           /\ IF InFlight(i) /\ cb[i].active = 0
                THEN Stored(i, cb[i].orphaned, "missed") ELSE cb' = cb
<1>1. PICK i \in Ids : i = IdOf(w)
  BY DEF TaskReadsOrphan, Codings, InCallback
<1>2. cb' = IF InFlight(i) /\ cb[i].active = 0
              THEN [cb EXCEPT ![i].store = "missed"] ELSE cb
  BY <1>1 DEF TaskReadsOrphan
<1> QED
  BY <1>1, <1>2, StoreMoves

\* What the drop of an engine does to the callback it names.
LEMMA DropMoves ==
  ASSUME TypeOK, NEW e \in Engines, DropEngine(e)
  PROVE  \/ cb' = cb
         \/ /\ named[e] \in Ids /\ named[e] # None
            /\ \/ cb' = Orphan(named[e])
               \/ /\ cb[named[e]].active > 0
                  /\ Stored(named[e], cb[named[e]].orphaned, "buffered")
<1>1. named[e] # None => named[e] \in Ids
  BY DEF TypeOK
<1> QED
  BY <1>1, StoreMoves DEF DropEngine

-----------------------------------------------------------------------------
RuntimeTypes ==
  /\ lifecycle \in {"Stopped", "Running", "Stopping"} /\ raced \in BOOLEAN
  /\ attached \subseteq Engines /\ leases \subseteq Codes
  /\ closing \in [Threads -> {"no", "zero", "stop"}]

(* A dropped lease, whoever drops it. *)
LEMMA DropTypes ==
  ASSUME TypeOK, NEW t \in Threads, NEW kept \in SUBSET leases, Drop(t, kept)
  PROVE  RuntimeTypes'
  BY DEF TypeOK, RuntimeTypes, Drop

\* Settling a lease keeps the types of the runtime's state.
LEMMA SettleTypes ==
  ASSUME TypeOK, NEW t \in Threads, Settle(t)
  PROVE  RuntimeTypes'
  BY DropTypes DEF Settle

(* Every step keeps the types. *)
LEMMA TypeStep == ASSUME EInv, Next PROVE TypeOK'
<1> USE DEF runtime, registry, modules, calls
<1>1. TypeOK /\ Codings /\ \A e \in Engines : Owned(e) /\ Resolved(e) /\ Frames(e)
  BY DEF EInv
<1>2. Engines \subseteq Threads /\ Workers \subseteq Threads
  BY DEF Threads
<1>33. (\A i \in Ids : Counted(i)) /\ \A c \in Codes : Baked(c)
  BY DEF EInv, Callback
<1>3. ASSUME NEW e \in Engines, RegisterCallback(e) PROVE TypeOK'
  <2>3. PICK i \in Ids : cb' \in [Ids -> Registrations] /\ named' = [named EXCEPT ![e] = i]
          /\ box' = box \cup {i}
    BY <1>1, <1>3, RegisterMoves DEF Entry
  <2>1. cb' \in [Ids -> Registrations] /\ named' \in [Engines -> Ids \cup {None}]
          /\ box' \subseteq Ids
    BY <1>1, <2>3 DEF TypeOK
  <2>2. /\ compiled' \in [Engines -> Counts]
        /\ \A b \in Engines : compiled'[b].codes <= MaxCode[b] /\ compiled'[b].ids <= MaxIds[b]
    <3>1. compiled[e].ids < MaxIds[e] /\ compiled' = [compiled EXCEPT ![e].ids = @ + 1]
      BY <1>3 DEF RegisterCallback
    <3>2. /\ compiled[e].ids \in Nat /\ MaxIds[e] \in Nat /\ compiled' \in [Engines -> Counts]
          /\ compiled'[e].ids = compiled[e].ids + 1 /\ compiled'[e].codes = compiled[e].codes
          /\ \A b \in Engines \ {e} : compiled'[b] = compiled[b]
      BY <1>1, <3>1, CountMoves
    <3>3. \A b \in Engines : compiled[b].codes <= MaxCode[b] /\ compiled[b].ids <= MaxIds[b]
      BY <1>1 DEF TypeOK
    <3> QED
      BY <3>1, <3>2, <3>3
  <2> QED
    BY <1>1, <1>3, <2>1, <2>2 DEF RegisterCallback, TypeOK
<1>4. ASSUME NEW e \in Engines, RemoveCallback(e) PROVE TypeOK'
  <2>1. named[e] \in Ids
    BY <1>1, <1>4 DEF RemoveCallback, TypeOK
  <2>2. cb' \in [Ids -> Registrations] /\ box' \subseteq Ids
    BY <1>1, <1>4, <2>1, UnregisterMoves DEF RemoveCallback, Entry, TypeOK
  <2>3. RuntimeTypes'
    BY <1>1, <1>2, <1>4, SettleTypes DEF RemoveCallback
  <2> QED
    BY <1>1, <1>4, <2>2, <2>3 DEF RemoveCallback, TypeOK, RuntimeTypes
<1>5. ASSUME NEW e \in Engines, CompileInit(e) PROVE TypeOK'
  <2>1. /\ compiled' \in [Engines -> Counts]
        /\ \A b \in Engines : compiled'[b].codes <= MaxCode[b] /\ compiled'[b].ids <= MaxIds[b]
    <3>1. compiled[e].codes < MaxCode[e] /\ compiled' = [compiled EXCEPT ![e].codes = @ + 1]
      BY <1>5 DEF CompileInit
    <3>2. /\ compiled[e].codes \in Nat /\ MaxCode[e] \in Nat /\ compiled' \in [Engines -> Counts]
          /\ compiled'[e].codes = compiled[e].codes + 1 /\ compiled'[e].ids = compiled[e].ids
          /\ \A b \in Engines \ {e} : compiled'[b] = compiled[b]
      BY <1>1, <3>1, CountMoves
    <3>3. \A b \in Engines : compiled[b].codes <= MaxCode[b] /\ compiled[b].ids <= MaxIds[b]
      BY <1>1 DEF TypeOK
    <3> QED
      BY <3>1, <3>2, <3>3
  <2> QED
    BY <1>1, <1>5, <2>1 DEF CompileInit, TypeOK
<1>6. ASSUME NEW e \in Engines, TakeLease(e) PROVE TypeOK'
  BY <1>1, <1>6, NewestIsCode DEF TakeLease, TypeOK
<1>7. ASSUME NEW e \in Engines, Publish(e) PROVE TypeOK'
  <2>1. Newest(e) \in Codes /\ cb' \in [Ids -> Registrations]
    BY <1>1, <1>7, BindMoves DEF Entry, TypeOK
  <2>2. module' \in [Engines -> Modules]
    BY <1>1, <1>7 DEF Publish, TypeOK, NextModule, Modules
  <2>3. /\ code' \in [Engines -> Codes \cup {None}] /\ old' \subseteq Codes
        /\ uses' \in [Codes -> Ids \cup {None}]
    BY <1>1, <1>7, <2>1 DEF Publish, TypeOK
  <2>5. cbErr' \in [Engines -> BOOLEAN]
    <3>1. PICK f \in BOOLEAN : f = (cbErr[e] \/ named[e] # None)
      OBVIOUS
    <3>2. cbErr \in [Engines -> BOOLEAN] /\ (cbErr' = cbErr \/ cbErr' = [cbErr EXCEPT ![e] = f])
      BY <1>1, <1>7, <3>1 DEF Publish, TypeOK
    <3> QED
      BY <3>2
  <2>4. RuntimeTypes'
    BY <1>1, <1>2, <1>7, SettleTypes DEF Publish
  <2> QED
    BY <1>1, <1>7, <2>1, <2>2, <2>3, <2>4, <2>5 DEF Publish, TypeOK, RuntimeTypes
<1>8. ASSUME NEW e \in Engines, CompileFails(e) PROVE TypeOK'
  <2>1. RuntimeTypes'
    BY <1>1, <1>2, <1>8, DropTypes DEF CompileFails
  <2> QED
    BY <1>1, <1>8, <2>1 DEF CompileFails, TypeOK, RuntimeTypes
<1>9. ASSUME NEW e \in Engines, Unload(e) PROVE TypeOK'
  <2>1. RuntimeTypes'
    BY <1>1, <1>2, <1>9, SettleTypes DEF Unload
  <2>2. module' \in [Engines -> Modules]
    BY <1>1, <1>9 DEF Unload, TypeOK, Modules
  <2> QED
    BY <1>1, <1>9, <2>1, <2>2 DEF Unload, TypeOK, RuntimeTypes
<1>10. ASSUME NEW e \in Engines, Resolve(e) PROVE TypeOK'
  BY <1>1, <1>10 DEF Resolve, TypeOK, Handles
<1>11. ASSUME NEW e \in Engines, ReleaseHandle(e) PROVE TypeOK'
  BY <1>1, <1>11 DEF ReleaseHandle, TypeOK
<1>12. ASSUME NEW e \in Engines, DropSlice(e) PROVE TypeOK'
  <2>1. RuntimeTypes'
    BY <1>1, <1>2, <1>12, SettleTypes DEF DropSlice
  <2> QED
    BY <1>1, <1>12, <2>1 DEF DropSlice, TypeOK, RuntimeTypes
<1>13. ASSUME NEW e \in Engines, Cancel(e) PROVE TypeOK'
  BY <1>1, <1>13 DEF Cancel, TypeOK
<1>14. ASSUME NEW e \in Engines, ResetCancellation(e) PROVE TypeOK'
  BY <1>1, <1>14 DEF ResetCancellation, TypeOK
<1>15. ASSUME NEW e \in Engines, ContextDestroy(e) PROVE TypeOK'
  <2>1. named[e] # None => named[e] \in Ids
    BY <1>1 DEF TypeOK
  <2>2. cb' \in [Ids -> Registrations] /\ box' \subseteq Ids
    BY <1>1, <1>15, <2>1, UnregisterMoves DEF ContextDestroy, Entry, TypeOK
  <2>3. RuntimeTypes'
    BY <1>1, <1>2, <1>15, SettleTypes DEF ContextDestroy, Emptied
  <2> QED
    BY <1>1, <1>15, <2>2, <2>3 DEF ContextDestroy, Emptied, TypeOK, RuntimeTypes
<1>16. ASSUME NEW e \in Engines, DropEngine(e) PROVE TypeOK'
  <2>1. named[e] # None => named[e] \in Ids
    BY <1>1 DEF TypeOK
  <2>2. cb' \in [Ids -> Registrations] /\ box' \subseteq Ids
    BY <1>1, <1>16, <2>1, DropMoves, OrphanMoves DEF DropEngine, Entry, Stored, TypeOK
  <2>3. RuntimeTypes'
    BY <1>1, <1>2, <1>16, SettleTypes DEF DropEngine, Emptied
  <2> QED
    BY <1>1, <1>16, <2>2, <2>3 DEF DropEngine, Emptied, TypeOK, RuntimeTypes
<1>17. ASSUME NEW e \in Engines, ThreadEnds(e) PROVE TypeOK'
  BY <1>1, <1>17 DEF ThreadEnds, TypeOK
<1>18. ASSUME NEW e \in Engines, Call(e) PROVE TypeOK'
  <2>1. stack' \in [Engines -> Seq(Frame)]
    BY <1>1, <1>18, CallMoves DEF OnlyStackOf
  <2> QED
    BY <1>1, <1>18, <2>1 DEF Call, Cleared, Frame, TypeOK
<1>19. ASSUME NEW e \in Engines, OriError(e) PROVE TypeOK'
  <2>1. stack' \in [Engines -> Seq(Frame)]
    BY <1>1, <1>19, FailMoves DEF OriError, OnlyStackOf
  <2> QED
    BY <1>1, <1>19, <2>1 DEF OriError, Frame, TypeOK
<1>20. ASSUME NEW e \in Engines, Invoke(e) PROVE TypeOK'
  <2>1. Baked(Last(stack[e]).code) /\ OriRuns(e)
    BY <1>1, <1>33, <1>20, TopCall DEF Invoke, CallFrames
  <2>2. stack' \in [Engines -> Seq(Frame)] /\ cbErr' \in [Engines -> BOOLEAN]
          /\ cb' \in [Ids -> Registrations]
    <3>1. CASE /\ cb' = cb /\ cbErr' = [cbErr EXCEPT ![e] = TRUE]
               /\ stack' = [stack EXCEPT ![e] = Failing(@)]
      BY <1>1, <2>1, <3>1, FailMoves DEF OnlyStackOf, TypeOK
    <3>2. ASSUME NEW i \in Ids, cbErr' = cbErr,
                 Entry(i, cb[i].mapped, cb[i].orphaned, cb[i].active + 1, cb[i].bound),
                 stack' = [stack EXCEPT ![e] = Append(@, [k |-> "cb", id |-> i])]
          PROVE  stack' \in [Engines -> Seq(Frame)] /\ cbErr' \in [Engines -> BOOLEAN]
                   /\ cb' \in [Ids -> Registrations]
      BY <1>1, <3>2, EnterMoves DEF OnlyStackOf, Entry, TypeOK
    <3> QED
      BY <1>1, <1>20, <2>1, <3>1, <3>2, InvokeMoves
  <2> QED
    BY <1>1, <1>20, <2>2 DEF Invoke, Frame, TypeOK
<1>21. ASSUME NEW e \in Engines, CallbackReturns(e) PROVE TypeOK'
  <2>1. cb' \in [Ids -> Registrations]
    BY <1>1, <1>33, <1>21, BackMoves DEF Entry
  <2>2. stack' \in [Engines -> Seq(Frame)]
    BY <1>1, <1>21, LeaveMoves, LeaveFails DEF CallbackReturns, OnlyStackOf
  <2>3. cbErr' \in [Engines -> BOOLEAN]
    BY <1>1, <1>21 DEF CallbackReturns, TypeOK
  <2> QED
    BY <1>1, <1>21, <2>1, <2>2, <2>3 DEF CallbackReturns, Frame, TypeOK
<1>22. ASSUME NEW e \in Engines, Return(e) PROVE TypeOK'
  <2>1. Last(stack[e]).code \in Codes /\ stack[e] # <<>>
    BY <1>1, <1>22, TopCall DEF Return, CallFrames
  <2>2. stack' \in [Engines -> Seq(Frame)]
    BY <1>1, <1>22, <2>1, LeaveMoves DEF OnlyStackOf, Return
  <2>3. slices' \subseteq Codes
    BY <1>1, <1>22, <2>1 DEF TypeOK, Return
  <2>4. cbErr' \in [Engines -> BOOLEAN]
    BY <1>1, <1>22 DEF TypeOK, Return
  <2> QED
    BY <1>1, <1>22, <2>2, <2>3, <2>4 DEF Return, TypeOK, Frame
<1>23. ASSUME NEW w \in Workers, NEW e \in Engines, Spawn(w, e) PROVE TypeOK'
  <2>1. Last(stack[e]).code \in Codes
    BY <1>1, <1>23, TopCall DEF Spawn, CallFrames
  <2>2. work' \in [Workers -> Tasks]
    BY <1>1, <1>23, <2>1, TaskMoves DEF Spawn, TaskIs
  <2> QED
    BY <1>1, <1>23, <2>2 DEF Spawn, TypeOK
<1>24. ASSUME NEW w \in Workers, TaskAcquires(w) PROVE TypeOK'
  <2>1. cb' \in [Ids -> Registrations] /\ work' \in [Workers -> Tasks]
    BY <1>1, <1>24, AcquireMoves DEF Entry, TaskIs
  <2> QED
    BY <1>1, <1>24, <2>1 DEF TaskAcquires, TypeOK
<1>25. ASSUME NEW w \in Workers, TaskChecks(w) PROVE TypeOK'
  <2>1. work' \in [Workers -> Tasks]
    BY <1>1, <1>25, TaskMoves DEF TaskChecks, TaskIs
  <2> QED
    BY <1>1, <1>25, <2>1 DEF TaskChecks, TypeOK
<1>26. ASSUME NEW w \in Workers, TaskReturns(w) PROVE TypeOK'
  <2>1. work' \in [Workers -> Tasks]
    BY <1>1, <1>26, TaskMoves DEF TaskReturns, TaskIs
  <2> QED
    BY <1>1, <1>26, <2>1 DEF TaskReturns, TypeOK
<1>27. ASSUME NEW w \in Workers, TaskReleases(w) PROVE TypeOK'
  <2>1. cb' \in [Ids -> Registrations] /\ work' \in [Workers -> Tasks]
    BY <1>1, <1>33, <1>27, ReleaseMoves DEF Entry, TaskIs
  <2>2. RuntimeTypes'
    BY <1>1, <1>2, <1>27, SettleTypes DEF TaskReleases
  <2> QED
    BY <1>1, <1>27, <2>1, <2>2 DEF TaskReleases, TypeOK, RuntimeTypes
<1>28. ASSUME NEW w \in Workers, TaskReadsOrphan(w) PROVE TypeOK'
  <2>1. work' \in [Workers -> Tasks]
    BY <1>1, <1>28, TaskMoves DEF TaskReadsOrphan, TaskIs
  <2>2. RuntimeTypes'
    BY <1>1, <1>2, <1>28, SettleTypes DEF TaskReadsOrphan
  <2>3. cb' \in [Ids -> Registrations]
    BY <1>1, <1>33, <1>28, ReadMoves DEF Stored, TypeOK
  <2> QED
    BY <1>1, <1>28, <2>1, <2>2, <2>3 DEF TaskReadsOrphan, TypeOK, RuntimeTypes
<1>29. ASSUME NEW w \in Workers, TaskRemoves(w) PROVE TypeOK'
  <2>1. cb' \in [Ids -> Registrations] /\ work' \in [Workers -> Tasks]
    BY <1>1, <1>29, RemoveMoves DEF Entry, TaskIs
  <2>2. RuntimeTypes'
    BY <1>1, <1>2, <1>29, SettleTypes DEF TaskRemoves
  <2> QED
    BY <1>1, <1>29, <2>1, <2>2 DEF TaskRemoves, TypeOK, RuntimeTypes
<1>30. ASSUME NEW w \in Workers, TaskEnds(w) PROVE TypeOK'
  <2>1. work' \in [Workers -> Tasks]
    BY <1>1, <1>30, TaskMoves DEF TaskEnds, TaskIs
  <2> QED
    BY <1>1, <1>30, <2>1 DEF TaskEnds, TypeOK
<1>31. ASSUME NEW t \in Threads, ShutdownBegin(t) PROVE TypeOK'
  BY <1>1, <1>31 DEF ShutdownBegin, TypeOK
<1>32. ASSUME NEW t \in Threads, ShutdownEnd(t) PROVE TypeOK'
  BY <1>1, <1>32 DEF ShutdownEnd, TypeOK
<1>34. ASSUME NEW i \in Ids, StoreArrives(i) PROVE TypeOK'
  BY <1>1, <1>34, StoreMoves DEF StoreArrives, Stored, TypeOK
<1> QED
  BY <1>3, <1>4, <1>5, <1>6, <1>7, <1>8, <1>9, <1>10, <1>11, <1>12, <1>13, <1>14, <1>15, <1>16,
     <1>17, <1>18, <1>19, <1>20, <1>21, <1>22, <1>23, <1>24, <1>25, <1>26, <1>27, <1>28, <1>29,
     <1>30, <1>31, <1>32, <1>34 DEF Next, Host, Task

-----------------------------------------------------------------------------
(* Which steps change what. *)
Registers(e) == RegisterCallback(e) \/ RemoveCallback(e)
Compiles(e) == CompileInit(e) \/ TakeLease(e) \/ Publish(e) \/ CompileFails(e)
Ends(e) == ContextDestroy(e) \/ DropEngine(e)
CallSteps(e) == Call(e) \/ OriError(e) \/ Invoke(e) \/ CallbackReturns(e) \/ Return(e)

\* Which actions can change which variable: every other action leaves it alone.
LEMMA Movers ==
  ASSUME Next
  PROVE  /\ UNCHANGED <<code, old>> \/ (\E e \in Engines : Publish(e) \/ Unload(e) \/ Ends(e))
         /\ UNCHANGED module \/ (\E e \in Engines : Publish(e) \/ Unload(e))
         /\ UNCHANGED uses \/ (\E e \in Engines : Publish(e))
         /\ UNCHANGED named \/ (\E e \in Engines : Registers(e) \/ Ends(e))
         /\ UNCHANGED compiled \/ (\E e \in Engines : RegisterCallback(e) \/ CompileInit(e))
         /\ UNCHANGED pc \/ (\E e \in Engines : Compiles(e))
         /\ UNCHANGED handle \/ (\E e \in Engines : Resolve(e) \/ ReleaseHandle(e) \/ Ends(e))
         /\ UNCHANGED slices \/ (\E e \in Engines : DropSlice(e) \/ Return(e))
         /\ UNCHANGED <<stack, hostErr>> \/ (\E e \in Engines : CallSteps(e))
         /\ UNCHANGED cbErr \/ (\E e \in Engines : CallSteps(e) \/ Publish(e))
         /\ UNCHANGED live \/ (\E e \in Engines : Ends(e))
         /\ UNCHANGED work \/ (\E w \in Workers : Task(w))
         /\ \/ UNCHANGED <<cb, box>>
            \/ \E e \in Engines :
                 Registers(e) \/ Publish(e) \/ Ends(e) \/ Invoke(e) \/ CallbackReturns(e)
            \/ \E w \in Workers : Task(w)
            \/ \E i \in Ids : StoreArrives(i)
<1> USE DEF runtime, registry, modules, calls
<1>1. ASSUME NEW e \in Engines, RegisterCallback(e)
      PROVE  UNCHANGED <<code, old, module, uses, pc, handle, slices, stack, hostErr, cbErr, live,
               work>>
  BY <1>1 DEF RegisterCallback
<1>2. ASSUME NEW e \in Engines, RemoveCallback(e)
      PROVE  UNCHANGED <<code, old, module, uses, compiled, pc, handle, slices, stack, hostErr,
               cbErr, live, work>>
  BY <1>2 DEF RemoveCallback
<1>3. ASSUME NEW e \in Engines, CompileInit(e)
      PROVE  UNCHANGED <<code, old, module, uses, named, handle, slices, stack, hostErr, cbErr,
               live, work, cb, box>>
  BY <1>3 DEF CompileInit
<1>4. ASSUME NEW e \in Engines, TakeLease(e)
      PROVE  UNCHANGED <<code, old, module, uses, named, compiled, handle, slices, stack, hostErr,
               cbErr, live, work, cb, box>>
  BY <1>4 DEF TakeLease
<1>5. ASSUME NEW e \in Engines, Publish(e)
      PROVE  UNCHANGED <<named, compiled, handle, slices, stack, hostErr, live, work>>
  BY <1>5 DEF Publish
<1>6. ASSUME NEW e \in Engines, CompileFails(e)
      PROVE  UNCHANGED <<code, old, module, uses, named, compiled, handle, slices, stack, hostErr,
               cbErr, live, work, cb, box>>
  BY <1>6 DEF CompileFails
<1>7. ASSUME NEW e \in Engines, Unload(e)
      PROVE  UNCHANGED <<uses, named, compiled, pc, handle, slices, stack, hostErr, cbErr, live,
               work, cb, box>>
  BY <1>7 DEF Unload
<1>8. ASSUME NEW e \in Engines, Resolve(e)
      PROVE  UNCHANGED <<code, old, module, uses, named, compiled, pc, slices, stack, hostErr,
               cbErr, live, work, cb, box>>
  BY <1>8 DEF Resolve
<1>9. ASSUME NEW e \in Engines, ReleaseHandle(e)
      PROVE  UNCHANGED <<code, old, module, uses, named, compiled, pc, slices, stack, hostErr,
               cbErr, live, work, cb, box>>
  BY <1>9 DEF ReleaseHandle
<1>10. ASSUME NEW e \in Engines, DropSlice(e)
       PROVE  UNCHANGED <<code, old, module, uses, named, compiled, pc, handle, stack, hostErr,
                cbErr, live, work, cb, box>>
  BY <1>10 DEF DropSlice
<1>11. ASSUME NEW e \in Engines, Cancel(e)
       PROVE  UNCHANGED <<code, old, module, uses, named, compiled, pc, handle, slices, stack,
                hostErr, cbErr, live, work, cb, box>>
  BY <1>11 DEF Cancel
<1>12. ASSUME NEW e \in Engines, ResetCancellation(e)
       PROVE  UNCHANGED <<code, old, module, uses, named, compiled, pc, handle, slices, stack,
                hostErr, cbErr, live, work, cb, box>>
  BY <1>12 DEF ResetCancellation
<1>13. ASSUME NEW e \in Engines, ContextDestroy(e)
       PROVE  UNCHANGED <<module, uses, compiled, pc, slices, stack, hostErr, cbErr, work>>
  BY <1>13 DEF ContextDestroy, Emptied, Settle, Drop
<1>14. ASSUME NEW e \in Engines, DropEngine(e)
       PROVE  UNCHANGED <<module, uses, compiled, pc, slices, stack, hostErr, cbErr, work>>
  BY <1>14 DEF DropEngine, Emptied, Settle, Drop
<1>15. ASSUME NEW e \in Engines, ThreadEnds(e)
       PROVE  UNCHANGED <<code, old, module, uses, named, compiled, pc, handle, slices, stack,
                hostErr, cbErr, live, work, cb, box>>
  BY <1>15 DEF ThreadEnds
<1>16. ASSUME NEW e \in Engines, Call(e)
       PROVE  UNCHANGED <<code, old, module, uses, named, compiled, pc, handle, slices, live,
                work, cb, box>>
  BY <1>16 DEF Call
<1>17. ASSUME NEW e \in Engines, OriError(e)
       PROVE  UNCHANGED <<code, old, module, uses, named, compiled, pc, handle, slices, live,
                work, cb, box>>
  BY <1>17 DEF OriError
<1>18. ASSUME NEW e \in Engines, Invoke(e)
       PROVE  UNCHANGED <<code, old, module, uses, named, compiled, pc, handle, slices, live, work>>
  BY <1>18 DEF Invoke
<1>19. ASSUME NEW e \in Engines, CallbackReturns(e)
       PROVE  UNCHANGED <<code, old, module, uses, named, compiled, pc, handle, slices, live, work>>
  BY <1>19 DEF CallbackReturns
<1>20. ASSUME NEW e \in Engines, Return(e)
       PROVE  UNCHANGED <<code, old, module, uses, named, compiled, pc, handle, live, work, cb,
                box>>
  BY <1>20 DEF Return
<1>21. ASSUME NEW w \in Workers, Task(w)
       PROVE  UNCHANGED <<code, old, module, uses, named, compiled, pc, handle, slices, stack,
                hostErr, cbErr, live>>
  BY <1>21 DEF Task, Spawn, TaskAcquires, TaskChecks, TaskReturns, TaskReleases,
     TaskReadsOrphan, TaskRemoves, TaskEnds
<1>22. ASSUME NEW t \in Threads, ShutdownBegin(t) \/ ShutdownEnd(t)
       PROVE  UNCHANGED <<code, old, module, uses, named, compiled, pc, handle, slices, stack,
                hostErr, cbErr, live, work, cb, box>>
  BY <1>22 DEF ShutdownBegin, ShutdownEnd
<1>23. ASSUME NEW i \in Ids, StoreArrives(i)
       PROVE  UNCHANGED <<code, old, module, uses, named, compiled, pc, handle, slices, stack,
                hostErr, cbErr, live, work>>
  BY <1>23 DEF StoreArrives
<1> QED
  BY <1>1, <1>2, <1>3, <1>4, <1>5, <1>6, <1>7, <1>8, <1>9, <1>10, <1>11, <1>12, <1>13, <1>14,
     <1>15, <1>16, <1>17, <1>18, <1>19, <1>20, <1>21, <1>22, <1>23 DEF Next, Host, Registers, Compiles,
     Ends, CallSteps

(* A compilation that is over stays over, and the code keeps the callback  *)
(* it was compiled with.                                                   *)
LEMMA OverStep ==
  ASSUME EInv, Next, NEW c \in Codes, Over(c)
  PROVE  Over(c)' /\ uses'[c] = uses[c]
<1>1. TypeOK /\ c[1] \in Engines /\ c[2] \in Nat /\ compiled[c[1]].codes \in Nat
  BY Pairs, CountMoves DEF EInv
<1>2. ASSUME NEW e \in Engines, CompileInit(e) PROVE Over(c)'
  <2>1. compiled' = [compiled EXCEPT ![e].codes = @ + 1] /\ pc' = [pc EXCEPT ![e] = "lease"]
    BY <1>2 DEF CompileInit
  <2>2. CASE c[1] = e
    <3>1. compiled'[e].codes = compiled[e].codes + 1
      BY <1>1, <2>1, CountMoves
    <3> QED
      BY <1>1, <2>2, <3>1 DEF Over
  <2>3. CASE c[1] # e
    <3>1. compiled'[c[1]] = compiled[c[1]] /\ pc'[c[1]] = pc[c[1]]
      BY <1>1, <2>1, <2>3, CountMoves DEF TypeOK
    <3> QED
      BY <3>1 DEF Over
  <2> QED
    BY <2>2, <2>3
<1>3. ASSUME NEW e \in Engines, TakeLease(e) \/ Publish(e) \/ CompileFails(e) PROVE Over(c)'
  <2>1. compiled' = compiled /\ \A b \in Engines : pc'[b] # "idle" => pc[b] # "idle"
    BY <1>1, <1>3 DEF TakeLease, Publish, CompileFails, TypeOK
  <2> QED
    BY <1>1, <2>1 DEF Over
<1>4. ASSUME NEW e \in Engines, RegisterCallback(e) PROVE Over(c)'
  <2>1. compiled' = [compiled EXCEPT ![e].ids = @ + 1] /\ pc' = pc
    BY <1>4 DEF RegisterCallback
  <2>2. compiled'[c[1]].codes = compiled[c[1]].codes
    BY <1>1, <2>1, CountMoves
  <2> QED
    BY <2>1, <2>2 DEF Over
<1>5. ASSUME UNCHANGED <<compiled, pc>> PROVE Over(c)'
  BY <1>5 DEF Over
<1>6. ASSUME NEW e \in Engines, Publish(e) PROVE uses'[c] = uses[c]
  <2>1. c # Newest(e)
    BY <1>1, <1>6, NewestIsCode DEF Publish, Over, EInv
  <2> QED
    BY <1>1, <1>6, <2>1 DEF Publish, TypeOK
<1> QED
  BY <1>2, <1>3, <1>4, <1>5, <1>6, Movers DEF Compiles

(* The numbers handed out only grow. *)
LEMMA IdsGrow ==
  ASSUME EInv, Next, NEW e \in Engines
  PROVE  /\ compiled'[e].ids \in Nat /\ compiled[e].ids \in Nat
              /\ compiled'[e].ids >= compiled[e].ids
         /\ compiled'[e].ids # compiled[e].ids =>
              RegisterCallback(e) /\ compiled'[e].ids = compiled[e].ids + 1
         /\ compiled'[e].codes \in Nat /\ compiled[e].codes \in Nat
         /\ compiled'[e].codes >= compiled[e].codes
<1>1. TypeOK /\ compiled[e].ids \in Nat /\ compiled[e].codes \in Nat
  BY CountMoves DEF EInv
<1>2. ASSUME NEW b \in Engines, RegisterCallback(b)
      PROVE  /\ b = e => compiled'[e].ids = compiled[e].ids + 1
             /\ b # e => compiled'[e].ids = compiled[e].ids
             /\ compiled'[e].codes = compiled[e].codes
  BY <1>1, <1>2, CountMoves DEF RegisterCallback
<1>3. ASSUME NEW b \in Engines, CompileInit(b)
      PROVE  /\ compiled'[e].ids = compiled[e].ids /\ compiled'[e].codes \in Nat
             /\ compiled'[e].codes >= compiled[e].codes
  BY <1>1, <1>3, CountMoves DEF CompileInit
<1> QED
  BY <1>1, <1>2, <1>3, Movers

-----------------------------------------------------------------------------
(* What an engine names stays its own. *)
LEMMA OwnedStep ==
  ASSUME EInv, Next, NEW b \in Engines
  PROVE  Owned(b)'
<1>1. TypeOK /\ Owned(b) /\ compiled[b].codes \in Nat
  BY CountMoves DEF EInv
<1>2. code'[b] # None => code'[b][1] = b /\ module'[b].gen > 0
  <2>1. ASSUME NEW e \in Engines, Publish(e)
        PROVE  code'[b] # None => code'[b][1] = b /\ module'[b].gen > 0
    <3>1. CASE b = e
      <4>1. code'[b] = Newest(e) /\ module'[b] = NextModule(e)
        BY <1>1, <2>1, <3>1 DEF Publish, TypeOK
      <4>2. module[e] \in Modules /\ NextModule(e).gen > 0
        BY <1>1 DEF TypeOK, Modules, NextModule
      <4> QED
        BY <1>1, <2>1, <3>1, <4>1, <4>2, NewestIsCode DEF Publish
    <3>2. CASE b # e
      BY <1>1, <2>1, <3>2 DEF Publish, TypeOK, Owned
    <3> QED
      BY <3>1, <3>2
  <2>2. ASSUME NEW e \in Engines, Unload(e) \/ Ends(e)
        PROVE  code'[b] # None => code'[b] = code[b] /\ module'[b] = module[b]
    BY <1>1, <2>2 DEF Ends, Unload, ContextDestroy, DropEngine, Emptied, TypeOK
  <2> QED
    BY <1>1, <2>1, <2>2, Movers DEF Owned
<1>3. named'[b] # None => named'[b][1] = b /\ named'[b][2] <= compiled'[b].ids
  <2>1. ASSUME NEW e \in Engines, RegisterCallback(e)
        PROVE  named'[b] # None => named'[b][1] = b /\ named'[b][2] <= compiled'[b].ids
    <3>1. PICK i \in Ids : i[1] = e /\ i[2] = compiled[e].ids + 1
            /\ named' = [named EXCEPT ![e] = i]
      BY <1>1, <2>1, RegisterMoves
    <3>2. compiled'[e].ids = compiled[e].ids + 1 /\ compiled[e].ids \in Nat
      BY <1>1, <2>1, CountMoves DEF RegisterCallback
    <3>3. CASE b = e
      BY <1>1, <3>1, <3>2, <3>3 DEF TypeOK
    <3>4. CASE b # e
      BY <1>1, <2>1, <3>1, <3>4, CountMoves DEF TypeOK, Owned, RegisterCallback
    <3> QED
      BY <3>3, <3>4
  <2>2. ASSUME NEW e \in Engines, RemoveCallback(e) \/ Ends(e)
        PROVE  compiled' = compiled /\ (named'[b] # None => named'[b] = named[b])
    BY <1>1, <2>2 DEF Ends, RemoveCallback, ContextDestroy, DropEngine, Emptied, TypeOK, modules
  <2>3. CASE named' = named
    <3>1. named[b] # None => named[b][2] \in Nat
      BY <1>1, Pairs DEF TypeOK
    <3> QED
      BY <1>1, <2>3, <3>1, IdsGrow DEF Owned
  <2> QED
    BY <1>1, <2>1, <2>2, <2>3, Movers DEF Owned, Registers
<1>4. pc'[b] # "idle" => stack'[b] = <<>> /\ compiled'[b].codes > 0
  <2>1. ASSUME NEW e \in Engines, CompileInit(e)
        PROVE  pc'[b] # "idle" => stack'[b] = <<>> /\ compiled'[b].codes > 0
    <3>1. compiled'[e].codes = compiled[e].codes + 1 /\ compiled[e].codes \in Nat /\ stack' = stack
          /\ stack[e] = <<>>
      BY <1>1, <2>1, CountMoves DEF CompileInit, AtTop, calls
    <3>2. b # e => pc'[b] = pc[b] /\ compiled'[b] = compiled[b]
      BY <1>1, <2>1, CountMoves DEF CompileInit, TypeOK
    <3> QED
      BY <1>1, <3>1, <3>2 DEF Owned
  <2>2. ASSUME NEW e \in Engines, TakeLease(e) \/ Publish(e) \/ CompileFails(e)
        PROVE  stack' = stack /\ compiled' = compiled /\ (pc'[b] # "idle" => pc[b] # "idle")
    BY <1>1, <2>2 DEF TakeLease, Publish, CompileFails, TypeOK, calls
  <2>3. ASSUME NEW e \in Engines, CallSteps(e)
        PROVE  pc' = pc /\ compiled' = compiled /\ pc[e] = "idle" /\ (b # e => stack'[b] = stack[b])
    BY <1>1, <2>3 DEF CallSteps, Call, OriError, Invoke, CallbackReturns, Return, HostRuns,
       OriRuns,
       Free, TypeOK, modules
  <2>4. CASE UNCHANGED <<stack, pc>>
    BY <1>1, <2>4, IdsGrow DEF Owned
  <2> QED
    BY <1>1, <2>1, <2>2, <2>3, <2>4, Movers DEF Owned, Compiles
<1> QED
  BY <1>2, <1>3, <1>4 DEF Owned

(* A handle stays behind the module it was resolved in. *)
LEMMA ResolvedStep ==
  ASSUME EInv, Next, NEW b \in Engines
  PROVE  Resolved(b)'
<1>1. TypeOK /\ Owned(b) /\ Resolved(b) /\ module[b].id \in Nat /\ module[b].gen \in Nat
      /\ (handle[b] # None => handle[b].module.id \in Nat /\ handle[b].module.gen \in Nat)
  BY DEF EInv, TypeOK, Modules, Handles
<1>2. ASSUME NEW e \in Engines, Publish(e) PROVE Resolved(b)'
  <2>1. handle' = handle
    BY <1>2 DEF Publish
  <2>2. CASE b = e
    <3>1. module'[b] = NextModule(e)
      BY <1>1, <1>2, <2>2 DEF Publish, TypeOK
    <3>2. \/ module'[b].id = module[b].id + 1 /\ module[b].gen = 0
          \/ module'[b].id = module[b].id /\ module'[b].gen = module[b].gen + 1 /\ module[b].gen > 0
      BY <1>1, <2>2, <3>1 DEF NextModule, TypeOK, Modules
    <3>3. handle[b] # None => handle[b].module # module'[b]
      BY <1>1, <3>2 DEF Resolved
    <3> QED
      BY <1>1, <2>1, <3>2, <3>3 DEF Resolved
  <2>3. CASE b # e
    BY <1>1, <1>2, <2>1, <2>3 DEF Publish, TypeOK, Resolved
  <2> QED
    BY <2>2, <2>3
<1>3. ASSUME NEW e \in Engines, Unload(e) PROVE Resolved(b)'
  <2>1. handle' = handle
    BY <1>3 DEF Unload
  <2>2. CASE b = e
    BY <1>1, <1>3, <2>1, <2>2 DEF Unload, TypeOK, Modules, Resolved
  <2>3. CASE b # e
    BY <1>1, <1>3, <2>1, <2>3 DEF Unload, TypeOK, Resolved
  <2> QED
    BY <2>2, <2>3
<1>4. ASSUME NEW e \in Engines, Ends(e) PROVE Resolved(b)'
  <2>1. module' = module /\ (handle'[b] # None => handle'[b] = handle[b])
        /\ (code'[b] # None => code'[b] = code[b])
    BY <1>1, <1>4 DEF Ends, ContextDestroy, DropEngine, Emptied, TypeOK
  <2> QED
    BY <1>1, <2>1 DEF Resolved
<1>5. ASSUME NEW e \in Engines, Resolve(e) PROVE Resolved(b)'
  <2>1. module' = module /\ code' = code /\ code[e] # None
    BY <1>5 DEF Resolve, modules
  <2>2. CASE b = e
    <3>1. handle'[b] = [module |-> module[b], code |-> code[b]]
      BY <1>1, <1>5, <2>2 DEF Resolve, TypeOK
    <3>2. handle'[b].module = module[b] /\ handle'[b].code = code[b]
      BY <3>1
    <3> QED
      BY <1>1, <2>1, <2>2, <3>2 DEF Resolved, Owned
  <2>3. CASE b # e
    BY <1>1, <1>5, <2>1, <2>3 DEF Resolve, TypeOK, Resolved
  <2> QED
    BY <2>2, <2>3
<1>6. ASSUME NEW e \in Engines, ReleaseHandle(e) PROVE Resolved(b)'
  BY <1>1, <1>6 DEF ReleaseHandle, TypeOK, Resolved, modules
<1>7. CASE UNCHANGED <<module, code, handle>>
  BY <1>1, <1>7 DEF Resolved
<1> QED
  BY <1>2, <1>3, <1>4, <1>5, <1>6, <1>7, Movers

-----------------------------------------------------------------------------
(* A stack that is left alone keeps its shape. *)
LEMMA SameFrames ==
  ASSUME EInv, Next, NEW b \in Engines, stack'[b] = stack[b], Traps(b)' <=> Traps(b),
         b \in live' => b \in live /\ code'[b] = code[b]
  PROVE  Frames(b)'
<1>1. TypeOK /\ Frames(b)
  BY DEF EInv
<1>2. ASSUME NEW k \in DOMAIN stack[b] PROVE CallFrame(b, k)'
  <2>1. CallFrame(b, k)
    BY <1>1 DEF Frames
  <2>2. stack[b][k].k = "call" => stack[b][k].code \in Codes
    BY <1>1, StackOf DEF CallFrames
  <2>3. stack[b][k].k = "call" => Over(stack[b][k].code)'
    <3>1. SUFFICES ASSUME stack[b][k].k = "call" PROVE Over(stack[b][k].code)'
      OBVIOUS
    <3>2. PICK c \in Codes : c = stack[b][k].code /\ Over(c)
      BY <2>1, <2>2, <3>1 DEF CallFrame
    <3>3. Over(c)'
      BY <3>2, OverStep
    <3>4. c = stack'[b][k].code
      BY <3>2
    <3> QED
      BY <3>2, <3>3, <3>4 DEF Over
  <2> QED
    BY <2>1, <2>3 DEF CallFrame
<1> QED
  BY <1>1, <1>2 DEF Frames
(* A step of a call changes the top of the stack, and keeps the shape if   *)
(* what it pushes fits on what was there.                                  *)
LEMMA Reframe ==
  ASSUME EInv, Next, NEW b \in Engines, code' = code, live' = live,
         NEW s \in Seq(Frame), s = stack[b], NEW t \in Seq(Frame), t = stack'[b],
         NEW n \in Nat, n = Len(s), NEW l \in Nat, l = Len(t), NEW m \in Nat, m <= n,
         l = m \/ l = m + 1,
         \A k \in 1..m : Alike(s[k], t[k]),
         l = m + 1 => \/ t[l].k = "cb" /\ t[l].id[1] = b /\ m > 0 /\ s[m].k # "cb"
                      \/ /\ t[l].k = "call" /\ t[l].code = code[b] /\ t[l].resolved = code[b]
                         /\ code[b] \in Codes /\ (m > 0 => s[m].k # "call"),
         \A k \in 1..l : t[k].k = "call" /\ ~t[k].nested =>
           k >= l - 1 /\ (Traps(b)' <=> t[k].failed)
  PROVE  Frames(b)'
<1>1. TypeOK /\ Frames(b) /\ Owned(b) /\ Codings /\ None \notin Codes
  BY Pairs DEF EInv
<1>2. DOMAIN s = 1..n
  BY LenProperties
<1>3. DOMAIN t = 1..l
  BY LenProperties
<1>4. \A k \in 1..m : k \in 1..n
  BY <1>2
<1>5. \A k \in 1..l : k \in 1..m \/ (k = m + 1 /\ l = m + 1)
  BY <1>3
<1>6. \A k \in 1..l : t[k].k \in {"call", "cb"}
  BY <1>3, ElementOfSeq DEF Frame, CallFrames, CallbackFrames
<1>7. Alternate(t)
  <2>1. t # <<>> => t[1].k = "call"
    <3>1. SUFFICES ASSUME t # <<>> PROVE t[1].k = "call"
      OBVIOUS
    <3>2. l > 0 /\ 1 \in 1..l
      BY <1>3, <3>1, EmptySeq
    <3>3. CASE m = 0
      BY <1>3, <1>6, <3>2, <3>3
    <3>4. CASE m > 0
      <4>1. 1 \in 1..m /\ n > 0
        BY <1>2, <3>4
      <4>2. s # <<>>
        BY <1>2, <4>1, EmptySeq
      <4> QED
        BY <1>1, <4>1, <4>2 DEF Frames, Alternate, Alike
    <3> QED
      BY <3>3, <3>4
  <2>2. ASSUME NEW k \in 1..(l - 1) PROVE t[k].k # t[k + 1].k
    <3>1. k \in 1..m /\ (k + 1 \in 1..m \/ (k = m /\ l = m + 1))
      BY <1>3
    <3>2. CASE k + 1 \in 1..m
      <4>1. k \in 1..(n - 1)
        BY <1>2, <3>2
      <4>2. s[k].k # s[k + 1].k
        BY <1>1, <1>2, <4>1 DEF Frames, Alternate
      <4> QED
        BY <3>1, <3>2, <4>2 DEF Alike
    <3>3. CASE k = m /\ l = m + 1
      <4>1. t[m].k = s[m].k /\ m > 0 /\ m + 1 \in 1..l
        BY <3>1, <3>3 DEF Alike
      <4> QED
        BY <1>3, <1>6, <3>3, <4>1
    <3> QED
      BY <3>1, <3>2, <3>3
  <2> QED
    BY <1>3, <2>1, <2>2 DEF Alternate
<1>8. ASSUME NEW k \in 1..l, t[k].k = "call"
      PROVE  /\ t[k].code \in Codes /\ t[k].code = t[k].resolved /\ t[k].code[1] = b
             /\ Over(t[k].code) /\ (b \in live => t[k].code = code[b])
  <2>1. CASE k \in 1..m
    <3>1. k \in DOMAIN s /\ s[k].k = "call" /\ t[k].code = s[k].code
            /\ t[k].resolved = s[k].resolved
      BY <1>2, <1>4, <1>8, <2>1 DEF Alike
    <3>2. s[k] \in CallFrames /\ CallFrame(b, k)
      BY <1>1, <3>1, StackOf DEF Frames
    <3> QED
      BY <3>1, <3>2 DEF CallFrame, CallFrames
  <2>2. CASE k = m + 1 /\ l = m + 1
    <3>1. t[k].code = code[b] /\ t[k].resolved = code[b] /\ code[b] \in Codes
      BY <1>3, <1>8, <2>2
    <3> QED
      BY <1>1, <3>1 DEF Owned, Codings
  <2> QED
    BY <1>5, <2>1, <2>2
<1>9. ASSUME NEW k \in 1..l PROVE CallFrame(b, k)'
  <2>1. SUFFICES ASSUME t[k].k = "call"
                 PROVE  /\ t[k].code = t[k].resolved /\ t[k].code[1] = b /\ Over(t[k].code)'
                        /\ b \in live => t[k].code = code[b]
    BY <1>3 DEF CallFrame, Over
  <2>2. PICK c \in Codes : c = t[k].code /\ Over(c)
    BY <1>8, <2>1
  <2>3. Over(c)'
    BY <2>2, OverStep
  <2>4. c = stack'[b][k].code
    BY <2>2
  <2> QED
    BY <1>8, <2>1, <2>2, <2>3, <2>4 DEF Over
<1>10. ASSUME NEW k \in 1..l, t[k].k = "cb" PROVE t[k].id[1] = b
  <2>1. CASE k \in 1..m
    <3>1. k \in DOMAIN s /\ s[k].k = "cb" /\ t[k] = s[k]
      BY <1>2, <1>4, <1>10, <2>1 DEF Alike
    <3> QED
      BY <1>1, <3>1 DEF Frames
  <2>2. CASE k = m + 1 /\ l = m + 1
    BY <1>3, <1>10, <2>2
  <2> QED
    BY <1>5, <2>1, <2>2
<1> QED
  BY <1>3, <1>7, <1>9, <1>10 DEF Frames

(* The call under the top one, and under a callback, is not the top call:  *)
(* of the calls on a stack only the topmost can still be on its own.       *)
LEMMA Topmost ==
  ASSUME EInv, NEW b \in Engines, NEW s \in Seq(Frame), s = stack[b], NEW n \in Nat, n = Len(s),
         NEW k \in 1..n, s[k].k = "call", ~s[k].nested
  PROVE  /\ k >= n - 1 /\ (Traps(b) <=> s[k].failed)
         /\ s[n].k = "call" => k = n
<1>1. TypeOK /\ Frames(b) /\ DOMAIN s = 1..n
  BY LenProperties DEF EInv
<1>2. CallFrame(b, k)
  BY <1>1 DEF Frames
<1>3. k >= n - 1 /\ (Traps(b) <=> s[k].failed)
  BY <1>2 DEF CallFrame
<1>4. ASSUME s[n].k = "call", k = n - 1 PROVE FALSE
  <2>1. k \in 1..(n - 1) /\ k + 1 = n
    BY <1>4
  <2> QED
    BY <1>1, <1>4, <2>1 DEF Frames, Alternate
<1>5. k = n \/ k = n - 1
  BY <1>3
<1> QED
  BY <1>3, <1>4, <1>5

(* The call on top fails, and one of the error slots is filled. *)
LEMMA FailFrames ==
  ASSUME EInv, Next, NEW b \in Engines, OriRuns(b), stack' = [stack EXCEPT ![b] = Failing(@)],
         Traps(b)', code' = code, live' = live
  PROVE  Frames(b)'
<1>1. TypeOK /\ Frames(b)
  BY DEF EInv
<1>2. PICK s \in Seq(Frame) : s = stack[b]
  BY <1>1, StackOf
<1>3. PICK n \in Nat : n > 0 /\ n = Len(s) /\ s[n] \in CallFrames /\ Last(s) = s[n]
  BY <1>1, <1>2, TopCall
<1>4. PICK t \in Seq(Frame) :
        /\ t = stack'[b] /\ Len(t) = n /\ \A k \in 1..(n - 1) : t[k] = s[k]
        /\ \A k \in 1..n : Alike(s[k], t[k])
        /\ t[n] = [s[n] EXCEPT !.failed = TRUE]
  BY <1>1, <1>2, <1>3, FailMoves DEF OnlyStackOf
<1>5. t[n].failed /\ s[n].k = "call"
  BY <1>3, <1>4 DEF CallFrames
<1>6. ASSUME NEW k \in 1..n, t[k].k = "call", ~t[k].nested
      PROVE  k >= n - 1 /\ (Traps(b)' <=> t[k].failed)
  <2>1. CASE k \in 1..(n - 1)
    BY <1>2, <1>3, <1>4, <1>5, <1>6, <2>1, Topmost
  <2>2. CASE k = n
    BY <1>5, <2>2
  <2> QED
    BY <1>3, <2>1, <2>2
<1> QED
  BY <1>2, <1>3, <1>4, <1>6, Reframe

(* The steps of a call keep the shape of the stack. *)
LEMMA CallFramesStep ==
  ASSUME EInv, Next, NEW b \in Engines, CallSteps(b)
  PROVE  Frames(b)'
<1>1. TypeOK /\ Frames(b) /\ Resolved(b) /\ (\A c \in Codes : Baked(c)) /\ \A i \in Ids : Counted(i)
  BY DEF EInv, Callback
<1>2. PICK s \in Seq(Frame) : s = stack[b]
  BY <1>1, StackOf
<1>3. PICK n \in Nat : n = Len(s) /\ n = Len(stack[b]) /\ DOMAIN s = 1..n
  BY <1>2, LenProperties
<1>10. PICK l \in Nat : l = n + 1
  BY <1>3
<1>4. code' = code /\ live' = live
  BY DEF CallSteps, Call, OriError, Invoke, CallbackReturns, Return, modules
<1>5. ASSUME Call(b) PROVE Frames(b)'
  <2>1. PICK t \in Seq(Frame) :
          /\ t = stack'[b] /\ Len(t) = l /\ code[b] \in Codes
          /\ \A k \in 1..n : Alike(s[k], t[k]) /\ (t[k].k = "call" => t[k].nested)
          /\ t[l] = [k |-> "call", code |-> code[b], resolved |-> code[b],
                         failed |-> FALSE, nested |-> FALSE]
    BY <1>1, <1>2, <1>3, <1>10, <1>5, CallMoves DEF OnlyStackOf
  <2>2. n > 0 => s[n].k # "call"
    <3>1. HostRuns(b) /\ (n > 0 => s # <<>>)
      BY <1>2, <1>3, <1>5, EmptySeq DEF Call
    <3>2. n > 0 => s[n] \in CallbackFrames
      BY <1>1, <1>2, <1>3, <3>1, TopCallback
    <3> QED
      BY <3>2 DEF CallbackFrames
  <2>3. ~Traps(b)'
    BY <1>1, <1>5 DEF Call, Traps, Cleared, TypeOK
  <2>4. ASSUME NEW k \in 1..l, t[k].k = "call", ~t[k].nested
        PROVE  k >= l - 1 /\ (Traps(b)' <=> t[k].failed)
    <3>1. k = l
      BY <1>10, <2>1, <2>4
    <3> QED
      BY <1>10, <2>1, <2>3, <3>1
  <2>5. /\ t[l].k = "call" /\ t[l].code = code[b] /\ t[l].resolved = code[b]
        /\ code[b] \in Codes /\ (n > 0 => s[n].k # "call")
    BY <2>1, <2>2
  <2>6. \A k \in 1..n : Alike(s[k], t[k])
    BY <2>1
  <2>7. t = stack'[b] /\ l = Len(t) /\ n <= n
    BY <1>3, <2>1
  <2> QED
    BY <1>2, <1>3, <1>10, <1>4, <2>4, <2>5, <2>6, <2>7, Reframe
<1>6. ASSUME OriError(b) PROVE Frames(b)'
  <2>1. Traps(b)'
    BY <1>1, <1>6 DEF OriError, Traps, TypeOK
  <2> QED
    BY <1>4, <1>6, <2>1, FailFrames DEF OriError
<1>7. ASSUME Invoke(b) PROVE Frames(b)'
  <2>1. OriRuns(b) /\ hostErr' = hostErr
    BY <1>7 DEF Invoke
  <2>2. s[n] \in CallFrames /\ n > 0 /\ Baked(Last(stack[b]).code)
    BY <1>1, <1>2, <1>3, <2>1, TopCall DEF CallFrames
  <2>3. ASSUME cbErr' = [cbErr EXCEPT ![b] = TRUE], stack' = [stack EXCEPT ![b] = Failing(@)]
        PROVE  Frames(b)'
    <3>1. Traps(b)'
      BY <1>1, <2>3 DEF Traps, TypeOK
    <3> QED
      BY <1>4, <2>1, <2>3, <3>1, FailFrames
  <2>4. ASSUME NEW i \in Ids, i[1] = b, cbErr' = cbErr,
               stack' = [stack EXCEPT ![b] = Append(@, [k |-> "cb", id |-> i])]
        PROVE  Frames(b)'
    <3>1. PICK t \in Seq(Frame) :
            /\ t = stack'[b] /\ Len(t) = l /\ \A k \in 1..n : t[k] = s[k]
            /\ t[l] = [k |-> "cb", id |-> i]
      <4>1. OnlyStackOf(b) /\ Len(stack'[b]) = l
        BY <1>1, <1>2, <1>3, <1>10, <2>4, EnterMoves
      <4>2. \A k \in 1..n : stack'[b][k] = s[k]
        BY <1>1, <1>2, <1>3, <1>10, <2>4, EnterMoves
      <4>3. stack'[b][l] = [k |-> "cb", id |-> i]
        <5>1. stack'[b][Len(stack[b]) + 1] = [k |-> "cb", id |-> i]
          BY <1>1, <2>4, EnterMoves, Zenon
        <5> QED
          BY <1>3, <1>10, <5>1
      <4> QED
        BY <4>1, <4>2, <4>3 DEF OnlyStackOf
    <3>2. \A k \in 1..n : Alike(s[k], t[k])
      BY <3>1 DEF Alike
    <3>3. Traps(b)' <=> Traps(b)
      BY <2>1, <2>4 DEF Traps
    <3>6. s[n].k = "call" /\ t[l].k = "cb" /\ t[l].id = i
      BY <2>2, <3>1 DEF CallFrames
    <3>4. ASSUME NEW k \in 1..l, t[k].k = "call", ~t[k].nested
          PROVE  k >= l - 1 /\ (Traps(b)' <=> t[k].failed)
      <4>1. k \in 1..n /\ t[k] = s[k]
        BY <1>10, <3>1, <3>4, <3>6
      <4>2. k = n /\ (Traps(b) <=> s[k].failed)
        BY <1>2, <1>3, <3>4, <3>6, <4>1, Topmost
      <4> QED
        BY <1>10, <3>3, <4>1, <4>2
    <3>7. t[l].k = "cb" /\ t[l].id[1] = b /\ n > 0 /\ s[n].k # "cb"
      BY <2>2, <2>4, <3>6
    <3>8. t = stack'[b] /\ l = Len(t) /\ n <= n
      BY <1>3, <3>1
    <3> QED
      BY <1>2, <1>3, <1>10, <1>4, <3>2, <3>4, <3>7, <3>8, Reframe
  <2> QED
    BY <1>1, <1>7, <2>2, <2>3, <2>4, InvokeMoves
<1>8. ASSUME CallbackReturns(b) PROVE Frames(b)'
  <2>1. HostRuns(b) /\ s # <<>> /\ hostErr' = hostErr
    BY <1>2, <1>8 DEF CallbackReturns
  <2>2. n > 1 /\ s[n - 1] \in CallFrames
    BY <1>1, <1>2, <1>3, <2>1, TopCallback
  <2>3. PICK m \in Nat : m = n - 1
    BY <1>3, <2>2
  <2>4. ASSUME cbErr' = cbErr, stack' = [stack EXCEPT ![b] = Front(@)] PROVE Frames(b)'
    <3>1. PICK t \in Seq(Frame) : t = stack'[b] /\ Len(t) = m /\ \A k \in 1..m : t[k] = s[k]
      <4>1. /\ stack'[b] \in Seq(Frame) /\ Len(stack'[b]) = n - 1
            /\ \A k \in 1..(n - 1) : stack'[b][k] = s[k]
        BY <1>1, <1>2, <1>3, <2>1, <2>4, LeaveMoves DEF OnlyStackOf
      <4> QED
        BY <2>3, <4>1
    <3>2. \A k \in 1..m : Alike(s[k], t[k])
      BY <3>1 DEF Alike
    <3>3. Traps(b)' <=> Traps(b)
      BY <2>1, <2>4 DEF Traps
    <3>4. ASSUME NEW k \in 1..m, t[k].k = "call", ~t[k].nested
          PROVE  k >= m - 1 /\ (Traps(b)' <=> t[k].failed)
      <4>1. k \in 1..n /\ t[k] = s[k]
        BY <2>3, <3>1
      <4>2. k >= n - 1 /\ (Traps(b) <=> s[k].failed)
        BY <1>2, <1>3, <3>4, <4>1, Topmost
      <4> QED
        BY <1>3, <2>3, <3>3, <4>1, <4>2
    <3>5. m <= n
      BY <1>3, <2>3
    <3> QED
      BY <1>2, <1>3, <1>4, <3>1, <3>2, <3>4, <3>5, Reframe
  <2>5. ASSUME cbErr' = [cbErr EXCEPT ![b] = TRUE], stack' = [stack EXCEPT ![b] = Failing(Front(@))]
        PROVE  Frames(b)'
    <3>1. PICK t \in Seq(Frame) :
            /\ t = stack'[b] /\ Len(t) = m /\ (\A k \in 1..(n - 2) : t[k] = s[k])
            /\ \A k \in 1..m : Alike(s[k], t[k])
            /\ t[m] = [s[m] EXCEPT !.failed = TRUE]
      <4>1. /\ stack'[b] \in Seq(Frame) /\ Len(stack'[b]) = n - 1
            /\ \A k \in 1..(n - 2) : stack'[b][k] = s[k]
            /\ \A k \in 1..(n - 1) : Alike(s[k], stack'[b][k])
            /\ stack'[b][n - 1] = [s[n - 1] EXCEPT !.failed = TRUE]
        BY <1>1, <1>2, <1>3, <2>1, <2>5, LeaveFails DEF OnlyStackOf
      <4> QED
        BY <2>3, <4>1
    <3>2. t[m].failed
      BY <2>2, <2>3, <3>1 DEF CallFrames
    <3>3. Traps(b)'
      BY <1>1, <2>5 DEF Traps, TypeOK
    <3>4. ASSUME NEW k \in 1..m, t[k].k = "call", ~t[k].nested
          PROVE  k >= m - 1 /\ (Traps(b)' <=> t[k].failed)
      <4>1. CASE k = m
        BY <3>2, <3>3, <4>1
      <4>2. CASE k # m
        <5>1. k \in 1..n /\ k \in 1..(n - 2) /\ t[k] = s[k]
          BY <1>3, <2>3, <3>1, <4>2
        <5>2. k >= n - 1
          BY <1>2, <1>3, <3>4, <5>1, Topmost
        <5> QED
          BY <1>3, <5>1, <5>2
      <4> QED
        BY <4>1, <4>2
    <3>5. m <= n /\ m # m + 1
      BY <1>3, <2>3
    <3>6. t = stack'[b] /\ m = Len(t) /\ \A k \in 1..m : Alike(s[k], t[k])
      BY <3>1
    <3> QED
      BY <1>2, <1>3, <1>4, <3>4, <3>5, <3>6, Reframe
  <2> QED
    BY <1>8, <2>4, <2>5 DEF CallbackReturns
<1>9. ASSUME Return(b) PROVE Frames(b)'
  <2>1. OriRuns(b) /\ stack' = [stack EXCEPT ![b] = Front(@)]
    BY <1>9 DEF Return
  <2>2. s[n] \in CallFrames /\ n > 0 /\ s # <<>>
    BY <1>1, <1>2, <1>3, <2>1, TopCall
  <2>3. PICK m \in Nat : m = n - 1
    BY <1>3, <2>2
  <2>4. PICK t \in Seq(Frame) : t = stack'[b] /\ Len(t) = m /\ \A k \in 1..m : t[k] = s[k]
    <3>1. /\ stack'[b] \in Seq(Frame) /\ Len(stack'[b]) = n - 1
          /\ \A k \in 1..(n - 1) : stack'[b][k] = s[k]
      BY <1>1, <1>2, <1>3, <2>1, <2>2, LeaveMoves DEF OnlyStackOf
    <3> QED
      BY <2>3, <3>1
  <2>5. \A k \in 1..m : Alike(s[k], t[k])
    BY <2>4 DEF Alike
  <2>6. ASSUME NEW k \in 1..m, t[k].k = "call", ~t[k].nested PROVE FALSE
    <3>1. k \in 1..n /\ k # n /\ t[k] = s[k]
      BY <1>3, <2>3, <2>4
    <3> QED
      BY <1>2, <1>3, <2>2, <2>6, <3>1, Topmost DEF CallFrames
  <2>7. m <= n
    BY <1>3, <2>3
  <2> QED
    BY <1>2, <1>3, <1>4, <2>4, <2>5, <2>6, <2>7, Reframe
<1> QED
  BY <1>5, <1>6, <1>7, <1>8, <1>9 DEF CallSteps

(* Every stack keeps its shape. *)
LEMMA FramesStep ==
  ASSUME EInv, Next, NEW b \in Engines
  PROVE  Frames(b)'
<1>1. TypeOK /\ Frames(b) /\ Owned(b)
  BY DEF EInv
<1>2. CASE CallSteps(b)
  BY <1>2, CallFramesStep
<1>3. ASSUME NEW e \in Engines, e # b, CallSteps(e) PROVE Frames(b)'
  <2>1. /\ stack'[b] = stack[b] /\ cbErr'[b] = cbErr[b] /\ hostErr'[b] = hostErr[b]
        /\ code' = code /\ live' = live
    BY <1>1, <1>3 DEF CallSteps, Call, OriError, Invoke, CallbackReturns, Return, TypeOK, modules
  <2> QED
    BY <2>1, SameFrames DEF Traps
<1>4. ASSUME stack'[b] = <<>> PROVE Frames(b)'
  BY <1>4, EmptySeq, LenProperties DEF Frames, Alternate
<1>5. ASSUME NEW e \in Engines, Publish(e) \/ Unload(e) PROVE Frames(b)'
  <2>1. CASE e = b
    <3>1. stack' = stack /\ stack[b] = <<>>
      BY <1>1, <1>5, <2>1 DEF Publish, Unload, AtTop, Owned, calls
    <3> QED
      BY <1>4, <3>1
  <2>2. CASE e # b
    <3>1. /\ stack' = stack /\ cbErr'[b] = cbErr[b] /\ hostErr' = hostErr
          /\ code'[b] = code[b] /\ live' = live
      BY <1>1, <1>5, <2>2 DEF Publish, Unload, TypeOK, calls
    <3> QED
      BY <3>1, SameFrames DEF Traps
  <2> QED
    BY <2>1, <2>2
<1>6. ASSUME NEW e \in Engines, Ends(e) PROVE Frames(b)'
  <2>1. /\ stack' = stack /\ cbErr' = cbErr /\ hostErr' = hostErr
        /\ b \in live' => b \in live /\ code'[b] = code[b]
    BY <1>1, <1>6 DEF Ends, ContextDestroy, DropEngine, Emptied, TypeOK, calls
  <2> QED
    BY <2>1, SameFrames DEF Traps
<1>7. CASE UNCHANGED <<stack, hostErr, cbErr, code, live>>
  BY <1>7, SameFrames DEF Traps
<1> QED
  BY <1>2, <1>3, <1>5, <1>6, <1>7, Movers

-----------------------------------------------------------------------------
(* The steps of a task, with where they take it. *)
LEMMA TaskSteps ==
  ASSUME EInv, NEW w \in Workers, Task(w)
  PROVE  \/ \E e \in Engines : /\ Spawn(w, e) /\ work[w].pc = "idle" /\ OriRuns(e)
                               /\ TaskIs(w, "ori", Last(stack[e]).code)
         \/ TaskAcquires(w) /\ work[w].pc = "ori" /\ TaskIs(w, "check", work[w].code)
         \/ /\ TaskChecks(w) \/ TaskReturns(w)
            /\ work[w].pc \in {"check", "cb"}
            /\ TaskIs(w, "cb", work[w].code) \/ TaskIs(w, "rel", work[w].code)
         \/ /\ TaskReleases(w) /\ work[w].pc = "rel"
            /\ TaskIs(w, IF cb[IdOf(w)].active = 1 THEN "orphan" ELSE "ori", work[w].code)
         \/ /\ TaskReadsOrphan(w) /\ work[w].pc = "orphan"
            /\ TaskIs(w, IF cb[IdOf(w)].orphaned THEN "remove" ELSE "ori", work[w].code)
         \/ TaskRemoves(w) /\ work[w].pc = "remove" /\ TaskIs(w, "ori", work[w].code)
         \/ TaskEnds(w) /\ work[w].pc = "ori" /\ TaskIs(w, "idle", None)
<1>1. TypeOK
  BY DEF EInv
<1>2. ASSUME NEW e \in Engines, Spawn(w, e)
      PROVE  work[w].pc = "idle" /\ OriRuns(e) /\ TaskIs(w, "ori", Last(stack[e]).code)
  <2>1. OriRuns(e) /\ work[w].pc = "idle"
    BY <1>2 DEF Spawn
  <2>2. PICK c \in Codes : c = Last(stack[e]).code
    BY <1>1, <2>1, TopCall DEF CallFrames
  <2>3. work' = [work EXCEPT ![w] = [pc |-> "ori", code |-> c]]
    BY <1>2, <2>2 DEF Spawn
  <2> QED
    BY <1>1, <2>1, <2>2, <2>3, TaskMoves
<1>3. ASSUME TaskAcquires(w) PROVE work[w].pc = "ori" /\ TaskIs(w, "check", work[w].code)
  BY <1>1, <1>3, TaskMoves DEF TaskAcquires
<1>4. ASSUME TaskChecks(w) \/ TaskReturns(w)
      PROVE  /\ work[w].pc \in {"check", "cb"}
             /\ TaskIs(w, "cb", work[w].code) \/ TaskIs(w, "rel", work[w].code)
  BY <1>1, <1>4, TaskMoves DEF TaskChecks, TaskReturns
<1>5. ASSUME TaskReleases(w)
      PROVE  /\ work[w].pc = "rel"
             /\ TaskIs(w, IF cb[IdOf(w)].active = 1 THEN "orphan" ELSE "ori", work[w].code)
  BY <1>1, <1>5, TaskMoves DEF TaskReleases
<1>6. ASSUME TaskReadsOrphan(w)
      PROVE  /\ work[w].pc = "orphan"
             /\ TaskIs(w, IF cb[IdOf(w)].orphaned THEN "remove" ELSE "ori", work[w].code)
  BY <1>1, <1>6, TaskMoves DEF TaskReadsOrphan
<1>7. ASSUME TaskRemoves(w) PROVE work[w].pc = "remove" /\ TaskIs(w, "ori", work[w].code)
  BY <1>1, <1>7, TaskMoves DEF TaskRemoves
<1>8. ASSUME TaskEnds(w) PROVE work[w].pc = "ori" /\ TaskIs(w, "idle", None)
  BY <1>1, <1>8, TaskMoves DEF TaskEnds
<1> QED
  BY <1>2, <1>3, <1>4, <1>5, <1>6, <1>7, <1>8 DEF Task

(* A task goes on with its code, or is new and runs that of a call. *)
LEMMA WorkStep ==
  ASSUME EInv, Next, NEW v \in Workers
  PROVE  \/ work'[v] = work[v]
         \/ Task(v) /\ work'[v].pc = "idle"
         \/ Task(v) /\ work'[v].code = work[v].code /\ work[v].pc # "idle"
         \/ \E e \in Engines : Task(v) /\ OriRuns(e) /\ work'[v].pc = "ori"
              /\ work'[v].code = Last(stack[e]).code
<1>1. CASE work' = work
  BY <1>1
<1>2. ASSUME NEW w \in Workers, w # v, Task(w) PROVE work'[v] = work[v]
  <2>1. \E p, c : TaskIs(w, p, c)
    BY <1>2, TaskSteps, Zenon
  <2> QED
    BY <1>2, <2>1 DEF TaskIs
<1>3. CASE Task(v)
  BY <1>3, TaskSteps DEF TaskIs
<1> QED
  BY <1>1, <1>2, <1>3, Movers

(* A callback is bound by the publication of a module that names it. *)
LEMMA BoundStep ==
  ASSUME EInv, Next, NEW i \in Ids
  PROVE  \/ cb'[i].bound = cb[i].bound
         \/ \E e \in Engines : Publish(e) /\ i = named[e] /\ cb'[i].bound = Newest(e)
<1>1. TypeOK /\ Codings /\ \A e \in Engines : Owned(e) /\ Resolved(e) /\ Frames(e)
  BY DEF EInv
<1>2. (\A j \in Ids : Counted(j)) /\ \A c \in Codes : Baked(c)
  BY DEF EInv, Callback
<1>3. ASSUME NEW j \in Ids, NEW m, NEW o, NEW a, Entry(j, m, o, a, cb[j].bound)
      PROVE  cb'[i].bound = cb[i].bound
  BY <1>3 DEF Entry
<1>4. ASSUME NEW e \in Engines, RegisterCallback(e) PROVE cb'[i].bound = cb[i].bound
  <2>1. PICK j \in Ids : Entry(j, TRUE, cb[j].orphaned, cb[j].active, cb[j].bound)
    BY <1>1, <1>4, RegisterMoves
  <2> QED
    BY <1>3, <2>1
<1>5. ASSUME NEW j \in Ids, Unregister(j) PROVE cb'[i].bound = cb[i].bound
  BY <1>1, <1>3, <1>5, UnregisterMoves
<1>6. ASSUME NEW j \in Ids, cb' = Orphan(j) PROVE cb'[i].bound = cb[i].bound
  BY <1>1, <1>3, <1>6, OrphanMoves
<1>7. ASSUME NEW e \in Engines, RemoveCallback(e) \/ Ends(e) PROVE cb'[i].bound = cb[i].bound
  <2>1. named[e] # None => named[e] \in Ids
    BY <1>1 DEF TypeOK
  <2>2. ASSUME DropEngine(e) PROVE cb'[i].bound = cb[i].bound
    BY <1>1, <1>6, <2>2, DropMoves DEF Stored
  <2> QED
    BY <1>5, <1>7, <2>1, <2>2 DEF Ends, RemoveCallback, ContextDestroy
<1>8. ASSUME NEW e \in Engines, Publish(e)
      PROVE  cb'[i].bound = cb[i].bound \/ (i = named[e] /\ cb'[i].bound = Newest(e))
  BY <1>1, <1>8, BindMoves DEF Entry
<1>9. ASSUME NEW e \in Engines, Invoke(e) PROVE cb'[i].bound = cb[i].bound
  <2>1. Baked(Last(stack[e]).code)
    BY <1>1, <1>2, <1>9, TopCall DEF Invoke, CallFrames
  <2> QED
    BY <1>1, <1>3, <1>9, <2>1, InvokeMoves
<1>10. ASSUME NEW e \in Engines, CallbackReturns(e) PROVE cb'[i].bound = cb[i].bound
  BY <1>1, <1>2, <1>3, <1>10, BackMoves
<1>11. ASSUME NEW w \in Workers, Task(w) PROVE cb'[i].bound = cb[i].bound
  <2>1. ASSUME TaskAcquires(w) PROVE cb'[i].bound = cb[i].bound
    BY <1>1, <1>3, <2>1, AcquireMoves
  <2>2. ASSUME TaskReleases(w) PROVE cb'[i].bound = cb[i].bound
    BY <1>1, <1>2, <1>3, <2>2, ReleaseMoves
  <2>3. ASSUME TaskRemoves(w) PROVE cb'[i].bound = cb[i].bound
    BY <1>1, <1>3, <2>3, RemoveMoves
  <2>4. ASSUME TaskReadsOrphan(w) PROVE cb'[i].bound = cb[i].bound
    BY <1>1, <2>4, ReadMoves DEF Stored
  <2>5. \/ cb' = cb \/ TaskAcquires(w) \/ TaskReleases(w) \/ TaskRemoves(w)
        \/ TaskReadsOrphan(w)
    BY <1>11 DEF Task, Spawn, TaskChecks, TaskReturns, TaskEnds, registry
  <2> QED
    BY <2>1, <2>2, <2>3, <2>4, <2>5
<1>12. CASE cb' = cb
  BY <1>12
<1>13. ASSUME NEW j \in Ids, StoreArrives(j) PROVE cb'[i].bound = cb[i].bound
  BY <1>1, <1>13, StoreMoves DEF Stored
<1> QED
  BY <1>4, <1>7, <1>8, <1>9, <1>10, <1>11, <1>12, <1>13, Movers DEF Registers

(* Published code stays published. *)
LEMMA CodingsStep ==
  ASSUME EInv, Next
  PROVE  Codings'
<1>1. TypeOK /\ Codings /\ TypeOK' /\ \A e \in Engines : Owned(e) /\ Frames(e)
  BY TypeStep DEF EInv
<1>2. ASSUME NEW e \in Engines, Publish(e)
      PROVE  Newest(e) \in Codes /\ Over(Newest(e))'
  <2>1. PICK c \in Codes : c = Newest(e) /\ c[1] = e /\ c[2] = compiled[e].codes
    BY <1>1, <1>2, NewestIsCode DEF Publish
  <2>2. compiled' = compiled /\ pc'[e] = "idle" /\ compiled[e].codes \in Nat
    BY <1>1, <1>2, CountMoves DEF Publish, TypeOK
  <2>3. Over(c)'
    BY <2>1, <2>2 DEF Over
  <2>4. c = Newest(e)'
    BY <2>1, <2>2 DEF Newest
  <2> QED
    BY <2>1, <2>3, <2>4
<1>3. ASSUME NEW e \in Engines, OriRuns(e)
      PROVE  Last(stack[e]).code \in Codes /\ Over(Last(stack[e]).code)
  <2>1. PICK n \in DOMAIN stack[e] : Last(stack[e]) = stack[e][n] /\ stack[e][n] \in CallFrames
    BY <1>1, <1>3, TopCall, StackOf
  <2>2. CallFrame(e, n)
    BY <1>1 DEF Frames
  <2> QED
    BY <2>1, <2>2 DEF CallFrame, CallFrames
<1>4. ASSUME NEW e \in Engines, code'[e] # None PROVE Over(code[e])'
  <2>1. CASE code'[e] = code[e]
    <3>1. PICK c \in Codes : c = code[e] /\ Over(c)
      BY <1>1, <1>4, <2>1 DEF TypeOK, Codings
    <3>2. Over(c)' /\ c = code'[e]
      BY <2>1, <3>1, OverStep
    <3> QED
      BY <3>2 DEF Over
  <2>2. CASE Publish(e)
    <3>1. code'[e] = Newest(e) /\ Newest(e)' = Newest(e)
      BY <1>1, <2>2 DEF Publish, TypeOK, Newest
    <3> QED
      BY <1>2, <2>2, <3>1 DEF Over
  <2>3. code'[e] = code[e] \/ Publish(e)
    <3>1. ASSUME NEW b \in Engines, Publish(b) \/ Unload(b) \/ Ends(b), ~Publish(e)
          PROVE  code'[e] = code[e]
      BY <1>1, <1>4, <3>1 DEF Publish, Unload, Ends, ContextDestroy, DropEngine, Emptied, TypeOK
    <3> QED
      BY <3>1, Movers
  <2> QED
    BY <2>1, <2>2, <2>3
<1>5. ASSUME NEW c \in old' \cup slices' PROVE Over(c)'
  <2>1. old' \cup slices' \subseteq old \cup slices \cup {code[e] : e \in {b \in Engines : code[b] # None}}
             \cup {Last(stack[e]).code : e \in {b \in Engines : OriRuns(b)}}
    <3>1. ASSUME NEW e \in Engines, Publish(e) \/ Unload(e) \/ Ends(e)
          PROVE  old' \subseteq old \cup {code[b] : b \in {a \in Engines : code[a] # None}}
      BY <3>1 DEF Publish, Unload, Ends, ContextDestroy, DropEngine, Emptied
    <3>2. ASSUME NEW e \in Engines, DropSlice(e) \/ Return(e)
          PROVE  slices' \subseteq slices \cup {Last(stack[b]).code : b \in {a \in Engines : OriRuns(a)}}
      BY <3>2 DEF DropSlice, Return
    <3> QED
      BY <3>1, <3>2, Movers
  <2>2. c \in Codes /\ Over(c)
    <3>1. \A b \in Engines : code[b] # None => code[b] \in Codes /\ Over(code[b])
      BY <1>1 DEF TypeOK, Codings
    <3>2. \A d \in old \cup slices : d \in Codes /\ Over(d)
      BY <1>1 DEF TypeOK, Codings
    <3>3. \/ c \in old \cup slices
          \/ \E b \in Engines : c = code[b] /\ code[b] # None
          \/ \E b \in Engines : c = Last(stack[b]).code /\ OriRuns(b)
      BY <2>1
    <3> QED
      BY <1>3, <3>1, <3>2, <3>3
  <2> QED
    BY <2>2, OverStep
<1>6. ASSUME NEW i \in Ids, cb'[i].bound # None PROVE Over(cb[i].bound)'
  <2>1. CASE cb'[i].bound = cb[i].bound
    <3>1. PICK c \in Codes : c = cb[i].bound /\ Over(c)
      BY <1>1, <1>6, <2>1, EntryOf DEF Codings
    <3>2. Over(c)' /\ c = cb'[i].bound
      BY <2>1, <3>1, OverStep
    <3> QED
      BY <3>2 DEF Over
  <2>2. ASSUME NEW e \in Engines, Publish(e), cb'[i].bound = Newest(e) PROVE Over(cb[i].bound)'
    <3>1. Newest(e)' = Newest(e)
      BY <2>2 DEF Publish, Newest
    <3> QED
      BY <1>2, <2>2, <3>1 DEF Over
  <2> QED
    BY <2>1, <2>2, BoundStep
<1>7. ASSUME NEW w \in Workers, work'[w].pc # "idle"
      PROVE  work'[w].code \in Codes /\ Over(work'[w].code)
  BY <1>1, <1>3, <1>7, WorkStep DEF Codings
<1>8. ASSUME NEW w \in Workers, work'[w].pc # "idle"
      PROVE  /\ work'[w].code \in Codes /\ Over(work[w].code)'
             /\ uses'[work'[w].code] = uses[work'[w].code]
  <2>1. PICK c \in Codes : c = work'[w].code /\ Over(c)
    BY <1>7, <1>8
  <2>2. Over(c)' /\ uses'[c] = uses[c]
    BY <2>1, OverStep
  <2> QED
    BY <2>1, <2>2 DEF Over
<1>9. ASSUME NEW w \in Workers, work'[w].pc \in InCallback PROVE IdOf(w)' \in Ids
  <2>1. work'[w].pc # "idle" /\ work'[w].pc # "ori"
    BY <1>9 DEF InCallback
  <2>2. IdOf(w)' = uses[work'[w].code]
    BY <1>8, <2>1 DEF IdOf
  <2>3. work'[w] = work[w] \/ (Task(w) /\ work'[w].code = work[w].code)
    BY <2>1, WorkStep
  <2>4. work[w].pc \in InCallback => IdOf(w) \in Ids
    BY <1>1 DEF Codings
  <2>5. CASE work'[w] = work[w]
    BY <1>9, <2>2, <2>4, <2>5 DEF IdOf
  <2>6. CASE Task(w) /\ work'[w].code = work[w].code
    <3>1. CASE TaskAcquires(w)
      BY <1>1, <2>2, <2>6, <3>1, AcquireMoves DEF IdOf
    <3>2. CASE work[w].pc \in InCallback
      BY <2>2, <2>4, <2>6, <3>2 DEF IdOf
    <3>3. TaskAcquires(w) \/ work[w].pc \in InCallback
      BY <2>1, <2>6, TaskSteps DEF TaskIs, InCallback
    <3> QED
      BY <3>1, <3>2, <3>3
  <2> QED
    BY <2>3, <2>5, <2>6
<1>10. (\A e \in Engines : code[e] # None => Over(code[e]))'
  BY <1>4
<1>11. (\A c \in old \cup slices : Over(c))'
  BY <1>5
<1>12. (\A i \in Ids : cb[i].bound # None => Over(cb[i].bound))'
  BY <1>6
<1>13. (\A w \in Workers : work[w].pc # "idle" => work[w].code \in Codes /\ Over(work[w].code))'
  BY <1>8
<1>14. (\A w \in Workers : work[w].pc \in InCallback => IdOf(w) \in Ids)'
  BY <1>9 DEF InCallback
<1> QED
  BY <1>10, <1>11, <1>12, <1>13, <1>14 DEF Codings

(* A code names a callback of its engine, and one that exists. *)
LEMMA BakedStep ==
  ASSUME EInv, Next, NEW c \in Codes
  PROVE  Baked(c)'
<1>1. TypeOK /\ Baked(c) /\ c[1] \in Engines
  BY Pairs DEF EInv
<1>2. ASSUME NEW e \in Engines, Publish(e), c = Newest(e) PROVE Baked(c)'
  <2>1. c[1] = e /\ uses'[c] = named[e] /\ compiled' = compiled
    BY <1>1, <1>2, NewestIsCode DEF Publish, TypeOK, EInv
  <2> QED
    BY <1>2, <2>1 DEF Baked, Owned, EInv
<1>3. ASSUME uses'[c] = uses[c] PROVE Baked(c)'
  <2>1. uses[c] # None => uses[c][2] \in Nat
    BY <1>1, Pairs DEF TypeOK
  <2>2. compiled[c[1]].ids \in Nat /\ compiled'[c[1]].ids \in Nat
          /\ compiled'[c[1]].ids >= compiled[c[1]].ids
    BY <1>1, IdsGrow
  <2> QED
    BY <1>1, <1>3, <2>1, <2>2 DEF Baked
<1>4. uses'[c] = uses[c] \/ \E e \in Engines : Publish(e) /\ c = Newest(e)
  <2>1. ASSUME NEW e \in Engines, Publish(e), c # Newest(e) PROVE uses'[c] = uses[c]
    BY <1>1, <2>1 DEF Publish, TypeOK
  <2> QED
    BY <2>1, Movers
<1> QED
  BY <1>2, <1>3, <1>4

-----------------------------------------------------------------------------
(* The callbacks on the owner's stack: one more when one is entered, ... *)
LEMMA StackEnters ==
  ASSUME EInv, NEW e \in Engines, NEW j \in Ids, j[1] = e, NEW i \in Ids,
         stack' = [stack EXCEPT ![e] = Append(@, [k |-> "cb", id |-> j])]
  PROVE  Cardinality(OnStack(i)') = Cardinality(OnStack(i)) + IF i = j THEN 1 ELSE 0
<1>1. TypeOK /\ i[1] \in Engines /\ Cardinality(OnStack(i)) \in Nat
  BY Pairs, Inside DEF EInv
<1>2. PICK s \in Seq(Frame) : s = stack[e]
  BY <1>1, StackOf
<1>3. PICK n \in Nat : n = Len(s)
  BY LenProperties
<1>4. OnlyStackOf(e) /\ Len(stack'[e]) = Len(stack[e]) + 1
  BY <1>1, EnterMoves
<1>5. \A k \in 1..Len(stack[e]) : stack'[e][k] = stack[e][k]
  BY <1>1, EnterMoves
<1>6. stack'[e][Len(stack[e]) + 1] = [k |-> "cb", id |-> j]
  BY <1>1, EnterMoves, Zenon
<1>7. PICK t \in Seq(Frame) : t = stack'[e] /\ Len(t) = Len(s) + 1
        /\ \A k \in 1..Len(s) : t[k] = s[k]
  <2>1. stack'[e] \in Seq(Frame)
    BY <1>4 DEF OnlyStackOf
  <2> QED
    BY <1>2, <1>4, <1>5, <2>1
<1>8. t[Len(t)].k = "cb" /\ t[Len(t)].id = j
  BY <1>2, <1>6, <1>7
<1>9. CASE i[1] = e
  <2>1. \A k \in 1..Len(s) : Alike(s[k], t[k])
    BY <1>7 DEF Alike
  <2>2. Cardinality(CallbacksIn(t, i)) = Cardinality(CallbacksIn(s, i)) + IF j = i THEN 1 ELSE 0
    <3>1. Cardinality(CallbacksIn(t, i)) = Cardinality(CallbacksIn(s, i))
            + IF t[Len(t)].k = "cb" /\ t[Len(t)].id = i THEN 1 ELSE 0
      BY <1>7, <2>1, PushCounts
    <3> QED
      BY <1>8, <3>1
  <2> QED
    BY <1>2, <1>7, <1>9, <2>2 DEF OnStack
<1>10. CASE i[1] # e
  <2>1. OnStack(i)' = OnStack(i) /\ i # j
    BY <1>1, <1>4, <1>10 DEF OnlyStackOf, OnStack
  <2> QED
    BY <1>1, <2>1
<1> QED
  BY <1>9, <1>10

(* ... one less when one returns, ... *)
LEMMA StackLeaves ==
  ASSUME EInv, NEW e \in Engines, NEW i \in Ids, CallbackReturns(e)
  PROVE  /\ Cardinality(OnStack(i)') \in Nat
         /\ Cardinality(OnStack(i)) = Cardinality(OnStack(i)') + IF i = Last(stack[e]).id THEN 1 ELSE 0
<1>1. TypeOK /\ Frames(e) /\ i[1] \in Engines /\ Cardinality(OnStack(i)) \in Nat
  BY Pairs, Inside DEF EInv
<1>2. PICK s \in Seq(Frame) : s = stack[e]
  BY <1>1, StackOf
<1>3. HostRuns(e) /\ stack[e] # <<>>
  BY DEF CallbackReturns
<1>4. /\ Last(stack[e]) = s[Len(s)] /\ s[Len(s)] \in CallbackFrames /\ Last(stack[e]).id[1] = e
      /\ Len(s) \in Nat
  BY <1>1, <1>2, <1>3, TopCallback
<1>5. /\ OnlyStackOf(e) /\ Len(stack'[e]) = Len(s) - 1
      /\ \A k \in 1..(Len(s) - 1) : Alike(s[k], stack'[e][k])
  <2>1. ASSUME stack' = [stack EXCEPT ![e] = Front(@)]
        PROVE  /\ OnlyStackOf(e) /\ Len(stack'[e]) = Len(s) - 1
               /\ \A k \in 1..(Len(s) - 1) : Alike(s[k], stack'[e][k])
    BY <1>1, <1>2, <1>3, <2>1, LeaveMoves DEF Alike
  <2>2. ASSUME stack' = [stack EXCEPT ![e] = Failing(Front(@))]
        PROVE  /\ OnlyStackOf(e) /\ Len(stack'[e]) = Len(s) - 1
               /\ \A k \in 1..(Len(s) - 1) : Alike(s[k], stack'[e][k])
    BY <1>1, <1>2, <1>3, <2>2, LeaveFails
  <2> QED
    BY <2>1, <2>2 DEF CallbackReturns
<1>6. PICK t \in Seq(Frame) : t = stack'[e] /\ Len(t) = Len(s) - 1
  BY <1>5 DEF OnlyStackOf
<1>7. CASE i[1] = e
  <2>1. Len(s) = Len(t) + 1 /\ \A k \in 1..Len(t) : Alike(t[k], s[k])
    BY <1>4, <1>5, <1>6 DEF Alike
  <2>2. /\ Cardinality(CallbacksIn(t, i)) \in Nat
        /\ Cardinality(CallbacksIn(s, i)) = Cardinality(CallbacksIn(t, i))
             + IF s[Len(s)].k = "cb" /\ s[Len(s)].id = i THEN 1 ELSE 0
    BY <2>1, PushCounts
  <2>3. s[Len(s)].k = "cb"
    BY <1>4 DEF CallbackFrames
  <2> QED
    BY <1>2, <1>4, <1>6, <1>7, <2>2, <2>3 DEF OnStack
<1>8. CASE i[1] # e
  <2>1. OnStack(i)' = OnStack(i) /\ i # Last(stack[e]).id
    BY <1>1, <1>4, <1>5, <1>8 DEF OnlyStackOf, OnStack
  <2> QED
    BY <1>1, <2>1
<1> QED
  BY <1>7, <1>8

(* ... and as many otherwise. *)
LEMMA StackKeeps ==
  ASSUME EInv, NEW e \in Engines, NEW i \in Ids,
         \/ Call(e)
         \/ Return(e)
         \/ OriRuns(e) /\ stack' = [stack EXCEPT ![e] = Failing(@)]
  PROVE  Cardinality(OnStack(i)') = Cardinality(OnStack(i))
<1>1. TypeOK /\ Resolved(e) /\ i[1] \in Engines /\ Cardinality(OnStack(i)) \in Nat
  BY Pairs, Inside DEF EInv
<1>2. PICK s \in Seq(Frame) : s = stack[e]
  BY <1>1, StackOf
<1>3. PICK n \in Nat : n = Len(s) /\ n = Len(stack[e])
  BY <1>2, LenProperties
<1>4. ASSUME OnlyStackOf(e), i[1] # e PROVE OnStack(i)' = OnStack(i)
  BY <1>1, <1>4 DEF OnlyStackOf, OnStack
<1>5. ASSUME Call(e) PROVE Cardinality(OnStack(i)') = Cardinality(OnStack(i))
  <2>1. /\ OnlyStackOf(e) /\ Len(stack'[e]) = Len(stack[e]) + 1
        /\ \A k \in 1..Len(stack[e]) : Alike(stack[e][k], stack'[e][k])
    BY <1>1, <1>5, CallMoves
  <2>4. stack'[e][Len(stack[e]) + 1] =
          [k |-> "call", code |-> code[e], resolved |-> code[e], failed |-> FALSE, nested |-> FALSE]
    BY <1>1, <1>5, CallMoves, Zenon
  <2>2. PICK t \in Seq(Frame) : /\ t = stack'[e] /\ Len(t) = Len(s) + 1 /\ t[Len(t)].k = "call"
                                /\ \A k \in 1..Len(s) : Alike(s[k], t[k])
    <3>1. stack'[e] \in Seq(Frame)
      BY <2>1 DEF OnlyStackOf
    <3> QED
      BY <1>2, <2>1, <2>4, <3>1
  <2>3. /\ Cardinality(CallbacksIn(s, i)) \in Nat
        /\ Cardinality(CallbacksIn(t, i)) = Cardinality(CallbacksIn(s, i))
              + IF t[Len(t)].k = "cb" /\ t[Len(t)].id = i THEN 1 ELSE 0
    BY <2>2, PushCounts
  <2> QED
    BY <1>2, <1>4, <2>1, <2>2, <2>3 DEF OnStack
<1>6. ASSUME Return(e) PROVE Cardinality(OnStack(i)') = Cardinality(OnStack(i))
  <2>1. OriRuns(e) /\ stack' = [stack EXCEPT ![e] = Front(@)]
    BY <1>6 DEF Return
  <2>2. stack[e] # <<>> /\ n > 0 /\ s[n] \in CallFrames
    BY <1>1, <1>2, <1>3, <2>1, TopCall
  <2>3. /\ OnlyStackOf(e) /\ Len(stack'[e]) = n - 1
        /\ \A k \in 1..(n - 1) : stack'[e][k] = s[k]
    <3>1. /\ OnlyStackOf(e) /\ Len(stack'[e]) = Len(stack[e]) - 1
          /\ \A k \in 1..(Len(stack[e]) - 1) : stack'[e][k] = stack[e][k]
      BY <1>1, <2>1, <2>2, LeaveMoves
    <3> QED
      BY <1>2, <1>3, <3>1
  <2>4. PICK t \in Seq(Frame) : t = stack'[e] /\ Len(t) = n - 1
    BY <2>3 DEF OnlyStackOf
  <2>5. Len(s) = Len(t) + 1 /\ \A k \in 1..Len(t) : Alike(t[k], s[k])
    BY <1>3, <2>3, <2>4 DEF Alike
  <2>6. /\ Cardinality(CallbacksIn(t, i)) \in Nat
        /\ Cardinality(CallbacksIn(s, i)) = Cardinality(CallbacksIn(t, i))
             + IF s[Len(s)].k = "cb" /\ s[Len(s)].id = i THEN 1 ELSE 0
    BY <2>5, PushCounts
  <2>7. s[Len(s)].k = "call"
    BY <1>3, <2>2 DEF CallFrames
  <2> QED
    BY <1>2, <1>4, <2>3, <2>4, <2>6, <2>7 DEF OnStack
<1>7. ASSUME OriRuns(e), stack' = [stack EXCEPT ![e] = Failing(@)]
      PROVE  Cardinality(OnStack(i)') = Cardinality(OnStack(i))
  <2>1. /\ OnlyStackOf(e) /\ Len(stack'[e]) = Len(stack[e])
        /\ \A k \in 1..Len(stack[e]) : Alike(stack[e][k], stack'[e][k])
    BY <1>1, <1>7, FailMoves
  <2>2. PICK t \in Seq(Frame) : t = stack'[e] /\ Len(t) = Len(s)
    BY <1>2, <2>1 DEF OnlyStackOf
  <2>3. CallbacksIn(t, i) = CallbacksIn(s, i)
    BY <1>2, <2>1, <2>2, SameCounts
  <2> QED
    BY <1>2, <1>4, <2>1, <2>2, <2>3 DEF OnStack
<1> QED
  BY <1>5, <1>6, <1>7

(* A task that goes on has the callback it had. *)
LEMMA SameId ==
  ASSUME EInv, Next, NEW v \in Workers, work[v].pc # "idle", work'[v].code = work[v].code
  PROVE  IdOf(v)' = IdOf(v)
<1>1. PICK c \in Codes : c = work[v].code /\ Over(c)
  BY DEF EInv, Codings
<1>2. uses'[c] = uses[c]
  BY <1>1, OverStep
<1> QED
  BY <1>1, <1>2 DEF IdOf

(* The callbacks on worker threads. *)
Inner == {"check", "cb", "rel"}

\* A worker whose step does not cross the boundary of a callback is inside the same
\* callbacks afterwards.
LEMMA OtherWorkers ==
  ASSUME EInv, Next, NEW v \in Workers, NEW i \in Ids,
         \/ work'[v] = work[v]
         \/ work'[v].code = work[v].code /\ work[v].pc # "idle"
              /\ (work'[v].pc \in Inner <=> work[v].pc \in Inner)
         \/ work'[v].pc \notin Inner /\ work[v].pc \notin Inner
  PROVE  v \in OnWorkers(i)' <=> v \in OnWorkers(i)
<1>1. work[v].pc = "idle" => work[v].pc \notin Inner
  BY DEF Inner
<1>2. v \in OnWorkers(i) <=> work[v].pc \in Inner /\ IdOf(v) = i
  BY DEF OnWorkers, Inner
<1>3. v \in OnWorkers(i)' <=> work'[v].pc \in Inner /\ IdOf(v)' = i
  BY DEF OnWorkers, Inner
<1>4. work[v].pc # "idle" /\ work'[v].code = work[v].code => IdOf(v)' = IdOf(v)
  BY SameId
<1> QED
  BY <1>1, <1>2, <1>3, <1>4

(* Only acquire and release move a task in or out. *)
LEMMA WorkersKeep ==
  ASSUME EInv, Next, NEW i \in Ids,
         work' = work \/ \E w \in Workers : Task(w) /\ ~TaskAcquires(w) /\ ~TaskReleases(w)
  PROVE  OnWorkers(i)' = OnWorkers(i)
<1>1. ASSUME NEW v \in Workers PROVE v \in OnWorkers(i)' <=> v \in OnWorkers(i)
  <2>1. CASE work'[v] = work[v]
    BY <2>1, OtherWorkers
  <2>2. ASSUME Task(v), ~TaskAcquires(v), ~TaskReleases(v)
        PROVE  v \in OnWorkers(i)' <=> v \in OnWorkers(i)
    <3>1. \/ work'[v].code = work[v].code /\ work[v].pc # "idle"
               /\ (work'[v].pc \in Inner <=> work[v].pc \in Inner)
          \/ work'[v].pc \notin Inner /\ work[v].pc \notin Inner
      BY <2>2, TaskSteps DEF TaskIs, Inner
    <3> QED
      BY <3>1, OtherWorkers
  <2>3. ASSUME NEW w \in Workers, w # v, Task(w) PROVE work'[v] = work[v]
    <3>1. \E p, c : TaskIs(w, p, c)
      BY <2>3, TaskSteps, Zenon
    <3> QED
      BY <2>3, <3>1 DEF TaskIs
  <2> QED
    BY <2>1, <2>2, <2>3
<1> QED
  BY <1>1 DEF OnWorkers

\* Acquiring adds one worker to those inside its callback, and to no other.
LEMMA WorkerEnters ==
  ASSUME EInv, Next, NEW i \in Ids, NEW w \in Workers, TaskAcquires(w)
  PROVE  Cardinality(OnWorkers(i)') = Cardinality(OnWorkers(i)) + IF IdOf(w) = i THEN 1 ELSE 0
<1>1. TypeOK /\ Codings
  BY DEF EInv
<1>2. IsFiniteSet(OnWorkers(i)) /\ Cardinality(OnWorkers(i)) \in Nat
  BY <1>1, Inside
<1>3. TaskIs(w, "check", work[w].code) /\ work[w].pc = "ori"
  BY <1>1, AcquireMoves DEF TaskAcquires
<1>4. \A v \in Workers \ {w} : v \in OnWorkers(i)' <=> v \in OnWorkers(i)
  BY <1>3, OtherWorkers DEF TaskIs
<1>5. IdOf(w)' = IdOf(w)
  BY <1>3, SameId DEF TaskIs
<1>6. w \notin OnWorkers(i) /\ (w \in OnWorkers(i)' <=> IdOf(w) = i)
  BY <1>3, <1>5 DEF OnWorkers, TaskIs
<1>7. OnWorkers(i) \subseteq Workers /\ OnWorkers(i)' \subseteq Workers
  BY DEF OnWorkers
<1>8. CASE IdOf(w) = i
  <2>1. OnWorkers(i)' = OnWorkers(i) \cup {w}
    BY <1>4, <1>6, <1>7, <1>8
  <2> QED
    BY <1>2, <1>6, <1>8, <2>1, FS_AddElement
<1>9. CASE IdOf(w) # i
  <2>1. OnWorkers(i)' = OnWorkers(i)
    BY <1>4, <1>6, <1>7, <1>9
  <2> QED
    BY <1>2, <1>9, <2>1
<1> QED
  BY <1>8, <1>9

\* Releasing removes one worker from those inside its callback, and from no other.
LEMMA WorkerLeaves ==
  ASSUME EInv, Next, NEW i \in Ids, NEW w \in Workers, TaskReleases(w)
  PROVE  /\ Cardinality(OnWorkers(i)') = Cardinality(OnWorkers(i)) - IF IdOf(w) = i THEN 1 ELSE 0
         /\ Cardinality(OnWorkers(i)) \in Nat
<1>1. TypeOK /\ Codings /\ \A j \in Ids : Counted(j)
  BY DEF EInv, Callback
<1>2. IsFiniteSet(OnWorkers(i)) /\ Cardinality(OnWorkers(i)) \in Nat
  BY <1>1, Inside
<1>3. PICK p \in {"orphan", "ori"} : TaskIs(w, p, work[w].code) /\ work[w].pc = "rel"
  BY <1>1, ReleaseMoves DEF TaskReleases
<1>4. \A v \in Workers \ {w} : v \in OnWorkers(i)' <=> v \in OnWorkers(i)
  BY <1>3, OtherWorkers DEF TaskIs
<1>6. w \notin OnWorkers(i)' /\ (w \in OnWorkers(i) <=> IdOf(w) = i)
  BY <1>3 DEF OnWorkers, TaskIs
<1>7. OnWorkers(i) \subseteq Workers /\ OnWorkers(i)' \subseteq Workers
  BY DEF OnWorkers
<1>8. CASE IdOf(w) = i
  <2>1. OnWorkers(i)' = OnWorkers(i) \ {w}
    BY <1>4, <1>6, <1>7, <1>8
  <2> QED
    BY <1>2, <1>6, <1>8, <2>1, FS_RemoveElement
<1>9. CASE IdOf(w) # i
  <2>1. OnWorkers(i)' = OnWorkers(i)
    BY <1>4, <1>6, <1>7, <1>9
  <2> QED
    BY <1>2, <1>9, <2>1
<1> QED
  BY <1>2, <1>8, <1>9

-----------------------------------------------------------------------------
(* A dropped engine does not come back. *)
LEMMA LiveStep == ASSUME Next PROVE live' \subseteq live
<1>1. ASSUME NEW e \in Engines, Ends(e) PROVE live' \subseteq live
  BY <1>1 DEF Ends, ContextDestroy, DropEngine, Emptied
<1> QED
  BY <1>1, Movers

(* A registration that is in use has been made. *)
LEMMA Registered ==
  ASSUME EInv, Next, NEW i \in Ids, cb[i].mapped \/ cb[i].active > 0
  PROVE  ~(i[2] > compiled'[i[1]].ids)
<1>1. Callback(i) /\ i[1] \in Engines /\ i[2] \in Nat
  BY Pairs DEF EInv
<1>2. cb[i] # Unregistered
  BY DEF Unregistered
<1>3. ~(i[2] > compiled[i[1]].ids)
  BY <1>1, <1>2 DEF Callback
<1> QED
  BY <1>1, <1>3, IdsGrow

(* Whoever is about to remove an orphaned entry goes on to remove it. *)
LEMMA SameLeaks ==
  ASSUME EInv, Next, NEW i \in Ids, cb'[i].mapped = cb[i].mapped, cb'[i].orphaned = cb[i].orphaned,
         cb'[i].store = cb[i].store, cb[i].active > 0 => cb'[i].active > 0
  PROVE  Leaks(i)'
<1>1. TypeOK /\ Codings /\ Leaks(i)
  BY DEF EInv, Callback
<1>2. SUFFICES ASSUME cb[i].orphaned \/ cb[i].store = "buffered", cb[i].mapped,
                      ~(cb'[i].active > 0), cb[i].store # "missed"
               PROVE  \E w \in Workers : work'[w].pc \in {"orphan", "remove"} /\ IdOf(w)' = i
  BY DEF Leaks
<1>3. PICK w \in Workers : work[w].pc \in {"orphan", "remove"} /\ IdOf(w) = i
  BY <1>1, <1>2 DEF Leaks
<1>4. CASE work'[w] = work[w]
  BY <1>3, <1>4, SameId
<1>5. CASE Task(w)
  <2>1. \/ /\ TaskReadsOrphan(w)
           /\ TaskIs(w, IF cb[IdOf(w)].orphaned THEN "remove" ELSE "ori", work[w].code)
        \/ TaskRemoves(w)
    BY <1>3, <1>5, TaskSteps
  <2>2. ~TaskRemoves(w)
    <3>1. SUFFICES ASSUME TaskRemoves(w) PROVE FALSE
      OBVIOUS
    <3>2. cb'[i].mapped = FALSE
      BY <1>1, <1>3, <3>1, RemoveMoves DEF Entry
    <3> QED
      BY <1>2, <3>2
  <2>3. cb[i].orphaned
    <3>1. SUFFICES ASSUME ~cb[i].orphaned PROVE FALSE
      OBVIOUS
    <3>2. cb[i].active = 0 /\ InFlight(i)
      BY <1>1, <1>2, <3>1, EntryOf DEF InFlight
    <3>3. cb'[i].store = "missed"
      BY <1>1, <1>3, <2>1, <2>2, <3>2, ReadMoves DEF Stored
    <3> QED
      BY <1>2, <3>3
  <2>4. work'[w].pc = "remove" /\ work'[w].code = work[w].code
    BY <1>3, <2>1, <2>2, <2>3 DEF TaskIs
  <2> QED
    BY <1>3, <2>4, SameId
<1>6. work'[w] = work[w] \/ Task(w)
  BY <1>3, WorkStep
<1> QED
  BY <1>4, <1>5, <1>6

(* A registration that a step leaves alone. *)
LEMMA SameCallback ==
  ASSUME EInv, Next, NEW i \in Ids, cb'[i] = cb[i], i \in box => i \in box', Counted(i)'
  PROVE  Callback(i)'
<1>1. Callback(i) /\ i[1] \in Engines /\ i[2] \in Nat
  BY Pairs DEF EInv
<1>2. Leaks(i)'
  BY SameLeaks
<1>3. live' \subseteq live
  BY LiveStep
<1>4. i[2] > compiled'[i[1]].ids => i[2] > compiled[i[1]].ids
  BY <1>1, IdsGrow
<1> QED
  BY <1>1, <1>2, <1>3, <1>4 DEF Callback

(* The count is right as long as nobody comes or goes. *)
LEMMA SameCount ==
  ASSUME EInv, Next, NEW i \in Ids, cb'[i].active = cb[i].active,
         Cardinality(OnStack(i)') = Cardinality(OnStack(i)),
         Cardinality(OnWorkers(i)') = Cardinality(OnWorkers(i))
  PROVE  Counted(i)'
  BY DEF EInv, Callback, Counted

(* Steps of the host that register, unregister and drop. *)
LEMMA HostCallbacks ==
  ASSUME EInv, Next, NEW e \in Engines, Registers(e) \/ Ends(e) \/ Publish(e), NEW i \in Ids
  PROVE  Callback(i)'
<1>1. TypeOK /\ Owned(e) /\ Callback(i) /\ i[1] \in Engines /\ i[2] \in Nat
  BY Pairs DEF EInv
<1>2. OnStack(i)' = OnStack(i) /\ OnWorkers(i)' = OnWorkers(i)
  <2>1. stack' = stack /\ work' = work
    BY DEF Registers, Ends, RegisterCallback, RemoveCallback, ContextDestroy, DropEngine,
       Emptied, Publish,
           calls
  <2> QED
    BY <2>1, WorkersKeep DEF OnStack
<1>3. ASSUME cb'[i] = cb[i], i \in box => i \in box' PROVE Callback(i)'
  BY <1>2, <1>3, SameCount, SameCallback
<1>4. live' \subseteq live
  BY LiveStep
<1>5. ASSUME RegisterCallback(e) PROVE Callback(i)'
  <2>1. PICK j \in Ids : /\ j[1] = e /\ j[2] = compiled[e].ids + 1 /\ box' = box \cup {j}
                         /\ Entry(j, TRUE, cb[j].orphaned, cb[j].active, cb[j].bound)
    BY <1>1, <1>5, RegisterMoves
  <2>2. CASE i = j
    <3>1. cb[i] = Unregistered
      BY <1>1, <2>1, <2>2, CountMoves DEF Callback
    <3>2. /\ ~cb'[i].orphaned /\ cb'[i].store = "none"
          /\ cb'[i].active = cb[i].active /\ i \in box'
      <4>1. cb[i].orphaned = FALSE /\ cb[i].store = "none"
        BY <3>1 DEF Unregistered
      <4>2. /\ cb'[i].orphaned = cb[i].orphaned /\ cb'[i].active = cb[i].active
            /\ cb'[i].store = cb[i].store
        BY <2>1, <2>2 DEF Entry
      <4> QED
        BY <2>1, <2>2, <4>1, <4>2
    <3>3. ~(i[2] > compiled'[i[1]].ids)
      <4>1. compiled' = [compiled EXCEPT ![e].ids = @ + 1]
        BY <1>5 DEF RegisterCallback
      <4>2. compiled'[e].ids = compiled[e].ids + 1 /\ compiled[e].ids \in Nat
        BY <1>1, <4>1, CountMoves
      <4>3. i[1] = e /\ i[2] = compiled'[e].ids
        BY <2>1, <2>2, <4>2
      <4> QED
        BY <1>1, <4>3
    <3>4. Counted(i)'
      BY <1>2, <3>2, SameCount
    <3> QED
      BY <3>2, <3>3, <3>4 DEF Callback, Leaks
  <2>3. CASE i # j
    BY <1>3, <2>1, <2>3 DEF Entry
  <2> QED
    BY <2>2, <2>3
<1>6. ASSUME named[e] # None
      PROVE  named[e] \in Ids /\ named[e][1] = e /\ ~(named[e][2] > compiled'[e].ids)
  <2>1. named[e] \in Ids /\ named[e][1] = e /\ named[e][2] <= compiled[e].ids
    BY <1>1, <1>6 DEF TypeOK, Owned
  <2>2. named[e][2] \in Nat
    BY <2>1, Pairs
  <2> QED
    BY <2>1, <2>2, IdsGrow
<1>7. ASSUME named[e] # None, Unregister(named[e]) PROVE Callback(i)'
  <2>1. PICK j \in Ids : /\ j = named[e] /\ cb[j].active = 0
                         /\ Entry(j, FALSE, TRUE, 0, cb[j].bound)
                         /\ box' = box \ {j}
    BY <1>1, <1>6, <1>7, UnregisterMoves
  <2>2. CASE i = j
    <3>1. ~cb'[i].mapped /\ cb'[i].active = 0 /\ cb[i].active = 0
      BY <2>1, <2>2 DEF Entry
    <3>2. Counted(i)'
      BY <1>2, <3>1, SameCount
    <3> QED
      BY <1>6, <1>7, <2>1, <2>2, <3>1, <3>2 DEF Callback, Leaks
  <2>3. CASE i # j
    BY <1>3, <2>1, <2>3 DEF Entry
  <2> QED
    BY <2>2, <2>3
<1>8. ASSUME DropEngine(e) PROVE Callback(i)'
  <2>1. box' = box /\ live' = live \ {e}
    BY <1>8 DEF DropEngine, Emptied
  <2>2. CASE cb' = cb
    BY <1>3, <2>1, <2>2
  <2>4. CASE /\ named[e] # None /\ cb[named[e]].active > 0
             /\ Stored(named[e], cb[named[e]].orphaned, "buffered")
    <3>1. CASE i = named[e]
      <4>1. /\ cb'[i].active = cb[i].active /\ cb[i].active > 0
            /\ cb'[i].mapped = cb[i].mapped
        BY <2>4, <3>1 DEF Stored
      <4>2. Counted(i)'
        BY <1>2, <4>1, SameCount
      <4>3. ~(i[2] > compiled'[i[1]].ids) /\ i[1] \notin live'
        BY <1>6, <2>1, <2>4, <3>1
      <4> QED
        BY <1>1, <2>1, <4>1, <4>2, <4>3 DEF Callback, Leaks
    <3>2. CASE i # named[e]
      BY <1>3, <2>1, <2>4, <3>2 DEF Stored
    <3> QED
      BY <3>1, <3>2
  <2>3. CASE named[e] # None /\ cb' = Orphan(named[e])
    <3>1. PICK j \in Ids : j = named[e] /\ j[1] = e /\ cb' = Orphan(j)
      BY <1>6, <2>3
    <3>2. PICK m : /\ Entry(j, m, TRUE, cb[j].active, cb[j].bound)
                   /\ m = FALSE \/ (cb[j].active > 0 /\ m = cb[j].mapped)
      BY <1>1, <3>1, OrphanMoves
    <3>3. CASE i = j
      <4>1. cb'[i].active = cb[i].active /\ (cb'[i].mapped => cb[i].mapped /\ cb[i].active > 0)
        BY <3>2, <3>3 DEF Entry
      <4>2. Counted(i)'
        BY <1>2, <4>1, SameCount
      <4>3. ~(i[2] > compiled'[i[1]].ids) /\ i[1] \notin live'
        BY <1>6, <2>1, <2>3, <3>1, <3>3
      <4> QED
        BY <1>1, <2>1, <4>1, <4>2, <4>3 DEF Callback, Leaks
    <3>4. CASE i # j
      BY <1>3, <2>1, <3>2, <3>4 DEF Entry
    <3> QED
      BY <3>3, <3>4
  <2> QED
    BY <1>1, <1>8, <2>2, <2>3, <2>4, DropMoves
<1>9. ASSUME Publish(e) PROVE Callback(i)'
  <2>1. box' = box
    BY <1>9 DEF Publish
  <2>2. CASE cb'[i] = cb[i]
    BY <1>3, <2>1, <2>2
  <2>3. CASE named[e] # None /\ i = named[e]
    <3>1. /\ cb'[i].mapped = cb[i].mapped /\ cb'[i].orphaned = cb[i].orphaned
          /\ cb'[i].active = cb[i].active /\ cb'[i].store = cb[i].store
      BY <1>1, <1>9, <2>3, BindMoves DEF Entry
    <3>2. Counted(i)' /\ Leaks(i)'
      BY <1>2, <3>1, SameCount, SameLeaks
    <3>3. ~(i[2] > compiled'[i[1]].ids)
      BY <1>6, <2>3
    <3> QED
      BY <1>1, <1>4, <2>1, <3>1, <3>2, <3>3 DEF Callback
  <2>4. cb'[i] = cb[i] \/ (named[e] # None /\ i = named[e])
    BY <1>1, <1>9, BindMoves DEF Entry
  <2> QED
    BY <2>2, <2>3, <2>4
<1>10. ASSUME ContextDestroy(e), named[e] = None PROVE Callback(i)'
  BY <1>3, <1>10 DEF ContextDestroy
<1> QED
  BY <1>5, <1>7, <1>8, <1>9, <1>10 DEF Registers, Ends, RemoveCallback, ContextDestroy

(* Steps of a call. *)
LEMMA CallCallbacks ==
  ASSUME EInv, Next, NEW e \in Engines, CallSteps(e), NEW i \in Ids
  PROVE  Callback(i)'
<1>1. TypeOK /\ Frames(e) /\ Callback(i) /\ i[1] \in Engines
      /\ (\A j \in Ids : Counted(j)) /\ \A c \in Codes : Baked(c)
  BY Pairs DEF EInv, Callback
<1>2. box' = box /\ work' = work /\ live' = live
  BY DEF CallSteps, Call, OriError, Invoke, CallbackReturns, Return, registry
<1>3. OnWorkers(i)' = OnWorkers(i) /\ Cardinality(OnWorkers(i)) \in Nat
        /\ Cardinality(OnStack(i)) \in Nat
  BY <1>1, <1>2, WorkersKeep, Inside
<1>4. ASSUME cb'[i] = cb[i], Cardinality(OnStack(i)') = Cardinality(OnStack(i)) PROVE Callback(i)'
  BY <1>2, <1>3, <1>4, SameCount, SameCallback
<1>5. ASSUME Call(e) \/ OriError(e) \/ Return(e) PROVE Callback(i)'
  <2>1. cb' = cb
    BY <1>5 DEF Call, OriError, Return, registry
  <2>2. Cardinality(OnStack(i)') = Cardinality(OnStack(i))
    BY <1>5, StackKeeps DEF OriError
  <2> QED
    BY <1>4, <2>1, <2>2
<1>6. ASSUME Invoke(e) PROVE Callback(i)'
  <2>1. OriRuns(e) /\ Baked(Last(stack[e]).code)
    BY <1>1, <1>6, TopCall DEF Invoke, CallFrames
  <2>2. ASSUME cb' = cb, stack' = [stack EXCEPT ![e] = Failing(@)] PROVE Callback(i)'
    BY <1>4, <2>1, <2>2, StackKeeps
  <2>3. ASSUME NEW j \in Ids, j[1] = e, cb[j].mapped, ~cb[j].orphaned,
               Entry(j, cb[j].mapped, cb[j].orphaned, cb[j].active + 1, cb[j].bound),
               stack' = [stack EXCEPT ![e] = Append(@, [k |-> "cb", id |-> j])]
        PROVE  Callback(i)'
    <3>1. Cardinality(OnStack(i)') = Cardinality(OnStack(i)) + IF i = j THEN 1 ELSE 0
      BY <2>3, StackEnters
    <3>2. CASE i = j
      <4>1. /\ cb'[i].active = cb[i].active + 1 /\ ~cb'[i].orphaned /\ cb[i].active \in Nat
            /\ cb'[i].store = cb[i].store
        BY <1>1, <2>3, <3>2, EntryOf DEF Entry
      <4>2. Counted(i)'
        BY <1>1, <1>3, <3>1, <3>2, <4>1 DEF Counted
      <4>3. ~(i[2] > compiled'[i[1]].ids) /\ i \in box'
        BY <1>1, <1>2, <2>3, <3>2, Registered DEF Callback
      <4>4. cb[i].store = "none"
        BY <1>1, <2>1, <2>3, <3>2 DEF Callback, OriRuns, Free
      <4> QED
        BY <4>1, <4>2, <4>3, <4>4 DEF Callback, Leaks
    <3>3. CASE i # j
      BY <1>3, <1>4, <2>3, <3>1, <3>3 DEF Entry
    <3> QED
      BY <3>2, <3>3
  <2> QED
    BY <1>1, <1>6, <2>1, <2>2, <2>3, InvokeMoves
<1>7. ASSUME CallbackReturns(e) PROVE Callback(i)'
  <2>1. PICK j \in Ids : /\ j[1] = e /\ Last(stack[e]).id = j /\ cb[j].active > 0
                         /\ Entry(j, cb[j].mapped, cb[j].orphaned, cb[j].active - 1, cb[j].bound)
    BY <1>1, <1>7, BackMoves
  <2>2. /\ Cardinality(OnStack(i)') \in Nat
        /\ Cardinality(OnStack(i)) = Cardinality(OnStack(i)') + IF i = j THEN 1 ELSE 0
    BY <1>7, <2>1, StackLeaves
  <2>3. CASE i = j
    <3>1. /\ cb'[i].active = cb[i].active - 1 /\ cb'[i].mapped = cb[i].mapped
          /\ cb'[i].orphaned = cb[i].orphaned /\ cb'[i].store = cb[i].store
          /\ cb[i].active \in Nat
      BY <1>1, <2>1, <2>3, EntryOf DEF Entry
    <3>2. Counted(i)'
      BY <1>1, <1>3, <2>2, <2>3, <3>1 DEF Counted
    <3>3. ~(i[2] > compiled'[i[1]].ids) /\ i \in box'
      BY <1>1, <1>2, <2>1, <2>3, Registered DEF Callback
    <3>4. ~(cb[i].mapped /\ (cb[i].orphaned \/ cb[i].store # "none"))
      BY <1>1, <1>7, <2>1, <2>3 DEF Callback, CallbackReturns, HostRuns, Free
    <3> QED
      BY <3>1, <3>2, <3>3, <3>4 DEF Callback, Leaks
  <2>4. CASE i # j
    BY <1>4, <2>1, <2>2, <2>4 DEF Entry
  <2> QED
    BY <2>3, <2>4
<1> QED
  BY <1>5, <1>6, <1>7 DEF CallSteps

(* Steps of a task. *)
LEMMA TaskCallbacks ==
  ASSUME EInv, Next, NEW w \in Workers, Task(w), NEW i \in Ids
  PROVE  Callback(i)'
<1>1. TypeOK /\ Codings /\ Callback(i) /\ i[1] \in Engines /\ \A j \in Ids : Counted(j)
  BY Pairs DEF EInv, Callback
<1>2. box' = box /\ stack' = stack /\ live' = live
  BY DEF Task, Spawn, TaskAcquires, TaskChecks, TaskReturns, TaskReleases, TaskReadsOrphan,
     TaskRemoves,
         TaskEnds, registry, calls
<1>3. OnStack(i)' = OnStack(i) /\ Cardinality(OnWorkers(i)) \in Nat
        /\ Cardinality(OnStack(i)) \in Nat
  BY <1>1, <1>2, Inside DEF OnStack
<1>4. ASSUME cb'[i] = cb[i], Cardinality(OnWorkers(i)') = Cardinality(OnWorkers(i))
      PROVE  Callback(i)'
  BY <1>2, <1>3, <1>4, SameCount, SameCallback
<1>5. ASSUME TaskAcquires(w) PROVE Callback(i)'
  <2>1. PICK j \in Ids : /\ j = IdOf(w) /\ cb[j].mapped /\ ~cb[j].orphaned
                         /\ Entry(j, cb[j].mapped, cb[j].orphaned, cb[j].active + 1, cb[j].bound)
    BY <1>1, <1>5, AcquireMoves
  <2>2. Cardinality(OnWorkers(i)') = Cardinality(OnWorkers(i)) + IF i = j THEN 1 ELSE 0
    BY <1>5, <2>1, WorkerEnters
  <2>3. CASE i = j
    <3>1. /\ cb'[i].active = cb[i].active + 1 /\ ~cb'[i].orphaned /\ cb[i].active \in Nat
          /\ cb'[i].store = cb[i].store /\ cb[i].store = "none"
      BY <1>1, <1>5, <2>1, <2>3, EntryOf DEF Entry, TaskAcquires, InFlight
    <3>2. Counted(i)'
      BY <1>1, <1>3, <2>2, <2>3, <3>1 DEF Counted
    <3>3. ~(i[2] > compiled'[i[1]].ids) /\ i \in box'
      BY <1>1, <1>2, <2>1, <2>3, Registered DEF Callback
    <3> QED
      BY <3>1, <3>2, <3>3 DEF Callback, Leaks
  <2>4. CASE i # j
    BY <1>3, <1>4, <2>1, <2>2, <2>4 DEF Entry
  <2> QED
    BY <2>3, <2>4
<1>6. ASSUME TaskReleases(w) PROVE Callback(i)'
  <2>1. PICK j \in Ids : /\ j = IdOf(w) /\ cb[j].active > 0
                         /\ Entry(j, cb[j].mapped, cb[j].orphaned, cb[j].active - 1, cb[j].bound)
                         /\ TaskIs(w, IF cb[j].active = 1 THEN "orphan" ELSE "ori", work[w].code)
    BY <1>1, <1>6, ReleaseMoves
  <2>2. Cardinality(OnWorkers(i)') = Cardinality(OnWorkers(i)) - IF i = j THEN 1 ELSE 0
    BY <1>6, <2>1, WorkerLeaves
  <2>3. CASE i = j
    <3>1. /\ cb'[i].active = cb[i].active - 1 /\ cb'[i].mapped = cb[i].mapped
          /\ cb'[i].orphaned = cb[i].orphaned /\ cb'[i].store = cb[i].store
          /\ cb[i].active \in Nat
      BY <1>1, <2>1, <2>3, EntryOf DEF Entry
    <3>2. Counted(i)'
      BY <1>1, <1>3, <2>2, <2>3, <3>1 DEF Counted
    <3>3. ~(i[2] > compiled'[i[1]].ids) /\ i \in box'
      BY <1>1, <1>2, <2>1, <2>3, Registered DEF Callback
    <3>4. Leaks(i)'
      <4>1. CASE cb[i].active = 1
        <5>1. work'[w].pc = "orphan" /\ work'[w].code = work[w].code /\ work[w].pc = "rel"
          BY <1>6, <2>1, <2>3, <4>1 DEF TaskIs, TaskReleases
        <5>2. IdOf(w)' = i
          BY <2>1, <2>3, <5>1, SameId
        <5> QED
          BY <5>1, <5>2 DEF Leaks
      <4>2. CASE cb[i].active # 1
        <5>1. cb'[i].active > 0
          BY <2>1, <2>3, <3>1, <4>2
        <5> QED
          BY <5>1 DEF Leaks
      <4> QED
        BY <4>1, <4>2
    <3> QED
      BY <1>1, <1>2, <3>1, <3>2, <3>3, <3>4 DEF Callback
  <2>4. CASE i # j
    BY <1>3, <1>4, <2>1, <2>2, <2>4 DEF Entry
  <2> QED
    BY <2>3, <2>4
<1>7. ASSUME TaskRemoves(w) PROVE Callback(i)'
  <2>1. PICK j \in Ids : Entry(j, FALSE, cb[j].orphaned, cb[j].active, cb[j].bound) /\ j = IdOf(w)
    BY <1>1, <1>7, RemoveMoves
  <2>2. OnWorkers(i)' = OnWorkers(i)
    <3>1. ~TaskAcquires(w) /\ ~TaskReleases(w)
      BY <1>7 DEF TaskAcquires, TaskReleases, TaskRemoves
    <3> QED
      BY <3>1, WorkersKeep
  <2>3. CASE i = j
    <3>1. cb'[i].active = cb[i].active /\ ~cb'[i].mapped
      BY <2>1, <2>3 DEF Entry
    <3>2. Counted(i)'
      BY <1>3, <2>2, <3>1, SameCount
    <3>3. ~(i[2] > compiled'[i[1]].ids)
      <4>1. PICK c \in Codes : c = work[w].code /\ uses[c] = i
        BY <1>1, <1>7, <2>1, <2>3 DEF TaskRemoves, Codings, IdOf
      <4>2. Baked(c) /\ uses[c] # None
        BY <4>1, Pairs DEF EInv
      <4>3. i[1] = c[1] /\ i[2] <= compiled[i[1]].ids /\ i[2] \in Nat
        BY <4>1, <4>2, Pairs DEF Baked
      <4> QED
        BY <1>1, <4>3, IdsGrow
    <3> QED
      BY <1>1, <1>2, <3>1, <3>2, <3>3 DEF Callback, Leaks
  <2>4. CASE i # j
    BY <1>4, <2>1, <2>2, <2>4 DEF Entry
  <2> QED
    BY <2>3, <2>4
<1>8. ASSUME ~TaskAcquires(w), ~TaskReleases(w), ~TaskRemoves(w) PROVE Callback(i)'
  <2>1. OnWorkers(i)' = OnWorkers(i)
    BY <1>8, WorkersKeep
  <2>2. cb' = cb \/ TaskReadsOrphan(w)
    BY <1>8 DEF Task, Spawn, TaskChecks, TaskReturns, TaskEnds, registry
  <2>3. CASE cb'[i] = cb[i]
    BY <1>4, <2>1, <2>3
  <2>4. CASE cb'[i] # cb[i] /\ TaskReadsOrphan(w)
    <3>1. InFlight(i) /\ cb[i].active = 0 /\ Stored(i, cb[i].orphaned, "missed")
      BY <1>1, <2>4, ReadMoves DEF Stored
    <3>2. Counted(i)'
      BY <1>3, <2>1, <3>1, SameCount DEF Stored
    <3>3. /\ cb[i].store # "none" /\ cb'[i].store = "missed" /\ cb'[i].orphaned = cb[i].orphaned
          /\ cb'[i].mapped = cb[i].mapped /\ cb'[i].active = cb[i].active
      BY <3>1 DEF Stored, InFlight
    <3>4. ~(i[2] > compiled'[i[1]].ids)
      <4>1. cb[i] # Unregistered
        BY <3>3 DEF Unregistered
      <4>2. ~(i[2] > compiled[i[1]].ids)
        BY <1>1, <4>1 DEF Callback
      <4> QED
        BY <1>1, <4>2, IdsGrow, Pairs
    <3> QED
      BY <1>1, <1>2, <3>2, <3>3, <3>4 DEF Callback, Leaks
  <2> QED
    BY <2>2, <2>3, <2>4
<1> QED
  BY <1>5, <1>6, <1>7, <1>8

(* The store of `orphaned' arrives. *)
LEMMA StoreCallbacks ==
  ASSUME EInv, Next, NEW j \in Ids, StoreArrives(j), NEW i \in Ids
  PROVE  Callback(i)'
<1>1. TypeOK /\ Callback(i) /\ i[1] \in Engines
  BY Pairs DEF EInv
<1>2. box' = box /\ stack' = stack /\ live' = live /\ work' = work /\ uses' = uses
  BY DEF StoreArrives, calls, modules
<1>3. OnStack(i)' = OnStack(i) /\ OnWorkers(i)' = OnWorkers(i)
  BY <1>2, WorkersKeep DEF OnStack
<1>4. cb[j].store # "none" /\ Stored(j, TRUE, IF cb[j].store = "buffered" THEN "none" ELSE cb[j].store)
  BY <1>1, StoreMoves
<1>5. CASE i # j
  BY <1>2, <1>3, <1>4, <1>5, SameCount, SameCallback DEF Stored
<1>6. CASE i = j
  <2>1. /\ cb'[i].mapped = cb[i].mapped /\ cb'[i].active = cb[i].active
        /\ cb[i].store # "none" /\ (cb[i].store = "missed" => cb'[i].store = "missed")
        /\ cb[i].store \in {"none", "buffered", "missed"}
    BY <1>1, <1>4, <1>6, EntryOf DEF Stored
  <2>2. Counted(i)'
    BY <1>3, <2>1, SameCount
  <2>3. ~(i[2] > compiled'[i[1]].ids)
    <3>1. cb[i] # Unregistered
      BY <2>1 DEF Unregistered
    <3>2. ~(i[2] > compiled[i[1]].ids)
      BY <1>1, <3>1 DEF Callback
    <3> QED
      BY <1>1, <3>2, IdsGrow, Pairs
  <2>4. Leaks(i)'
    <3>1. \A w \in Workers : IdOf(w)' = IdOf(w)
      BY <1>2 DEF IdOf
    <3> QED
      BY <1>1, <1>2, <2>1, <3>1 DEF Callback, Leaks
  <2> QED
    BY <1>1, <1>2, <2>1, <2>2, <2>3, <2>4 DEF Callback
<1> QED
  BY <1>5, <1>6

(* Every registration stays in order. *)
LEMMA CallbackStep ==
  ASSUME EInv, Next, NEW i \in Ids
  PROVE  Callback(i)'
<1>1. ASSUME NEW e \in Engines, Registers(e) \/ Ends(e) \/ Publish(e) PROVE Callback(i)'
  BY <1>1, HostCallbacks
<1>2. ASSUME NEW e \in Engines, CallSteps(e) PROVE Callback(i)'
  BY <1>2, CallCallbacks
<1>3. ASSUME NEW w \in Workers, Task(w) PROVE Callback(i)'
  BY <1>3, TaskCallbacks
<1>4. ASSUME UNCHANGED <<cb, box, stack, work>> PROVE Callback(i)'
  <2>1. OnStack(i)' = OnStack(i) /\ OnWorkers(i)' = OnWorkers(i)
    BY <1>4, WorkersKeep DEF OnStack
  <2> QED
    BY <1>4, <2>1, SameCount, SameCallback
<1>5. ASSUME NEW j \in Ids, StoreArrives(j) PROVE Callback(i)'
  BY <1>5, StoreCallbacks
<1> QED
  BY <1>1, <1>2, <1>3, <1>4, <1>5, Movers DEF CallSteps

-----------------------------------------------------------------------------
(* A registration in use was in use before, or is new. *)
InUse(i) == cb[i].mapped \/ cb[i].active > 0

\* No step starts to use a callback that was bound before and is not in use: a published
\* callback, once out of use, stays so.
LEMMA InUseStep ==
  ASSUME EInv, Next, NEW i \in Ids, InUse(i)'
  PROVE  InUse(i) \/ cb[i].bound = None
<1>1. TypeOK /\ Codings /\ \A e \in Engines : Owned(e) /\ Frames(e)
  BY DEF EInv
<1>2. (\A j \in Ids : Counted(j)) /\ \A c \in Codes : Baked(c)
  BY DEF EInv, Callback
<1>3. ASSUME NEW j \in Ids, NEW m, NEW o, NEW a, NEW b, Entry(j, m, o, a, b),
             m => cb[j].mapped, a > 0 => cb[j].mapped \/ cb[j].active > 0
      PROVE  InUse(i)
  BY <1>3 DEF Entry, InUse
<1>4. ASSUME NEW e \in Engines, RegisterCallback(e) PROVE InUse(i) \/ cb[i].bound = None
  <2>1. PICK j \in Ids : /\ j[1] = e /\ j[2] = compiled[e].ids + 1
                         /\ Entry(j, TRUE, cb[j].orphaned, cb[j].active, cb[j].bound)
    BY <1>1, <1>4, RegisterMoves
  <2>2. CASE i # j
    BY <2>1, <2>2 DEF Entry, InUse
  <2>3. CASE i = j
    <3>1. compiled[i[1]].ids \in Nat /\ i[2] > compiled[i[1]].ids
      BY <1>1, <2>1, <2>3, CountMoves
    <3>2. cb[i] = Unregistered
      BY <3>1 DEF EInv, Callback
    <3> QED
      BY <3>2 DEF Unregistered
  <2> QED
    BY <2>2, <2>3
<1>5. ASSUME NEW j \in Ids, Unregister(j) PROVE InUse(i)
  BY <1>1, <1>3, <1>5, UnregisterMoves
<1>6. ASSUME NEW j \in Ids, cb' = Orphan(j) PROVE InUse(i)
  <2>1. PICK m : /\ Entry(j, m, TRUE, cb[j].active, cb[j].bound)
                 /\ m = FALSE \/ m = cb[j].mapped
    BY <1>1, <1>6, OrphanMoves
  <2> QED
    BY <2>1 DEF Entry, InUse
<1>7. ASSUME NEW e \in Engines, RemoveCallback(e) \/ Ends(e) PROVE InUse(i)
  <2>1. named[e] # None => named[e] \in Ids
    BY <1>1 DEF TypeOK
  <2>2. \/ cb' = cb \/ \E j \in Ids : Unregister(j) \/ cb' = Orphan(j)
        \/ \E j \in Ids : \E o, s : Stored(j, o, s)
    BY <1>1, <1>7, <2>1, DropMoves DEF Ends, RemoveCallback, ContextDestroy
  <2> QED
    BY <1>5, <1>6, <2>2 DEF InUse, Stored
<1>8. ASSUME NEW e \in Engines, Publish(e) PROVE InUse(i)
  BY <1>1, <1>8, BindMoves DEF Entry, InUse
<1>9. ASSUME NEW e \in Engines, Invoke(e) PROVE InUse(i)
  <2>1. Baked(Last(stack[e]).code)
    BY <1>1, <1>2, <1>9, TopCall DEF Invoke, CallFrames
  <2>2. \/ cb' = cb
        \/ \E j \in Ids : /\ cb[j].mapped
                          /\ Entry(j, cb[j].mapped, cb[j].orphaned, cb[j].active + 1, cb[j].bound)
    BY <1>1, <1>9, <2>1, InvokeMoves
  <2> QED
    BY <1>3, <2>2 DEF InUse
<1>10. ASSUME NEW e \in Engines, CallbackReturns(e) PROVE InUse(i)
  <2>1. PICK j \in Ids : /\ cb[j].active > 0
                         /\ Entry(j, cb[j].mapped, cb[j].orphaned, cb[j].active - 1, cb[j].bound)
    BY <1>1, <1>2, <1>10, BackMoves
  <2> QED
    BY <1>3, <2>1
<1>11. ASSUME NEW w \in Workers, Task(w) PROVE InUse(i)
  <2>1. ASSUME TaskAcquires(w) PROVE InUse(i)
    BY <1>1, <1>3, <2>1, AcquireMoves
  <2>2. ASSUME TaskReleases(w) PROVE InUse(i)
    <3>1. PICK j \in Ids : /\ cb[j].active > 0
                           /\ Entry(j, cb[j].mapped, cb[j].orphaned, cb[j].active - 1, cb[j].bound)
      BY <1>1, <1>2, <2>2, ReleaseMoves
    <3> QED
      BY <1>3, <3>1
  <2>3. ASSUME TaskRemoves(w) PROVE InUse(i)
    BY <1>1, <1>3, <2>3, RemoveMoves
  <2>4. ASSUME TaskReadsOrphan(w) PROVE InUse(i)
    BY <1>1, <2>4, ReadMoves DEF Stored, InUse
  <2>5. cb' = cb \/ TaskAcquires(w) \/ TaskReleases(w) \/ TaskRemoves(w) \/ TaskReadsOrphan(w)
    BY <1>11 DEF Task, Spawn, TaskChecks, TaskReturns, TaskEnds, registry
  <2> QED
    BY <2>1, <2>2, <2>3, <2>4, <2>5 DEF InUse
<1>12. CASE cb' = cb
  BY <1>12 DEF InUse
<1>13. ASSUME NEW j \in Ids, StoreArrives(j) PROVE InUse(i)
  BY <1>1, <1>13, StoreMoves DEF Stored, InUse
<1> QED
  BY <1>4, <1>7, <1>8, <1>9, <1>10, <1>11, <1>12, <1>13, Movers DEF Registers

(* So was a state that something holds. *)
LEMMA StateHeldStep ==
  ASSUME EInv, Next, NEW i \in Ids, StateHeld(i)'
  PROVE  StateHeld(i) \/ cb[i].bound = None
<1>1. TypeOK /\ Codings
  BY DEF EInv
<1>2. StateHeld(i) <=> InUse(i) \/ \E w \in Workers : work[w].pc \in InCallback /\ IdOf(w) = i
  BY DEF StateHeld, InUse, IdOf
<1>3. InUse(i)' \/ \E w \in Workers : work'[w].pc \in InCallback /\ IdOf(w)' = i
  BY DEF StateHeld, InUse, IdOf, InCallback
<1>4. CASE InUse(i)'
  BY <1>2, <1>4, InUseStep
<1>5. ASSUME NEW w \in Workers, work'[w].pc \in InCallback, IdOf(w)' = i PROVE StateHeld(i)
  <2>1. work'[w].pc # "idle" /\ work'[w].pc # "ori"
    BY <1>5 DEF InCallback
  <2>2. work[w].pc = "idle" => work[w].pc \notin InCallback
    BY DEF InCallback
  <2>3. work'[w] = work[w] \/ (Task(w) /\ work'[w].code = work[w].code /\ work[w].pc # "idle")
    BY <2>1, WorkStep
  <2>4. IdOf(w) = i /\ (work[w].pc \in InCallback \/ Task(w))
    BY <1>5, <2>2, <2>3, SameId
  <2>5. CASE work[w].pc \in InCallback
    BY <1>2, <2>4, <2>5
  <2>6. CASE Task(w) /\ work[w].pc \notin InCallback
    <3>1. TaskAcquires(w)
      BY <2>1, <2>6, TaskSteps DEF TaskIs, InCallback
    <3>2. cb[i].mapped
      BY <1>1, <2>4, <3>1, AcquireMoves
    <3> QED
      BY <1>2, <3>2 DEF InUse
  <2> QED
    BY <2>4, <2>5, <2>6
<1> QED
  BY <1>3, <1>4, <1>5

(* What holds a lease after a step held it before, except the code a lease *)
(* is taken for.                                                           *)
LEMMA HeldStep ==
  ASSUME EInv, Next, NEW x \in Held', x # None
  PROVE  x \in Held \/ \E e \in Engines : TakeLease(e) /\ x = Newest(e)
<1>1. TypeOK /\ TypeOK' /\ \A e \in Engines : Owned(e) /\ Frames(e)
  BY TypeStep DEF EInv
<1>2. /\ \A e \in Engines : code[e] \in Held
      /\ \A e \in Engines : pc[e] = "build" => Newest(e) \in Held
      /\ \A i \in Ids : StateHeld(i) => cb[i].bound \in Held
      /\ old \subseteq Held /\ slices \subseteq Held
  BY DEF Held, OwnedLeases, Bindings
<1>3. \/ \E b \in Engines : x = code'[b]
      \/ x \in old' \/ x \in slices'
      \/ \E b \in Engines : pc'[b] = "build" /\ x = Newest(b)'
      \/ \E i \in Ids : StateHeld(i)' /\ x = cb'[i].bound
  BY DEF Held, OwnedLeases, Bindings
<1>4. ASSUME NEW b \in Engines, x = code'[b] PROVE x \in Held
  <2>1. ASSUME NEW e \in Engines, Publish(e) PROVE x \in Held
    BY <1>1, <1>2, <1>4, <2>1 DEF Publish, TypeOK
  <2>2. ASSUME NEW e \in Engines, Unload(e) \/ Ends(e) PROVE x \in Held
    BY <1>1, <1>2, <1>4, <2>2 DEF Unload, Ends, ContextDestroy, DropEngine, Emptied, TypeOK
  <2> QED
    BY <1>2, <1>4, <2>1, <2>2, Movers
<1>5. ASSUME x \in old' PROVE x \in Held
  <2>1. ASSUME NEW e \in Engines, Publish(e) \/ Unload(e) \/ Ends(e) PROVE x \in Held
    BY <1>2, <1>5, <2>1 DEF Publish, Unload, Ends, ContextDestroy, DropEngine, Emptied
  <2> QED
    BY <1>2, <1>5, <2>1, Movers
<1>6. ASSUME x \in slices' PROVE x \in Held
  <2>1. ASSUME NEW e \in Engines, DropSlice(e) PROVE x \in Held
    BY <1>2, <1>6, <2>1 DEF DropSlice
  <2>2. ASSUME NEW e \in Engines, Return(e) PROVE x \in Held
    <3>1. OriRuns(e) /\ (x \in slices \/ x = Last(stack[e]).code)
      BY <1>6, <2>2 DEF Return
    <3>2. PICK n \in DOMAIN stack[e] : Last(stack[e]) = stack[e][n]
            /\ stack[e][n] \in CallFrames /\ e \in live
      BY <1>1, <3>1, TopCall, StackOf
    <3>3. Last(stack[e]).code = code[e]
      BY <1>1, <3>2 DEF Frames, CallFrame, CallFrames
    <3> QED
      BY <1>2, <3>1, <3>3
  <2> QED
    BY <1>2, <1>6, <2>1, <2>2, Movers
<1>7. ASSUME NEW b \in Engines, pc'[b] = "build", x = Newest(b)'
      PROVE  x \in Held \/ \E e \in Engines : TakeLease(e) /\ x = Newest(e)
  <2>1. ASSUME NEW e \in Engines, CompileInit(e) PROVE x \in Held
    <3>1. b # e /\ pc'[b] = pc[b]
      BY <1>1, <1>7, <2>1 DEF CompileInit, TypeOK
    <3>2. compiled'[b] = compiled[b]
      BY <1>1, <2>1, <3>1, CountMoves DEF CompileInit
    <3> QED
      BY <1>2, <1>7, <3>1, <3>2 DEF Newest
  <2>2. ASSUME NEW e \in Engines, TakeLease(e)
        PROVE  x \in Held \/ (TakeLease(e) /\ x = Newest(e))
    <3>1. compiled' = compiled /\ (b # e => pc'[b] = pc[b])
      BY <1>1, <2>2 DEF TakeLease, TypeOK
    <3> QED
      BY <1>2, <1>7, <2>2, <3>1 DEF Newest
  <2>3. ASSUME NEW e \in Engines, Publish(e) \/ CompileFails(e) PROVE x \in Held
    <3>1. compiled' = compiled /\ b # e /\ pc'[b] = pc[b]
      BY <1>1, <1>7, <2>3 DEF Publish, CompileFails, TypeOK
    <3> QED
      BY <1>2, <1>7, <3>1 DEF Newest
  <2>4. ASSUME NEW e \in Engines, RegisterCallback(e) PROVE x \in Held
    <3>1. compiled'[b].codes = compiled[b].codes /\ pc' = pc
      BY <1>1, <2>4, CountMoves DEF RegisterCallback
    <3> QED
      BY <1>2, <1>7, <3>1 DEF Newest
  <2>5. CASE UNCHANGED <<compiled, pc>>
    BY <1>2, <1>7, <2>5 DEF Newest
  <2> QED
    BY <2>1, <2>2, <2>3, <2>4, <2>5, Movers DEF Compiles
<1>8. ASSUME NEW i \in Ids, StateHeld(i)', x = cb'[i].bound PROVE x \in Held
  <2>1. CASE cb'[i].bound = cb[i].bound
    BY <1>2, <1>8, <2>1, StateHeldStep
  <2>2. ASSUME NEW e \in Engines, Publish(e), cb'[i].bound = Newest(e) PROVE x \in Held
    BY <1>2, <1>8, <2>2 DEF Publish
  <2> QED
    BY <2>1, <2>2, BoundStep
<1> QED
  BY <1>3, <1>4, <1>5, <1>6, <1>7, <1>8

(* How a step moves the leases and the runtime. *)
LEMMA LeaseMoves ==
  ASSUME Next
  PROVE  \/ leases' = leases /\ lifecycle' = lifecycle /\ raced' = raced /\ closing' = closing
         \/ \E t \in Threads : Settle(t)
         \/ \E e \in Engines : TakeLease(e) \/ CompileFails(e) \/ CompileInit(e)
         \/ \E t \in Threads : ShutdownBegin(t) \/ ShutdownEnd(t)
<1>1. Engines \subseteq Threads /\ Workers \subseteq Threads
  BY DEF Threads
<1>2. ASSUME NEW e \in Engines, Host(e)
      PROVE  \/ leases' = leases /\ lifecycle' = lifecycle /\ raced' = raced /\ closing' = closing
             \/ Settle(e) \/ TakeLease(e) \/ CompileFails(e) \/ CompileInit(e)
  BY <1>2 DEF Host, RegisterCallback, RemoveCallback, Publish, Unload, Resolve, ReleaseHandle,
     DropSlice, Cancel, ResetCancellation, ContextDestroy, DropEngine, Emptied, ThreadEnds,
     Call, OriError, Invoke, CallbackReturns, Return, runtime
<1>3. ASSUME NEW w \in Workers, Task(w)
      PROVE  \/ leases' = leases /\ lifecycle' = lifecycle /\ raced' = raced /\ closing' = closing
             \/ Settle(w)
  BY <1>3 DEF Task, Spawn, TaskAcquires, TaskChecks, TaskReturns, TaskReleases, TaskReadsOrphan,
     TaskRemoves, TaskEnds, runtime
<1>4. ASSUME NEW i \in Ids, StoreArrives(i)
      PROVE  leases' = leases /\ lifecycle' = lifecycle /\ raced' = raced /\ closing' = closing
  BY <1>4 DEF StoreArrives, runtime
<1> QED
  BY <1>1, <1>2, <1>3, <1>4 DEF Next

(* The lease that is given up after a failed compilation is not held. *)
LEMMA FailedIsFree ==
  ASSUME EInv, Next, NEW e \in Engines, CompileFails(e)
  PROVE  Newest(e) \notin Held'
<1>1. TypeOK /\ Codings /\ Owned(e) /\ pc[e] = "build"
  BY DEF EInv, CompileFails
<1>2. Newest(e) \in Codes /\ Newest(e)[1] = e /\ Newest(e)[2] = compiled[e].codes
        /\ compiled[e].codes \in Nat
  BY <1>1, NewestIsCode, CountMoves
<1>3. ~Over(Newest(e)) /\ Newest(e) # None
  BY <1>1, <1>2, Pairs DEF Over
<1>4. /\ UNCHANGED <<code, old, cb, slices, compiled, work, uses>>
      /\ pc' = [pc EXCEPT ![e] = "idle"]
  BY DEF CompileFails, registry
<1>5. ASSUME NEW b \in Engines, pc'[b] = "build" PROVE Newest(b)' # Newest(e)
  BY <1>1, <1>4, <1>5 DEF TypeOK, Newest
<1>6. \A b \in Engines : code[b] # None => Over(code[b])
  BY <1>1 DEF Codings
<1>7. \A c \in old \cup slices : Over(c)
  BY <1>1 DEF Codings
<1>8. \A i \in Ids : cb[i].bound # None => Over(cb[i].bound)
  BY <1>1 DEF Codings
<1>9. ASSUME NEW x \in Held' PROVE x # Newest(e)
  <2>1. \/ \E b \in Engines : x = code'[b]
        \/ x \in old' \/ x \in slices'
        \/ \E b \in Engines : pc'[b] = "build" /\ x = Newest(b)'
        \/ \E i \in Ids : x = cb'[i].bound
    BY <1>9 DEF Held, OwnedLeases, Bindings
  <2> QED
    BY <1>3, <1>4, <1>5, <1>6, <1>7, <1>8, <2>1
<1> QED
  BY <1>9

(* What needs the runtime keeps a lease, and leases keep the runtime. *)
LEMMA LeasesStep ==
  ASSUME EInv, Next
  PROVE  Leases'
<1>1. TypeOK /\ Leases
  BY DEF EInv
<1>2. ASSUME NEW x \in Held', x # None PROVE x \in leases'
  <2>1. ASSUME NEW e \in Engines, TakeLease(e) PROVE leases' = leases \cup {Newest(e)}
    BY <2>1 DEF TakeLease
  <2>2. x \in Held => x \in leases
    BY <1>1, <1>2 DEF Leases
  <2>3. CASE \E e \in Engines : TakeLease(e)
    BY <1>2, <2>1, <2>2, <2>3, HeldStep
  <2>4. ASSUME ~\E e \in Engines : TakeLease(e) PROVE x \in leases'
    <3>1. x \in leases
      BY <1>2, <2>2, <2>4, HeldStep
    <3>2. ASSUME NEW t \in Threads, Settle(t) PROVE x \in leases'
      BY <1>2, <3>1, <3>2 DEF Settle, Drop
    <3>3. ASSUME NEW e \in Engines, CompileFails(e) PROVE x \in leases'
      <4>1. leases' = leases \ {Newest(e)}
        BY <3>3 DEF CompileFails, Drop
      <4> QED
        BY <1>2, <3>1, <3>3, <4>1, FailedIsFree
    <3>4. ASSUME NEW e \in Engines, CompileInit(e) PROVE leases' = leases
      BY <3>4 DEF CompileInit
    <3>5. ASSUME NEW t \in Threads, ShutdownBegin(t) \/ ShutdownEnd(t) PROVE leases' = leases
      BY <3>5 DEF ShutdownBegin, ShutdownEnd
    <3> QED
      BY <2>4, <3>1, <3>2, <3>3, <3>4, <3>5, LeaseMoves
  <2> QED
    BY <2>3, <2>4
<1>3. ASSUME ~raced', leases' # {}
      PROVE  lifecycle' = "Running" /\ \A t \in Threads : closing'[t] = "no"
  <2>1. ~raced /\ leases # {} => lifecycle = "Running" /\ \A t \in Threads : closing[t] = "no"
    BY <1>1 DEF Leases
  <2>2. ASSUME NEW t \in Threads, NEW kept \in SUBSET leases, Drop(t, kept)
        PROVE  lifecycle' = "Running" /\ \A u \in Threads : closing'[u] = "no"
    BY <1>3, <2>1, <2>2 DEF Drop
  <2>3. ASSUME NEW t \in Threads, Settle(t)
        PROVE  lifecycle' = "Running" /\ \A u \in Threads : closing'[u] = "no"
    BY <2>2, <2>3 DEF Settle
  <2>4. ASSUME NEW e \in Engines, CompileFails(e)
        PROVE  lifecycle' = "Running" /\ \A u \in Threads : closing'[u] = "no"
    <3>1. e \in Threads
      BY DEF Threads
    <3> QED
      BY <2>2, <2>4, <3>1 DEF CompileFails
  <2>5. ASSUME NEW e \in Engines, TakeLease(e)
        PROVE  lifecycle' = "Running" /\ \A u \in Threads : closing'[u] = "no"
    BY <1>3, <2>5 DEF TakeLease
  <2>6. ASSUME NEW e \in Engines, CompileInit(e)
        PROVE  lifecycle' = "Running" /\ \A u \in Threads : closing'[u] = "no"
    BY <1>3, <2>1, <2>6 DEF CompileInit
  <2>7. ASSUME NEW t \in Threads, ShutdownBegin(t) \/ ShutdownEnd(t)
        PROVE  FALSE
    BY <1>3, <2>1, <2>7 DEF ShutdownBegin, ShutdownEnd
  <2>8. CASE leases' = leases /\ lifecycle' = lifecycle /\ raced' = raced /\ closing' = closing
    BY <1>3, <2>1, <2>8
  <2> QED
    BY <2>3, <2>4, <2>5, <2>6, <2>7, <2>8, LeaseMoves
<1> QED
  BY <1>2, <1>3 DEF Leases

-----------------------------------------------------------------------------
(* No engine has compiled anything yet, so everything is empty. *)
LEMMA EmbedInit == Init => EInv
<1>1. SUFFICES ASSUME Init PROVE EInv
  OBVIOUS
<1>2. TypeOK
  <2>1. cb \in [Ids -> Registrations]
    BY <1>1 DEF Init, Unregistered, Registrations
  <2>2. module \in [Engines -> Modules] /\ compiled \in [Engines -> Counts]
    BY <1>1 DEF Init, NoModule, Modules, Counts
  <2>3. work \in [Workers -> Tasks]
    BY <1>1 DEF Init, Tasks
  <2>4. stack \in [Engines -> Seq(CallFrames \cup CallbackFrames)]
    BY <1>1, EmptySeq DEF Init
  <2>5. \A e \in Engines : compiled[e].codes <= MaxCode[e] /\ compiled[e].ids <= MaxIds[e]
    BY <1>1, BoundsAreNatural DEF Init, BoundsAreNatural
  <2>6. {cbErr, hostErr, cancelled} \subseteq [Engines -> BOOLEAN]
    BY <1>1 DEF Init
  <2> QED
    BY <1>1, <2>1, <2>2, <2>3, <2>4, <2>5, <2>6 DEF Init, TypeOK
<1>3. ASSUME NEW e \in Engines PROVE Owned(e) /\ Resolved(e) /\ Frames(e)
  <2>1. stack[e] = <<>> /\ code[e] = None /\ named[e] = None /\ pc[e] = "idle" /\ handle[e] = None
    BY <1>1 DEF Init
  <2>2. DOMAIN stack[e] = {} /\ Len(stack[e]) = 0
    BY <1>2, <2>1, StackOf, EmptySeq
  <2> QED
    BY <2>1, <2>2 DEF Owned, Resolved, Frames, Alternate
<1>4. Codings
  BY <1>1 DEF Init, Codings, Unregistered, InCallback
<1>5. ASSUME NEW c \in Codes PROVE Baked(c)
  BY <1>1 DEF Init, Baked
<1>6. ASSUME NEW i \in Ids PROVE Callback(i)
  <2>1. i[1] \in Engines /\ stack[i[1]] = <<>>
    BY <1>1, Pairs DEF Init
  <2>2. OnStack(i) = {}
    BY <1>2, <2>1, StackOf, EmptySeq DEF OnStack, CallbacksIn
  <2>3. OnWorkers(i) = {}
    BY <1>1 DEF Init, OnWorkers
  <2>4. Cardinality(OnStack(i)) = 0 /\ Cardinality(OnWorkers(i)) = 0
    BY <2>2, <2>3, FS_EmptySet
  <2>5. cb[i] = Unregistered
    BY <1>1 DEF Init
  <2>6. ~cb[i].mapped /\ cb[i].active = 0
    BY <2>5 DEF Unregistered
  <2> QED
    BY <2>4, <2>5, <2>6 DEF Callback, Counted, Leaks
<1>7. Leases
  BY <1>1 DEF Init, Leases, Held, OwnedLeases, Bindings, Unregistered
<1> QED
  BY <1>2, <1>3, <1>4, <1>5, <1>6, <1>7 DEF EInv

\* EInv is inductive: every action of engines, workers and host threads keeps it.
LEMMA EmbedNext == EInv /\ [Next]_vars => EInv'
<1>1. ASSUME EInv, Next PROVE EInv'
  <2>1. TypeOK'
    BY <1>1, TypeStep
  <2>2. (\A e \in Engines : Owned(e) /\ Resolved(e) /\ Frames(e))'
    BY <1>1, OwnedStep, ResolvedStep, FramesStep
  <2>3. Codings' /\ Leases'
    BY <1>1, CodingsStep, LeasesStep
  <2>4. (\A c \in Codes : Baked(c))'
    BY <1>1, BakedStep
  <2>5. (\A i \in Ids : Callback(i))'
    BY <1>1, CallbackStep
  <2> QED
    BY <2>1, <2>2, <2>3, <2>4, <2>5 DEF EInv
<1>2. ASSUME EInv, UNCHANGED vars PROVE EInv'
  <2>1. /\ UNCHANGED <<lifecycle, attached, leases, closing, raced, cb, named, box, module, code,
             old>>
        /\ UNCHANGED <<uses, compiled, pc, stack, cbErr, hostErr, handle, slices, cancelled, live,
             work>>
    BY <1>2 DEF vars, runtime, registry, modules, calls
  <2>2. TypeOK' <=> TypeOK
    BY <2>1 DEF TypeOK
  <2>3. ASSUME NEW e \in Engines
        PROVE  (Owned(e)' <=> Owned(e)) /\ (Resolved(e)' <=> Resolved(e))
                 /\ (Frames(e)' <=> Frames(e))
    BY <2>1 DEF Owned, Resolved, Frames, CallFrame, Over, Traps
  <2>4. (Codings' <=> Codings) /\ \A c \in Codes : Baked(c)' <=> Baked(c)
    BY <2>1 DEF Codings, Over, InCallback, IdOf, Baked
  <2>5. \A i \in Ids : Callback(i)' <=> Callback(i)
    BY <2>1 DEF Callback, Counted, OnStack, OnWorkers, IdOf, Leaks
  <2>6. Leases' <=> Leases
    BY <2>1 DEF Leases, Held, OwnedLeases, Newest, Bindings, StateHeld
  <2> QED
    BY <1>2, <2>2, <2>3, <2>4, <2>5, <2>6 DEF EInv
<1> QED
  BY <1>1, <1>2

\* EInv holds in every reachable state.
LEMMA EmbedAlways == Spec => []EInv
  BY EmbedInit, EmbedNext, PTL DEF Spec

(* Types: every lease, binding and frame names a code that was numbered,   *)
(* and every count is a number.                                            *)
THEOREM EmbedTypeCorrect == Spec => []TypeOK
<1>1. EInv => TypeOK
  BY DEF EInv
<1> QED
  BY <1>1, EmbedAlways, PTL

(* While host callback code runs, on the owner's stack or on a worker, its *)
(* C box is there: ori_embed_unregister_callback and context_destroy are   *)
(* refused until the last call of it is out.                               *)
THEOREM CallbacksStayAlive == Spec => []CallbackAlive
<1>1. EInv => CallbackAlive
  <2>1. SUFFICES ASSUME EInv PROVE CallbackAlive
    OBVIOUS
  <2>2. TypeOK /\ Codings /\ (\A e \in Engines : Frames(e)) /\ \A i \in Ids : Callback(i)
    BY <2>1 DEF EInv
  <2>3. ASSUME NEW e \in Engines, NEW k \in DOMAIN stack[e], stack[e][k].k = "cb"
        PROVE  stack[e][k].id \in box
    <3>1. PICK i \in Ids : i = stack[e][k].id /\ i[1] = e
      BY <2>2, <2>3, StackOf DEF Frames, CallbackFrames
    <3>2. k \in OnStack(i)
      BY <2>3, <3>1 DEF OnStack, CallbacksIn
    <3>3. cb[i].active > 0
      BY <2>2, <3>2, Inside DEF Callback
    <3> QED
      BY <2>2, <3>1, <3>3 DEF Callback
  <2>4. ASSUME NEW w \in Workers, work[w].pc = "cb" PROVE IdOf(w) \in box
    <3>1. PICK i \in Ids : i = IdOf(w)
      BY <2>2, <2>4 DEF Codings, InCallback
    <3>2. w \in OnWorkers(i)
      BY <2>4, <3>1 DEF OnWorkers
    <3>3. cb[i].active > 0
      BY <2>2, <3>2, Inside DEF Callback
    <3> QED
      BY <2>2, <3>1, <3>3 DEF Callback
  <2> QED
    BY <2>3, <2>4 DEF CallbackAlive
<1> QED
  BY <1>1, EmbedAlways, PTL

(* The drop of an engine and the last release of its callback leave the    *)
(* entry of the process-wide map to each other in one way only: the last   *)
(* release reads `orphaned' between the drop's read of the count and the   *)
(* arrival of its store.  However else the release's decrement, its read   *)
(* and its removal fall around the drop, the entry goes.                   *)
THEOREM NoCallbackIsLeaked == Spec => []NoCallbackLeak
<1>1. EInv => NoCallbackLeak
  BY DEF EInv, Callback, Leaks, NoCallbackLeak
<1> QED
  BY <1>1, EmbedAlways, PTL

(* A handle that is still accepted runs the code it was resolved to, after *)
(* any number of compilations and unloads: module ids are never used again *)
(* and generations only grow within one id.                                *)
THEOREM HandlesRunTheirCode == Spec => []HandleRunsItsCode
<1>1. EInv => HandleRunsItsCode
  BY DEF EInv, Frames, CallFrame, HandleRunsItsCode
<1> QED
  BY <1>1, EmbedAlways, PTL

(* The two error slots of a thread decide a call's outcome, and for a call *)
(* without nested calls they hold exactly its own failures.                *)
THEOREM OutcomesAreExact == Spec => []OutcomeExact
<1>1. EInv => OutcomeExact
  <2>1. SUFFICES ASSUME EInv, NEW e \in Engines, OriRuns(e), ~Last(stack[e]).nested
                 PROVE  Traps(e) <=> Last(stack[e]).failed
    BY DEF OutcomeExact
  <2>2. TypeOK /\ Frames(e)
    BY <2>1 DEF EInv
  <2>3. PICK n \in DOMAIN stack[e] : Last(stack[e]) = stack[e][n] /\ stack[e][n] \in CallFrames
    BY <2>1, <2>2, TopCall, StackOf
  <2>4. CallFrame(e, n) /\ stack[e][n].k = "call"
    BY <2>2, <2>3 DEF Frames, CallFrames
  <2> QED
    BY <2>1, <2>3, <2>4 DEF CallFrame
<1> QED
  BY <1>1, EmbedAlways, PTL

(* A module, a returned slice or a callback's binding keeps the shared     *)
(* runtime running, for any number of engines, unless a lease was taken    *)
(* from under a shutdown.                                                  *)
THEOREM HeldLeasesKeepRunning == Spec => []HeldMeansRunning
<1>1. EInv => HeldMeansRunning
  <2>1. SUFFICES ASSUME EInv, ~raced,
                        \/ \E e \in Engines : code[e] # None
                        \/ slices # {}
                        \/ \E i \in Ids : StateHeld(i) /\ cb[i].bound # None
                 PROVE  lifecycle = "Running"
    BY DEF HeldMeansRunning
  <2>2. TypeOK /\ Leases /\ None \notin Codes
    BY <2>1, Pairs DEF EInv
  <2>3. \E x \in Held : x # None
    <3>1. /\ \A e \in Engines : code[e] \in Held
          /\ slices \subseteq Held
          /\ \A i \in Ids : StateHeld(i) => cb[i].bound \in Held
      BY DEF Held, OwnedLeases, Bindings
    <3>2. \A x \in slices : x # None
      BY <2>2 DEF TypeOK
    <3> QED
      BY <2>1, <3>1, <3>2
  <2> QED
    BY <2>1, <2>2, <2>3 DEF Leases
<1> QED
  BY <1>1, EmbedAlways, PTL

=============================================================================

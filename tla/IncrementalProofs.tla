-------------------------- MODULE IncrementalProofs --------------------------
(***************************************************************************)
(* Proofs about Incremental, for every set of modules, builders, facets,   *)
(* environments and inodes and every bound.                                *)
(*                                                                         *)
(* A torn record is read only while its writer is at work, unless a build  *)
(* may die, and a garbled one only where builds of different outputs       *)
(* overlap; the modules of an output always agree on their interfaces; and *)
(* under the conditions Tame the output a build hands out is the one a     *)
(* build from nothing makes.                                               *)
(***************************************************************************)
EXTENDS Incremental, TLAPS

(* What the steps of a builder rely on: the key of the module it compiles  *)
(* has been computed, the modules it is done with have an object, the file *)
(* it is about to fill is open and the body made; and a builder that       *)
(* compiles into the cache, or records, has not disabled it.               *)
LocalOK(b) ==
  /\ pc[b] = "write" => fd[b] \in Inodes
  /\ pc[b] \in {"write", "rename"} => body[b] \in Record /\ body[b].output = opt[b]
  /\ pc[b] \in Modules \cup {"emit", "record", "write", "rename"} => mode[b] = "cached"
  /\ pc[b] \in Modules => key[b][pc[b]] \in Keys
  /\ pc[b] \in Modules \cup {"emit"} =>
       \A m \in Modules \ todo[b] : key[b][m] \in DOMAIN objects

Locals == \A b \in Builders : LocalOK(b)

(* A truncated file that is the record, or will be, is open for writing. *)
TornIsOpen ==
  "abort" \notin env =>
    \A i \in {tmp, rec} \ {None} :
      data[i] = Torn => \E b \in Builders : pc[b] = "write" /\ fd[b] = i

IInv == TypeOK /\ Locals /\ TornIsOpen

(* Builds that use the cache. *)
Active(b) == pc[b] # "idle" /\ mode[b] = "cached"

(* Where builds of different outputs do not overlap: the builders at work  *)
(* make one output, and a file that is open holds nothing or a record of   *)
(* the length that its writer is about to put there.                       *)
Alike == \A b, c \in Builders : Active(b) /\ Active(c) => opt[b] = opt[c]
Tails ==
  \A b \in Builders :
    pc[b] = "write" => data[fd[b]] = Torn \/ data[fd[b]].output = opt[b]
Whole == \A i \in Inodes : data[i] # Garbled

GInv == "mixed" \notin env => Alike /\ Tails /\ Whole

(* An object implements, of its own module, the interface that its key     *)
(* digests; every key of a build digests the interface the build loaded,   *)
(* whatever the files have become since.                                   *)
Implements(x, k) == x.sigs = k[3] /\ x.own["sig"] = k[3][k[1]]
Names(k, m, s) == k[1] = m /\ k[3] = Interface(s)
Named(b) ==
  /\ pc[b] \in Modules => Names(key[b][pc[b]], pc[b], snap[b])
  /\ pc[b] \in Modules \cup {"emit"} =>
       \A m \in Modules \ todo[b] : Names(key[b][m], m, snap[b])

KInv ==
  /\ \A k \in DOMAIN objects : objects[k] # Torn => Implements(objects[k], k)
  /\ \A b \in Builders : Named(b)
  /\ LinkedInterfacesAgree

(* A complete object is what its key names. *)
ObjectsMatchKeys ==
  \A k \in DOMAIN objects :
    objects[k] # Torn => objects[k].own = k[2] /\ objects[k].sigs = k[3]

(* Where nobody edits while a build runs, what a builder has read is what  *)
(* the files still hold, and the keys it has computed are those of the     *)
(* sources.                                                                *)
Shape(b) ==
  /\ pc[b] \notin {"idle", "load"} => snap[b] = src
  /\ pc[b] \in Modules => key[b][pc[b]] = Key(pc[b], src[pc[b]], src)
  /\ pc[b] \in Modules \cup {"emit"} =>
       \A m \in Modules \ todo[b] : key[b][m] = Key(m, src[m], src)

SInv == Steady => ObjectsMatchKeys /\ \A b \in Builders : Shape(b)

(* Where a builder stores its record, and where it has linked. *)
Writing == {"write", "rename"}
Linked == {"record"} \cup Writing

(* Then nothing is inlined across modules, and what a build from nothing   *)
(* makes does not depend on env.                                           *)
Plain(s, p) ==
  [m \in Modules |-> [own |-> s[m], probes |-> p, sigs |-> Interface(s),
                      embeds |-> [n \in Modules |-> s[n]["embed"]],
                      inlined |-> [n \in Modules |-> 0]]]

ResultsPlain ==
  \A b \in Builders :
    result[b] # None =>
      result[b].output = opt[b] /\ result[b].code = Plain(src, result[b].probes)

(* Under Tame a builder that has linked an output finds in it what a build from  *)
(* nothing makes, and the body it writes describes the sources.            *)
Made(b) ==
  /\ mode[b] # "instrument" /\ ("bypass" \notin env => mode[b] = "cached")
  /\ pc[b] \in Modules \cup {"emit"} => opt[b] = "exe" /\ mode[b] = "cached"
  /\ pc[b] \in Linked => mode[b] = "cached" /\ out[opt[b]] = Plain(src, FALSE)
  /\ pc[b] \in Writing => body[b].output = opt[b] /\ body[b].graph = Graph

(* No object carries debug probes or anything embedded from elsewhere. *)
NoEmbeds ==
  /\ \A m \in Modules : src[m]["embed"] = 0
  /\ \A k \in DOMAIN objects :
       objects[k] # Torn => /\ objects[k].probes = FALSE
                            /\ objects[k].embeds = [n \in Modules |-> 0]
                            /\ objects[k].inlined = [n \in Modules |-> 0]

(* Where no text comes back, versions only grow: a record that describes   *)
(* the sources was written since the last edit.                            *)
Fresh(r) == Reusable /\ r.graph = src => out[r.output] = Plain(src, FALSE)
Bounded(g) == \A m \in DOMAIN g : \A f \in AllFacets : g[m][f] <= edits
Forward ==
  /\ Bounded(src)
  /\ \A i \in Inodes : Readable(data[i]) => Bounded(data[i].graph) /\ Fresh(data[i])

(* Where a text may come back, the record describes the output it names,   *)
(* whatever the sources; or it does not describe the sources and a builder *)
(* that has linked is about to replace it.                                 *)
Current(r) == r.graph = Graph /\ out[r.output] = Plain(src, FALSE)
Now(i) == Readable(data[i]) => Current(data[i])
Sound(r) == Reusable => out[r.output] = Plain(r.graph, FALSE)
Busy == \E b \in Builders : pc[b] \in Writing
Pending == \E b \in Builders : pc[b] \in Linked
Backward ==
  /\ tmp # None => Now(tmp) /\ Busy
  /\ tmp = None /\ Busy => rec # None /\ Now(rec)
  /\ rec # None /\ Readable(data[rec]) =>
       Sound(data[rec]) \/ (Pending /\ data[rec].graph # Graph)

Records == IF "revert" \in env THEN Backward ELSE Forward

BInv ==
  Tame => ResultsPlain /\ NoEmbeds /\ (\A b \in Builders : Made(b)) /\ Records

-----------------------------------------------------------------------------
(* The operators the model is built from. *)

(* A label is not a module: a builder that compiles is at no other label. *)
LEMMA LabelsApart ==
  ASSUME NEW l \in Labels
  PROVE  l \notin Modules
BY IncrementalAssumption

(* The digest of the signatures of a program (interface_fingerprint). *)
LEMMA InterfaceType ==
  ASSUME NEW s \in Sources
  PROVE  Interface(s) \in [Modules -> Nat]
BY DEF Interface, Sources, Source, AllFacets

(* The name of an object file (module_artifact_path). *)
LEMMA KeyType ==
  ASSUME NEW m \in Modules, NEW c \in Source, NEW s \in Sources
  PROVE  /\ Key(m, c, s) \in Keys /\ Key(m, c, s)[1] = m
         /\ Key(m, c, s)[2] = c /\ Key(m, c, s)[3] = Interface(s)
BY InterfaceType DEF Key, Keys

(* The object that code generation makes of a module. *)
LEMMA ObjectType ==
  ASSUME NEW s \in Sources, NEW m \in Modules, NEW p \in BOOLEAN
  PROVE  /\ Object(s, m, p) \in ObjectFile
         /\ Object(s, m, p).own = s[m] /\ Object(s, m, p).probes = p
         /\ Object(s, m, p).sigs = Interface(s)
         /\ Object(s, m, p).embeds = [n \in Modules |-> s[n]["embed"]]
         /\ "aggressive" \notin env => Object(s, m, p).inlined = [n \in Modules |-> 0]
<1>1. s[m] \in Source
  BY DEF Sources
<1>2. [n \in Modules |-> s[n]["embed"]] \in [Modules -> Nat]
  BY DEF Sources, Source, AllFacets
<1>3. PICK f \in [Modules -> Nat] :
        f = [n \in Modules |-> IF "aggressive" \in env THEN s[n]["body"] ELSE 0]
  BY DEF Sources, Source, AllFacets
<1>4. "aggressive" \notin env => f = [n \in Modules |-> 0]
  BY <1>3
<1>5. Object(s, m, p) =
        [own |-> s[m], probes |-> p, sigs |-> Interface(s),
         embeds |-> [n \in Modules |-> s[n]["embed"]], inlined |-> f]
  BY <1>3 DEF Object
<1> QED
  BY <1>1, <1>2, <1>4, <1>5, InterfaceType DEF ObjectFile

(* A file that can be read is a record, and a record can be read. *)
LEMMA ReadableRecord ==
  /\ \A d \in Record \cup {Torn, Garbled} : Readable(d) => d \in Record
  /\ \A r \in Record : Readable(r)
  /\ ~Readable(Torn) /\ ~Readable(Garbled)
BY IncrementalAssumption DEF Readable

(* A whole program, built from nothing. *)
LEMMA CleanType ==
  ASSUME NEW s \in Sources, NEW p \in BOOLEAN
  PROVE  /\ Clean(s, p) \in [Modules -> ObjectFile]
         /\ \A m \in Modules : Clean(s, p)[m] = Object(s, m, p)
BY ObjectType DEF Clean

(* Without inlining across modules. *)
LEMMA PlainIsClean ==
  ASSUME "aggressive" \notin env
  PROVE  \A s, p : Clean(s, p) = Plain(s, p)
<1> SUFFICES ASSUME NEW s, NEW p PROVE Clean(s, p) = Plain(s, p)
  OBVIOUS
<1>1. [n \in Modules |-> IF "aggressive" \in env THEN s[n]["body"] ELSE 0] = [n \in Modules |-> 0]
  OBVIOUS
<1> QED
  BY <1>1, Zenon DEF Clean, Plain, Object

(* The inputs that the record digests: with a lockfile, or without         *)
(* dependencies, they are all the sources.                                 *)
LEMMA GraphType ==
  ASSUME src \in Sources, locked \in BOOLEAN
  PROVE  /\ Graph \in Sources \cup [Modules \ Deps -> Source]
         /\ Reusable => Graph = src
<1>1. CASE locked
  BY <1>1, Zenon DEF Graph, Sources, Source, Reusable
<1>2. CASE ~locked
  <2>1. Graph = [m \in Modules \ Deps |-> src[m]]
    BY <1>2 DEF Graph
  <2>2. Graph \in [Modules \ Deps -> Source]
    BY <2>1 DEF Sources
  <2>3. ASSUME Deps = {} PROVE Graph = src
    BY <2>1, <2>3 DEF Sources
  <2> QED
    BY <1>2, <2>2, <2>3 DEF Reusable
<1> QED
  BY <1>1, <1>2

-----------------------------------------------------------------------------
(* The steps that several operations share. *)

(* The locals of the builders other than b. *)
Others(b) ==
  \A c \in Builders \ {b} :
    /\ pc'[c] = pc[c] /\ opt'[c] = opt[c] /\ mode'[c] = mode[c] /\ snap'[c] = snap[c]
    /\ todo'[c] = todo[c] /\ key'[c] = key[c] /\ fd'[c] = fd[c] /\ body'[c] = body[c]

(* The types of the locals that a process loses when it ends. *)
LocalTypes ==
  /\ snap \in [Builders -> Sources]
  /\ pc \in [Builders -> Labels \cup Modules]
  /\ mode \in [Builders -> Modes \cup {"cached"}]
  /\ todo \in [Builders -> SUBSET Modules]
  /\ key \in [Builders -> [Modules -> Keys \cup {None}]]
  /\ fd \in [Builders -> Modules \cup Inodes \cup {None}]
  /\ body \in [Builders -> Record \cup {None}]

(* The types of what the builders share. *)
SharedTypes ==
  /\ env \in Envs /\ locked \in BOOLEAN
  /\ src \in Sources
  /\ DOMAIN objects \subseteq Keys
  /\ \A k \in DOMAIN objects : objects[k] \in ObjectFile \cup {Torn}
  /\ out \in [Outputs -> [Modules -> ObjectFile] \cup {None}]
  /\ tmp \in Inodes \cup {None} /\ rec \in Inodes \cup {None}
  /\ data \in [Inodes -> Record \cup {Torn, Garbled}]
  /\ edits \in 0..MaxEdits /\ builds \in 0..MaxBuilds

(* A process that ends. *)
LEMMA ForgetDoes ==
  ASSUME TypeOK, NEW b \in Builders, Forget(b)
  PROVE  /\ LocalTypes'
         /\ pc'[b] = "idle" /\ mode'[b] = "cached"
         /\ \A c \in Builders \ {b} :
              /\ pc'[c] = pc[c] /\ mode'[c] = mode[c] /\ snap'[c] = snap[c]
              /\ todo'[c] = todo[c] /\ key'[c] = key[c] /\ fd'[c] = fd[c] /\ body'[c] = body[c]
<1>1. [m \in Modules |-> None] \in [Modules -> Keys \cup {None}]
  OBVIOUS
<1>2. key' \in [Builders -> [Modules -> Keys \cup {None}]]
  BY <1>1 DEF Forget, TypeOK
<1>3. /\ snap' \in [Builders -> Sources]
      /\ todo' \in [Builders -> SUBSET Modules]
      /\ fd' \in [Builders -> Modules \cup Inodes \cup {None}]
  BY DEF Forget, TypeOK
<1>4. /\ body' \in [Builders -> Record \cup {None}]
      /\ pc' \in [Builders -> Labels \cup Modules]
      /\ mode' \in [Builders -> Modes \cup {"cached"}]
  BY DEF Forget, Goto, TypeOK, Labels
<1>5. pc'[b] = "idle" /\ mode'[b] = "cached"
  BY DEF Forget, Goto, TypeOK
<1>6. ASSUME NEW c \in Builders \ {b}
      PROVE  /\ pc'[c] = pc[c] /\ mode'[c] = mode[c] /\ snap'[c] = snap[c]
             /\ todo'[c] = todo[c] /\ key'[c] = key[c] /\ fd'[c] = fd[c] /\ body'[c] = body[c]
  BY DEF Forget, Goto, TypeOK
<1> QED
  BY <1>2, <1>3, <1>4, <1>5, <1>6 DEF LocalTypes

(* A build that fails hands out nothing. *)
LEMMA NoResult ==
  ASSUME TypeOK, NEW b \in Builders, result' = [result EXCEPT ![b] = None]
  PROVE  /\ result' \in [Builders -> Result \cup {None}] /\ result'[b] = None
         /\ \A c \in Builders \ {b} : result'[c] = result[c]
BY DEF TypeOK

(* A build that succeeds hands out the output it made, or found. *)
LEMMA SucceedDoes ==
  ASSUME TypeOK, NEW b \in Builders, NEW o \in Outputs, Succeed(b, o),
         out' \in [Outputs -> [Modules -> ObjectFile] \cup {None}]
  PROVE  /\ Forget(b) /\ result' \in [Builders -> Result \cup {None}]
         /\ result'[b].output = o /\ result'[b].code = out'[o]
         /\ result'[b].probes = (mode[b] = "instrument")
         /\ \A c \in Builders \ {b} : result'[c] = result[c]
<1>1. PICK p \in BOOLEAN : p = (mode[b] = "instrument")
  OBVIOUS
<1>2. PICK v \in [Modules -> ObjectFile] \cup {None} : v = out'[o]
  OBVIOUS
<1>3. PICK r \in Result : r = [output |-> o, code |-> v, probes |-> p]
  BY DEF Result
<1>4. r.output = o /\ r.code = v /\ r.probes = p
  BY <1>3
<1>5. Forget(b) /\ result' = [result EXCEPT ![b] = r]
  BY <1>1, <1>2, <1>3, Zenon DEF Succeed
<1>6. /\ result' \in [Builders -> Result \cup {None}] /\ result'[b] = r
      /\ \A c \in Builders \ {b} : result'[c] = result[c]
  BY <1>5 DEF TypeOK
<1> QED
  BY <1>1, <1>2, <1>4, <1>5, <1>6, Zenon

(* The locals of the other builders go on being right. *)
LEMMA LocalsKept ==
  ASSUME TypeOK, Locals, NEW b \in Builders, Others(b),
         DOMAIN objects \subseteq DOMAIN objects', LocalOK(b)'
  PROVE  Locals'
<1>1. ASSUME NEW c \in Builders, c # b PROVE LocalOK(c)'
  <2>1. LocalOK(c)
    BY DEF Locals
  <2>2. /\ pc'[c] = pc[c] /\ todo'[c] = todo[c] /\ key'[c] = key[c] /\ fd'[c] = fd[c]
        /\ body'[c] = body[c] /\ opt'[c] = opt[c] /\ mode'[c] = mode[c]
    BY <1>1 DEF Others
  <2> QED
    BY <2>1, <2>2 DEF LocalOK
<1> QED
  BY <1>1 DEF Locals

(* A builder that does not write the record leaves it open for the others. *)
LEMMA TornKept ==
  ASSUME TornIsOpen, NEW b \in Builders, Others(b), UNCHANGED <<env, tmp, rec, data>>,
         pc[b] = "write" => "abort" \in env
  PROVE  TornIsOpen'
<1> SUFFICES ASSUME "abort" \notin env, NEW i \in {tmp, rec} \ {None}, data[i] = Torn
             PROVE  \E c \in Builders : pc'[c] = "write" /\ fd'[c] = i
  BY DEF TornIsOpen
<1>1. PICK c \in Builders : pc[c] = "write" /\ fd[c] = i
  BY DEF TornIsOpen
<1> QED
  BY <1>1 DEF Others

(* Every way for a builder to stop without a change to the files. *)
LEMMA StopKeeps ==
  ASSUME IInv, NEW b \in Builders, Forget(b), UNCHANGED <<env, locked, files, edits>>,
         builds' \in 0..MaxBuilds, opt' \in [Builders -> Outputs],
         \A c \in Builders \ {b} : opt'[c] = opt[c],
         result' \in [Builders -> Result \cup {None}],
         pc[b] = "write" => "abort" \in env
  PROVE  IInv' /\ Others(b) /\ pc'[b] = "idle" /\ mode'[b] = "cached"
<1>1. TypeOK /\ Locals /\ TornIsOpen
  BY DEF IInv
<1>2. /\ LocalTypes' /\ Others(b) /\ pc'[b] = "idle" /\ mode'[b] = "cached"
  BY <1>1, ForgetDoes DEF Others
<1>3. TypeOK'
  <2>1. SharedTypes'
    BY <1>1 DEF files, TypeOK, SharedTypes
  <2> QED
    BY <1>2, <2>1 DEF TypeOK, LocalTypes, SharedTypes
<1>4. LocalOK(b)'
  <2>1. "idle" \notin Modules
    BY LabelsApart DEF Labels
  <2> QED
    BY <1>2, <2>1 DEF LocalOK
<1>5. Locals'
  BY <1>1, <1>2, <1>4, LocalsKept DEF files
<1>6. TornIsOpen'
  BY <1>1, <1>2, TornKept DEF files
<1> QED
  BY <1>2, <1>3, <1>5, <1>6 DEF IInv

-----------------------------------------------------------------------------
(* Types and the shared record: every step keeps IInv. *)

(* SaveSource *)
LEMMA SaveKeeps ==
  ASSUME IInv, NEW m \in Modules, NEW f \in Facets, NEW v \in Nat, SaveSource(m, f, v)
  PROVE  IInv'
<1>1. TypeOK /\ Locals /\ TornIsOpen
  BY DEF IInv
<1>2. src' \in Sources
  <2>1. f \in AllFacets /\ src \in Sources /\ src[m] \in Source
    BY <1>1, IncrementalAssumption DEF TypeOK, Sources
  <2>2. PICK t \in Source : t = [src[m] EXCEPT ![f] = v]
    BY <2>1 DEF Source
  <2>3. src' = [src EXCEPT ![m] = t]
    BY <2>2 DEF SaveSource
  <2> QED
    BY <2>1, <2>2, <2>3 DEF Sources
<1>3. edits' \in 0..MaxEdits
  BY <1>1, IncrementalAssumption DEF TypeOK, SaveSource
<1>4. /\ UNCHANGED <<env, locked, objects, out, tmp, rec, data, builds>>
      /\ UNCHANGED <<pc, opt, mode, snap, todo, key, fd, body>>
  BY DEF SaveSource, locals
<1>5. TypeOK'
  <2>1. result' \in [Builders -> Result \cup {None}]
    BY DEF SaveSource
  <2> QED
    BY <1>1, <1>2, <1>3, <1>4, <2>1 DEF TypeOK
<1>6. Locals'
  BY <1>1, <1>4 DEF Locals, LocalOK
<1>7. TornIsOpen'
  BY <1>1, <1>4 DEF TornIsOpen
<1> QED
  BY <1>5, <1>6, <1>7 DEF IInv

(* Begin: the steps that start a build. *)
LEMMA BeginDoes ==
  ASSUME TypeOK, NEW b \in Builders, NEW o \in Outputs, Begin(b, o)
  PROVE  /\ builds' \in 0..MaxBuilds /\ opt' \in [Builders -> Outputs]
         /\ opt'[b] = o /\ \A c \in Builders \ {b} : opt'[c] = opt[c]
         /\ pc[b] = "idle"
         /\ UNCHANGED <<env, locked, src, objects, out, tmp, rec, data, edits>>
<1>1. builds' \in 0..MaxBuilds
  BY IncrementalAssumption DEF Begin, TypeOK
<1> QED
  BY <1>1 DEF Begin, TypeOK, files

(* RecordUnreadable *)
LEMMA RecordUnreadableKeeps ==
  ASSUME IInv, NEW b \in Builders, NEW o \in Outputs, RecordUnreadable(b, o)
  PROVE  IInv' /\ Others(b)
<1>1. TypeOK /\ Begin(b, o) /\ Forget(b) /\ result' = [result EXCEPT ![b] = None]
  BY DEF IInv, RecordUnreadable, Fail
<1>2. result' \in [Builders -> Result \cup {None}]
  BY <1>1, NoResult
<1> QED
  BY <1>1, <1>2, BeginDoes, StopKeeps DEF files

(* Reuse *)
LEMMA ReuseKeeps ==
  ASSUME IInv, NEW b \in Builders, NEW o \in Outputs, Reuse(b, o)
  PROVE  IInv' /\ Others(b)
<1>1. TypeOK /\ Begin(b, o) /\ Succeed(b, o)
  BY DEF IInv, Reuse, Matches
<1>2. out' \in [Outputs -> [Modules -> ObjectFile] \cup {None}]
  BY <1>1, BeginDoes DEF TypeOK
<1>3. Forget(b) /\ result' \in [Builders -> Result \cup {None}]
  BY <1>1, <1>2, SucceedDoes
<1> QED
  BY <1>1, <1>3, BeginDoes, StopKeeps DEF files

(* A build that is not a reuse goes on to load the sources. *)
LEMMA StartKeeps ==
  ASSUME IInv, NEW b \in Builders, NEW o \in Outputs, Begin(b, o), Goto(b, "load"),
         mode' \in [Builders -> Modes \cup {"cached"}],
         \A c \in Builders \ {b} : mode'[c] = mode[c],
         result' = [result EXCEPT ![b] = None], UNCHANGED <<snap, todo, key, fd, body>>
  PROVE  IInv' /\ Others(b) /\ pc'[b] = "load"
<1>1. TypeOK /\ Locals /\ TornIsOpen
  BY DEF IInv
<1>2. /\ builds' \in 0..MaxBuilds /\ opt' \in [Builders -> Outputs]
      /\ \A c \in Builders \ {b} : opt'[c] = opt[c]
      /\ pc[b] = "idle"
      /\ UNCHANGED <<env, locked, src, objects, out, tmp, rec, data, edits>>
  BY <1>1, BeginDoes
<1>3. /\ pc' \in [Builders -> Labels \cup Modules] /\ pc'[b] = "load"
      /\ \A c \in Builders \ {b} : pc'[c] = pc[c]
  BY <1>1 DEF TypeOK, Goto, Labels
<1>4. Others(b)
  BY <1>2, <1>3 DEF Others
<1>5. TypeOK'
  BY <1>1, <1>2, <1>3, NoResult DEF TypeOK
<1>6. LocalOK(b)'
  <2>1. "load" \notin Modules
    BY LabelsApart DEF Labels
  <2> QED
    BY <1>3, <2>1 DEF LocalOK
<1>7. Locals'
  BY <1>1, <1>2, <1>4, <1>6, LocalsKept
<1>8. TornIsOpen'
  BY <1>1, <1>2, <1>4, TornKept
<1> QED
  BY <1>3, <1>4, <1>5, <1>7, <1>8 DEF IInv

(* Miss *)
LEMMA MissKeeps ==
  ASSUME IInv, NEW b \in Builders, NEW o \in Outputs, Miss(b, o)
  PROVE  IInv' /\ Others(b)
<1>1. /\ Begin(b, o) /\ Goto(b, "load") /\ result' = [result EXCEPT ![b] = None]
      /\ UNCHANGED <<mode, snap, todo, key, fd, body>>
  BY DEF Miss
<1>2. mode' \in [Builders -> Modes \cup {"cached"}] /\ \A c \in Builders \ {b} : mode'[c] = mode[c]
  BY <1>1 DEF IInv, TypeOK
<1> QED
  BY <1>1, <1>2, StartKeeps

(* Bypass *)
LEMMA BypassKeeps ==
  ASSUME IInv, NEW b \in Builders, NEW o \in Outputs, Bypass(b, o)
  PROVE  IInv' /\ Others(b)
<1>1. /\ Begin(b, o) /\ Goto(b, "load") /\ result' = [result EXCEPT ![b] = None]
      /\ UNCHANGED <<snap, todo, key, fd, body>>
  BY DEF Bypass
<1>2. PICK d \in Modes : mode' = [mode EXCEPT ![b] = d]
  BY DEF Bypass
<1>3. mode' \in [Builders -> Modes \cup {"cached"}] /\ \A c \in Builders \ {b} : mode'[c] = mode[c]
  BY <1>2 DEF IInv, TypeOK
<1> QED
  BY <1>1, <1>3, StartKeeps

(* Load *)
LEMMA LoadKeeps ==
  ASSUME IInv, NEW b \in Builders, Load(b)
  PROVE  IInv' /\ Others(b)
<1>1. TypeOK /\ Locals /\ TornIsOpen
  BY DEF IInv
<1>2. /\ UNCHANGED <<env, locked, src, objects, out, tmp, rec, data, edits, builds>>
      /\ UNCHANGED <<opt, mode, key, fd, body, result>>
  BY DEF Load, files
<1>3. /\ snap' \in [Builders -> Sources] /\ \A c \in Builders \ {b} : snap'[c] = snap[c]
  BY <1>1 DEF Load, TypeOK
<1>4. /\ todo' \in [Builders -> SUBSET Modules] /\ \A c \in Builders \ {b} : todo'[c] = todo[c]
      /\ pc' \in [Builders -> Labels \cup Modules] /\ \A c \in Builders \ {b} : pc'[c] = pc[c]
  <2>1. CASE opt[b] = "exe" /\ mode[b] = "cached" /\ "whole" \notin env
    BY <1>1, <2>1 DEF Load, TypeOK, Goto, Labels
  <2>2. CASE ~(opt[b] = "exe" /\ mode[b] = "cached" /\ "whole" \notin env)
    BY <1>1, <2>2 DEF Load, TypeOK, Goto, Labels
  <2> QED
    BY <2>1, <2>2
<1>5. Others(b)
  BY <1>2, <1>3, <1>4 DEF Others
<1>6. TypeOK'
  BY <1>1, <1>2, <1>3, <1>4 DEF TypeOK
<1>7. LocalOK(b)'
  <2>1. CASE opt[b] = "exe" /\ mode[b] = "cached" /\ "whole" \notin env
    <3>1. pc'[b] = "emit" /\ todo'[b] = Modules
      BY <1>1, <2>1 DEF Load, TypeOK, Goto
    <3>2. "emit" \notin Modules
      BY LabelsApart DEF Labels
    <3> QED
      BY <1>2, <2>1, <3>1, <3>2 DEF LocalOK
  <2>2. CASE ~(opt[b] = "exe" /\ mode[b] = "cached" /\ "whole" \notin env)
    <3>1. pc'[b] = "link"
      BY <1>1, <2>2 DEF Load, TypeOK, Goto
    <3>2. "link" \notin Modules
      BY LabelsApart DEF Labels
    <3> QED
      BY <3>1, <3>2 DEF LocalOK
  <2> QED
    BY <2>1, <2>2
<1>8. Locals'
  BY <1>1, <1>2, <1>5, <1>7, LocalsKept
<1>9. TornIsOpen'
  <2>1. pc[b] # "write"
    BY DEF Load
  <2> QED
    BY <1>1, <1>2, <1>5, <2>1, TornKept
<1> QED
  BY <1>5, <1>6, <1>8, <1>9 DEF IInv

(* Rejected, LinkFails, RenameFails and Abort. *)
LEMMA FailKeeps ==
  ASSUME IInv, NEW b \in Builders,
         Rejected(b) \/ LinkFails(b) \/ RenameFails(b) \/ Abort(b)
  PROVE  IInv' /\ Others(b)
<1>1. /\ Forget(b) /\ UNCHANGED <<env, locked, files, opt, edits, builds>>
      /\ result' = [result EXCEPT ![b] = None]
      /\ pc[b] = "write" => "abort" \in env
  BY Zenon DEF Rejected, LinkFails, RenameFails, Abort, Fail
<1>2. /\ builds' \in 0..MaxBuilds /\ opt' \in [Builders -> Outputs]
      /\ result' \in [Builders -> Result \cup {None}]
  BY <1>1, NoResult DEF IInv, TypeOK
<1> QED
  BY <1>1, <1>2, StopKeeps

(* LookUp: the key of the module is computed; an object that is there is   *)
(* taken, and otherwise the builder goes on to compile the module.         *)
LEMMA LookUpDoes ==
  ASSUME TypeOK, NEW b \in Builders, NEW m \in Modules, LookUp(b, m)
  PROVE  \E k \in Keys :
           /\ k = Key(m, src[m], snap[b])
           /\ key' \in [Builders -> [Modules -> Keys \cup {None}]]
           /\ \A c \in Builders \ {b} : key'[c] = key[c]
           /\ key'[b][m] = k /\ \A n \in Modules : n # m => key'[b][n] = key[b][n]
           /\ todo' \in [Builders -> SUBSET Modules]
           /\ pc' \in [Builders -> Labels \cup Modules]
           /\ \A c \in Builders \ {b} : pc'[c] = pc[c] /\ todo'[c] = todo[c]
           /\ \/ k \in DOMAIN objects /\ pc'[b] = "emit" /\ todo'[b] = todo[b] \ {m}
              \/ k \notin DOMAIN objects /\ pc'[b] = m /\ todo'[b] = todo[b] /\ m \in todo[b]
<1>1. pc[b] = "emit"
  BY DEF LookUp
<1>2. PICK k \in Keys : k = Key(m, src[m], snap[b])
  <2>1. src[m] \in Source /\ snap[b] \in Sources
    BY DEF TypeOK, Sources
  <2> QED
    BY <2>1, KeyType
<1>3. key' = [key EXCEPT ![b][m] = k]
  BY <1>2 DEF LookUp, Content
<1>4. /\ key' \in [Builders -> [Modules -> Keys \cup {None}]]
      /\ \A c \in Builders \ {b} : key'[c] = key[c]
      /\ key'[b][m] = k /\ \A n \in Modules : n # m => key'[b][n] = key[b][n]
  <2>1. PICK g \in [Modules -> Keys \cup {None}] : g = [key[b] EXCEPT ![m] = k]
    BY DEF TypeOK
  <2>2. key' = [key EXCEPT ![b] = g]
    BY <1>3, <2>1
  <2>3. g[m] = k /\ \A n \in Modules : n # m => g[n] = key[b][n]
    BY <2>1 DEF TypeOK
  <2> QED
    BY <2>1, <2>2, <2>3 DEF TypeOK
<1>5. /\ todo' \in [Builders -> SUBSET Modules]
      /\ pc' \in [Builders -> Labels \cup Modules]
      /\ \A c \in Builders \ {b} : pc'[c] = pc[c] /\ todo'[c] = todo[c]
      /\ \/ k \in DOMAIN objects /\ pc'[b] = "emit" /\ todo'[b] = todo[b] \ {m}
         \/ k \notin DOMAIN objects /\ pc'[b] = m /\ todo'[b] = todo[b] /\ m \in todo[b]
  <2>1. CASE k \in DOMAIN objects
    <3>1. todo' = [todo EXCEPT ![b] = @ \ {m}] /\ UNCHANGED pc
      BY <1>4, <2>1 DEF LookUp
    <3> QED
      BY <1>1, <2>1, <3>1 DEF TypeOK
  <2>2. CASE k \notin DOMAIN objects
    <3>1. pc' = [pc EXCEPT ![b] = m] /\ UNCHANGED todo
      BY <1>4, <2>2 DEF LookUp, Goto
    <3>2. m \in todo[b]
      BY DEF LookUp, FirstOf
    <3> QED
      BY <2>2, <3>1, <3>2 DEF TypeOK
  <2> QED
    BY <2>1, <2>2
<1> QED
  BY <1>2, <1>4, <1>5

(* LookUp *)
LEMMA LookUpKeeps ==
  ASSUME IInv, NEW b \in Builders, NEW m \in Modules, LookUp(b, m)
  PROVE  IInv' /\ Others(b)
<1>1. TypeOK /\ Locals /\ TornIsOpen
  BY DEF IInv
<1>2. /\ UNCHANGED <<env, locked, src, objects, out, tmp, rec, data, edits, builds>>
      /\ UNCHANGED <<opt, mode, snap, fd, body, result>> /\ pc[b] = "emit"
  BY DEF LookUp, files
<1>3. PICK k \in Keys :
        /\ key' \in [Builders -> [Modules -> Keys \cup {None}]]
        /\ \A c \in Builders \ {b} : key'[c] = key[c]
        /\ key'[b][m] = k /\ \A n \in Modules : n # m => key'[b][n] = key[b][n]
        /\ todo' \in [Builders -> SUBSET Modules]
        /\ pc' \in [Builders -> Labels \cup Modules]
        /\ \A c \in Builders \ {b} : pc'[c] = pc[c] /\ todo'[c] = todo[c]
        /\ \/ k \in DOMAIN objects /\ pc'[b] = "emit" /\ todo'[b] = todo[b] \ {m}
           \/ k \notin DOMAIN objects /\ pc'[b] = m /\ todo'[b] = todo[b] /\ m \in todo[b]
  BY <1>1, LookUpDoes
<1>4. Others(b)
  BY <1>2, <1>3 DEF Others
<1>5. TypeOK'
  BY <1>1, <1>2, <1>3 DEF TypeOK
<1>6. LocalOK(b)'
  <2>1. "emit" \notin Modules /\ "write" \notin Modules /\ "rename" \notin Modules
    BY LabelsApart DEF Labels
  <2>2. \A n \in Modules \ todo[b] : key[b][n] \in DOMAIN objects
    BY <1>1, <1>2 DEF Locals, LocalOK
  <2>3. \A n \in Modules \ todo'[b] : key'[b][n] \in DOMAIN objects
    BY <1>3, <2>2
  <2>4. mode'[b] = "cached"
    BY <1>1, <1>2 DEF Locals, LocalOK
  <2>5. pc'[b] \in Modules => key'[b][pc'[b]] \in Keys
    BY <1>3, <2>1
  <2> QED
    BY <1>2, <1>3, <2>1, <2>3, <2>5, <2>4 DEF LocalOK
<1>7. Locals'
  BY <1>1, <1>2, <1>4, <1>6, LocalsKept
<1>8. TornIsOpen'
  BY <1>1, <1>2, <1>4, TornKept
<1> QED
  BY <1>4, <1>5, <1>7, <1>8 DEF IInv

(* Writing to an object file: its content is v. *)
LEMMA PutKeeps ==
  ASSUME TypeOK, NEW k \in Keys, NEW v \in ObjectFile \cup {Torn}, objects' = Put(objects, k, v)
  PROVE  /\ DOMAIN objects' \subseteq Keys /\ DOMAIN objects \subseteq DOMAIN objects'
         /\ k \in DOMAIN objects' /\ objects'[k] = v
         /\ \A x \in DOMAIN objects' : x = k \/ (x \in DOMAIN objects /\ objects'[x] = objects[x])
         /\ \A x \in DOMAIN objects' : objects'[x] \in ObjectFile \cup {Torn}
<1>1. /\ DOMAIN objects' = DOMAIN objects \cup {k}
      /\ objects'[k] = v
      /\ \A x \in DOMAIN objects : x # k => objects'[x] = objects[x]
  BY DEF Put
<1>2. DOMAIN objects \subseteq Keys
        /\ \A x \in DOMAIN objects : objects[x] \in ObjectFile \cup {Torn}
  BY DEF TypeOK
<1> QED
  BY <1>1, <1>2

(* EmitOpen *)
LEMMA EmitOpenKeeps ==
  ASSUME IInv, NEW b \in Builders, EmitOpen(b)
  PROVE  IInv' /\ Others(b)
<1>1. TypeOK /\ Locals /\ TornIsOpen
  BY DEF IInv
<1>2. /\ UNCHANGED <<env, locked, src, out, tmp, rec, data, edits, builds>>
      /\ UNCHANGED <<pc, opt, mode, snap, todo, key, body, result>> /\ pc[b] \in Modules
  BY DEF EmitOpen
<1>3. key[b][pc[b]] \in Keys
  BY <1>1, <1>2 DEF Locals, LocalOK
<1>4. /\ DOMAIN objects' \subseteq Keys /\ DOMAIN objects \subseteq DOMAIN objects'
      /\ \A x \in DOMAIN objects' : objects'[x] \in ObjectFile \cup {Torn}
  BY <1>1, <1>3, PutKeeps DEF EmitOpen
<1>5. /\ fd' \in [Builders -> Modules \cup Inodes \cup {None}]
      /\ \A c \in Builders \ {b} : fd'[c] = fd[c]
  BY <1>1, <1>2 DEF EmitOpen, TypeOK
<1>6. Others(b)
  BY <1>2, <1>5 DEF Others
<1>7. TypeOK'
  BY <1>1, <1>2, <1>4, <1>5 DEF TypeOK
<1>8. LocalOK(b) /\ "write" \notin Modules /\ "rename" \notin Modules
  BY <1>1, LabelsApart DEF Labels, Locals
<1>9. LocalOK(b)'
  BY <1>2, <1>4, <1>8 DEF LocalOK
<1>10. Locals'
  BY <1>1, <1>4, <1>6, <1>9, LocalsKept
<1>11. TornIsOpen'
  BY <1>1, <1>2, <1>6, <1>8, TornKept
<1> QED
  BY <1>6, <1>7, <1>10, <1>11 DEF IInv

(* EmitWrite *)
LEMMA EmitWriteKeeps ==
  ASSUME IInv, NEW b \in Builders, EmitWrite(b)
  PROVE  IInv' /\ Others(b)
<1>1. TypeOK /\ Locals /\ TornIsOpen
  BY DEF IInv
<1>2. /\ UNCHANGED <<env, locked, src, out, tmp, rec, data, edits, builds>>
      /\ UNCHANGED <<opt, mode, snap, key, body, result>> /\ pc[b] \in Modules
  BY DEF EmitWrite
<1>3. key[b][pc[b]] \in Keys /\ Object(snap[b], pc[b], FALSE) \in ObjectFile
  <2>1. snap[b] \in Sources
    BY <1>1 DEF TypeOK
  <2> QED
    BY <1>1, <1>2, <2>1, ObjectType DEF Locals, LocalOK
<1>4. /\ DOMAIN objects' \subseteq Keys /\ DOMAIN objects \subseteq DOMAIN objects'
      /\ key[b][pc[b]] \in DOMAIN objects'
      /\ \A x \in DOMAIN objects' : objects'[x] \in ObjectFile \cup {Torn}
  <2>1. PICK k \in Keys : k = key[b][pc[b]]
    BY <1>3
  <2>2. PICK v \in ObjectFile : v = Object(snap[b], pc[b], FALSE)
    BY <1>3
  <2>3. objects' = Put(objects, k, v)
    BY <2>1, <2>2 DEF EmitWrite
  <2> QED
    BY <1>1, <2>1, <2>3, PutKeeps
<1>5. /\ fd' \in [Builders -> Modules \cup Inodes \cup {None}]
      /\ \A c \in Builders \ {b} : fd'[c] = fd[c]
  BY <1>1, <1>2 DEF EmitWrite, TypeOK
<1>6. /\ todo' \in [Builders -> SUBSET Modules] /\ todo'[b] = todo[b] \ {pc[b]}
      /\ \A c \in Builders \ {b} : todo'[c] = todo[c]
      /\ pc' \in [Builders -> Labels \cup Modules] /\ pc'[b] = "emit"
      /\ \A c \in Builders \ {b} : pc'[c] = pc[c]
  BY <1>1, <1>2 DEF EmitWrite, Goto, TypeOK, Labels
<1>7. Others(b)
  BY <1>2, <1>5, <1>6 DEF Others
<1>8. TypeOK'
  BY <1>1, <1>2, <1>4, <1>5, <1>6 DEF TypeOK
<1>9. "write" \notin Modules /\ "emit" \notin Modules
  BY LabelsApart DEF Labels
<1>10. LocalOK(b)'
  <2>1. \A m \in Modules \ todo[b] : key[b][m] \in DOMAIN objects
    BY <1>1, <1>2 DEF Locals, LocalOK
  <2>2. \A m \in Modules \ todo'[b] : key'[b][m] \in DOMAIN objects'
    BY <1>2, <1>4, <1>6, <2>1
  <2>3. mode'[b] = "cached"
    BY <1>1, <1>2 DEF Locals, LocalOK
  <2> QED
    BY <1>6, <1>9, <2>2, <2>3 DEF LocalOK
<1>11. Locals'
  BY <1>1, <1>4, <1>7, <1>10, LocalsKept
<1>12. TornIsOpen'
  BY <1>1, <1>2, <1>7, <1>9, TornKept
<1> QED
  BY <1>7, <1>8, <1>11, <1>12 DEF IInv

(* LinkShared: the linker is given one complete object for each module. *)
LEMMA LinkSharedDoes ==
  ASSUME IInv, NEW b \in Builders, LinkShared(b)
  PROVE  \A m \in Modules :
           key[b][m] \in DOMAIN objects /\ objects[key[b][m]] \in ObjectFile
             /\ objects[key[b][m]] # Torn
<1>1. TypeOK /\ Locals
  BY DEF IInv
<1>2. \A m \in Modules : key[b][m] \in DOMAIN objects
  BY <1>1 DEF LinkShared, Locals, LocalOK
<1>3. \A m \in Modules : objects[key[b][m]] # Torn
  BY DEF LinkShared, Linkable
<1> QED
  BY <1>1, <1>2, <1>3 DEF TypeOK

(* A builder that has linked is about to record. *)
LEMMA LinkedKeeps ==
  ASSUME IInv, NEW b \in Builders, pc[b] \in {"emit", "link"}, Goto(b, "record"),
         out' \in [Outputs -> [Modules -> ObjectFile] \cup {None}],
         UNCHANGED <<env, locked, src, objects, tmp, rec, data, edits, builds>>,
         UNCHANGED <<opt, mode, snap, todo, key, fd, body, result>>, mode[b] = "cached"
  PROVE  IInv' /\ Others(b) /\ pc'[b] = "record"
<1>1. TypeOK /\ Locals /\ TornIsOpen
  BY DEF IInv
<1>2. /\ pc' \in [Builders -> Labels \cup Modules] /\ pc'[b] = "record"
      /\ \A c \in Builders \ {b} : pc'[c] = pc[c]
  BY <1>1 DEF Goto, TypeOK, Labels
<1>3. Others(b)
  BY <1>2 DEF Others
<1>4. TypeOK'
  BY <1>1, <1>2 DEF TypeOK
<1>5. LocalOK(b)'
  <2>1. "record" \notin Modules
    BY LabelsApart DEF Labels
  <2> QED
    BY <1>2, <2>1 DEF LocalOK
<1>6. Locals'
  BY <1>1, <1>3, <1>5, LocalsKept
<1>7. TornIsOpen'
  BY <1>1, <1>3, TornKept
<1> QED
  BY <1>2, <1>3, <1>4, <1>6, <1>7 DEF IInv

(* LinkShared *)
LEMMA LinkSharedKeeps ==
  ASSUME IInv, NEW b \in Builders, LinkShared(b)
  PROVE  IInv' /\ Others(b)
<1>1. PICK f \in [Modules -> ObjectFile] : f = [m \in Modules |-> objects[key[b][m]]]
  BY LinkSharedDoes
<1>2. out' = [out EXCEPT !["exe"] = f]
  BY <1>1 DEF LinkShared
<1>3. out' \in [Outputs -> [Modules -> ObjectFile] \cup {None}]
  BY <1>2 DEF IInv, TypeOK
<1>4. /\ pc[b] = "emit" /\ Goto(b, "record")
      /\ UNCHANGED <<env, locked, src, objects, tmp, rec, data, edits, builds>>
      /\ UNCHANGED <<opt, mode, snap, todo, key, fd, body, result>>
  BY DEF LinkShared
<1>5. mode[b] = "cached"
  BY <1>4 DEF IInv, Locals, LocalOK
<1> QED
  BY <1>3, <1>4, <1>5, LinkedKeeps

(* LinkPrivate *)
LEMMA LinkPrivateKeeps ==
  ASSUME IInv, NEW b \in Builders, LinkPrivate(b)
  PROVE  IInv' /\ Others(b)
<1>1. TypeOK /\ Locals /\ TornIsOpen
  BY DEF IInv
<1>2. out' \in [Outputs -> [Modules -> ObjectFile] \cup {None}]
  <2>1. PICK f \in [Modules -> ObjectFile] : f = Clean(snap[b], mode[b] = "instrument")
    BY <1>1, CleanType DEF TypeOK
  <2>2. out' = [out EXCEPT ![opt[b]] = f]
    BY <2>1 DEF LinkPrivate
  <2> QED
    BY <1>1, <2>2 DEF TypeOK
<1>3. /\ pc[b] = "link" /\ UNCHANGED <<env, locked, src, objects, tmp, rec, data, edits, builds,
           opt>>
  BY DEF LinkPrivate
<1>4. CASE mode[b] = "cached"
  <2>1. Goto(b, "record") /\ UNCHANGED <<mode, snap, todo, key, fd, body, result>>
    BY <1>4 DEF LinkPrivate
  <2> QED
    BY <1>2, <1>3, <1>4, <2>1, LinkedKeeps
<1>5. CASE mode[b] # "cached"
  <2>1. Forget(b) /\ result' \in [Builders -> Result \cup {None}]
    <3>1. Succeed(b, opt[b]) /\ opt[b] \in Outputs
      BY <1>1, <1>5 DEF LinkPrivate, TypeOK
    <3> QED
      BY <1>1, <1>2, <3>1, SucceedDoes
  <2>2. /\ LocalTypes' /\ Others(b) /\ pc'[b] = "idle"
    BY <1>1, <1>3, <2>1, ForgetDoes DEF Others
  <2>3. TypeOK'
    BY <1>1, <1>2, <1>3, <2>1, <2>2 DEF TypeOK, LocalTypes
  <2>4. LocalOK(b)'
    <3>1. "idle" \notin Modules
      BY LabelsApart DEF Labels
    <3> QED
      BY <2>2, <3>1 DEF LocalOK
  <2>5. Locals'
    BY <1>1, <1>3, <2>2, <2>4, LocalsKept
  <2>6. TornIsOpen'
    BY <1>1, <1>3, <2>2, TornKept
  <2> QED
    BY <2>2, <2>3, <2>5, <2>6 DEF IInv
<1> QED
  BY <1>4, <1>5

(* RecordOpen: the temporary file is created, or truncated if it is there. *)
LEMMA RecordOpenDoes ==
  ASSUME TypeOK, NEW b \in Builders, RecordOpen(b)
  PROVE  \E i \in Inodes : \E r \in Record :
           /\ r = [output |-> opt[b], graph |-> Graph] /\ body' = [body EXCEPT ![b] = r]
           /\ IF tmp # None THEN i = tmp ELSE i # rec /\ \A c \in Builders : fd[c] # i
           /\ data' = [data EXCEPT ![i] = Torn] /\ fd' = [fd EXCEPT ![b] = i] /\ tmp' = i
<1>1. PICK i \in Inodes :
           /\ IF tmp # None THEN i = tmp ELSE i # rec /\ \A c \in Builders : fd[c] # i
           /\ data' = [data EXCEPT ![i] = Torn] /\ fd' = [fd EXCEPT ![b] = i] /\ tmp' = i
  BY DEF RecordOpen
<1>2. PICK r \in Record : r = [output |-> opt[b], graph |-> Graph]
  BY GraphType DEF TypeOK, Record
<1>3. body' = [body EXCEPT ![b] = r]
  BY <1>2 DEF RecordOpen
<1> QED
  BY <1>1, <1>2, <1>3

(* RecordOpen *)
LEMMA RecordOpenKeeps ==
  ASSUME IInv, NEW b \in Builders, RecordOpen(b)
  PROVE  IInv' /\ Others(b)
<1>1. TypeOK /\ Locals /\ TornIsOpen
  BY DEF IInv
<1>2. PICK i \in Inodes : \E r \in Record :
        /\ body' = [body EXCEPT ![b] = r] /\ r.output = opt[b]
        /\ data' = [data EXCEPT ![i] = Torn] /\ fd' = [fd EXCEPT ![b] = i] /\ tmp' = i
  BY <1>1, RecordOpenDoes
<1>3. PICK r \in Record : body' = [body EXCEPT ![b] = r] /\ r.output = opt[b]
  BY <1>2
<1>4. /\ UNCHANGED <<env, locked, src, objects, out, rec, edits, builds>>
      /\ UNCHANGED <<opt, mode, snap, todo, key, result>> /\ pc[b] = "record"
  BY DEF RecordOpen
<1>5. /\ data' \in [Inodes -> Record \cup {Torn, Garbled}] /\ tmp' \in Inodes \cup {None}
      /\ data'[i] = Torn /\ \A j \in Inodes : j # i => data'[j] = data[j]
  BY <1>1, <1>2 DEF TypeOK
<1>6. /\ fd' \in [Builders -> Modules \cup Inodes \cup {None}] /\ fd'[b] = i
      /\ \A c \in Builders \ {b} : fd'[c] = fd[c]
  BY <1>1, <1>2 DEF TypeOK
<1>7. /\ body' \in [Builders -> Record \cup {None}] /\ body'[b] = r
      /\ \A c \in Builders \ {b} : body'[c] = body[c]
  BY <1>1, <1>3 DEF TypeOK
<1>8. /\ pc' \in [Builders -> Labels \cup Modules] /\ pc'[b] = "write"
      /\ \A c \in Builders \ {b} : pc'[c] = pc[c]
  BY <1>1 DEF RecordOpen, Goto, TypeOK, Labels
<1>9. Others(b)
  BY <1>4, <1>6, <1>7, <1>8 DEF Others
<1>10. TypeOK'
  BY <1>1, <1>4, <1>5, <1>6, <1>7, <1>8 DEF TypeOK
<1>11. LocalOK(b)'
  <2>1. "write" \notin Modules
    BY LabelsApart DEF Labels
  <2> QED
    BY <1>1, <1>3, <1>4, <1>6, <1>7, <1>8, <2>1 DEF LocalOK, Locals
<1>12. Locals'
  BY <1>1, <1>4, <1>9, <1>11, LocalsKept
<1>13. TornIsOpen'
  <2> SUFFICES ASSUME "abort" \notin env, NEW j \in {i, rec} \ {None}, data'[j] = Torn
               PROVE  \E c \in Builders : pc'[c] = "write" /\ fd'[c] = j
    BY <1>2, <1>4 DEF TornIsOpen
  <2>1. CASE j = i
    BY <1>6, <1>8, <2>1
  <2>2. CASE j # i
    <3>1. j = rec /\ j \in Inodes /\ data[j] = Torn
      BY <1>1, <1>5, <2>2 DEF TypeOK
    <3>2. PICK c \in Builders : pc[c] = "write" /\ fd[c] = j
      BY <1>1, <3>1 DEF TornIsOpen
    <3> QED
      BY <1>4, <1>6, <1>8, <3>2
  <2> QED
    BY <2>1, <2>2
<1> QED
  BY <1>9, <1>10, <1>12, <1>13 DEF IInv

(* RecordWrite: the body goes to the file that is open. *)
LEMMA RecordWriteDoes ==
  ASSUME IInv, NEW b \in Builders, RecordWrite(b)
  PROVE  /\ fd[b] \in Inodes /\ body[b] \in Record /\ body[b].output = opt[b]
         /\ data' \in [Inodes -> Record \cup {Torn, Garbled}]
         /\ data'[fd[b]] = body[b] \/ data'[fd[b]] = Garbled
         /\ data'[fd[b]] # Torn
         /\ data[fd[b]] = Torn \/ (data[fd[b]] # Garbled /\ data[fd[b]].output = opt[b])
              => data'[fd[b]] = body[b]
         /\ \A j \in Inodes : j # fd[b] => data'[j] = data[j]
         /\ fd' \in [Builders -> Modules \cup Inodes \cup {None}]
         /\ pc' \in [Builders -> Labels \cup Modules] /\ pc'[b] = "rename"
         /\ \A c \in Builders \ {b} : fd'[c] = fd[c] /\ pc'[c] = pc[c]
<1>1. fd[b] \in Inodes /\ body[b] \in Record /\ body[b].output = opt[b]
  BY DEF IInv, Locals, LocalOK, RecordWrite
<1>2. PICK w : w = IF /\ data[fd[b]] # Torn /\ body[b].output \notin Longest
                      /\ data[fd[b]] = Garbled \/ data[fd[b]].output # body[b].output
                     THEN Garbled ELSE body[b]
  OBVIOUS
<1>3. /\ data' \in [Inodes -> Record \cup {Torn, Garbled}] /\ data'[fd[b]] = w
      /\ \A j \in Inodes : j # fd[b] => data'[j] = data[j]
  <2>1. data \in [Inodes -> Record \cup {Torn, Garbled}]
    BY DEF IInv, TypeOK
  <2>2. data' = [data EXCEPT ![fd[b]] = w]
    BY <1>1, <1>2, <2>1 DEF RecordWrite, Filled
  <2>3. w \in Record \cup {Garbled}
    BY <1>1, <1>2
  <2> QED
    BY <1>1, <2>1, <2>2, <2>3
<1>4. w # Torn
  BY <1>1, <1>2, IncrementalAssumption
<1>5. /\ fd' \in [Builders -> Modules \cup Inodes \cup {None}]
      /\ pc' \in [Builders -> Labels \cup Modules] /\ pc'[b] = "rename"
      /\ \A c \in Builders \ {b} : fd'[c] = fd[c] /\ pc'[c] = pc[c]
  BY DEF IInv, TypeOK, RecordWrite, Goto, Labels
<1> QED
  BY <1>1, <1>2, <1>3, <1>5, <1>4

(* RecordWrite *)
LEMMA RecordWriteKeeps ==
  ASSUME IInv, NEW b \in Builders, RecordWrite(b)
  PROVE  IInv' /\ Others(b)
<1>1. TypeOK /\ Locals /\ TornIsOpen
  BY DEF IInv
<1>2. /\ fd[b] \in Inodes /\ body[b] \in Record /\ body[b].output = opt[b]
      /\ data' \in [Inodes -> Record \cup {Torn, Garbled}] /\ data'[fd[b]] # Torn
      /\ \A j \in Inodes : j # fd[b] => data'[j] = data[j]
      /\ fd' \in [Builders -> Modules \cup Inodes \cup {None}]
      /\ pc' \in [Builders -> Labels \cup Modules] /\ pc'[b] = "rename"
      /\ \A c \in Builders \ {b} : fd'[c] = fd[c] /\ pc'[c] = pc[c]
  BY RecordWriteDoes
<1>3. /\ UNCHANGED <<env, locked, src, objects, out, tmp, rec, edits, builds>>
      /\ UNCHANGED <<opt, mode, snap, todo, key, body, result>>
  BY DEF RecordWrite
<1>4. Others(b)
  BY <1>2, <1>3 DEF Others
<1>5. TypeOK'
  BY <1>1, <1>2, <1>3 DEF TypeOK
<1>6. LocalOK(b)'
  <2>1. "rename" \notin Modules
    BY LabelsApart DEF Labels
  <2> QED
    BY <1>1, <1>2, <1>3, <2>1 DEF LocalOK, Locals, RecordWrite
<1>7. Locals'
  BY <1>1, <1>3, <1>4, <1>6, LocalsKept
<1>8. TornIsOpen'
  <2> SUFFICES ASSUME "abort" \notin env, NEW j \in {tmp, rec} \ {None}, data'[j] = Torn
               PROVE  \E c \in Builders : pc'[c] = "write" /\ fd'[c] = j
    BY <1>3 DEF TornIsOpen
  <2>1. j \in Inodes /\ j # fd[b] /\ data[j] = Torn
    BY <1>1, <1>2 DEF TypeOK
  <2>2. PICK c \in Builders : pc[c] = "write" /\ fd[c] = j
    BY <1>1, <2>1 DEF TornIsOpen
  <2> QED
    BY <1>2, <2>1, <2>2
<1> QED
  BY <1>4, <1>5, <1>7, <1>8 DEF IInv

(* RecordRename *)
LEMMA RecordRenameKeeps ==
  ASSUME IInv, NEW b \in Builders, RecordRename(b)
  PROVE  IInv' /\ Others(b)
<1>1. TypeOK /\ Locals /\ TornIsOpen
  BY DEF IInv
<1>2. /\ UNCHANGED <<env, locked, src, objects, out, data, opt, edits, builds>>
      /\ pc[b] = "rename" /\ tmp # None /\ rec' = tmp /\ tmp' = None
      /\ Forget(b) /\ result' \in [Builders -> Result \cup {None}]
  <2>1. UNCHANGED out /\ Succeed(b, opt[b]) /\ opt[b] \in Outputs
    BY <1>1 DEF RecordRename, TypeOK
  <2>2. Forget(b) /\ result' \in [Builders -> Result \cup {None}]
    BY <1>1, <2>1, SucceedDoes DEF TypeOK
  <2> QED
    BY <2>2 DEF RecordRename
<1>3. /\ LocalTypes' /\ Others(b) /\ pc'[b] = "idle"
  BY <1>1, <1>2, ForgetDoes DEF Others
<1>4. TypeOK'
  BY <1>1, <1>2, <1>3 DEF TypeOK, LocalTypes
<1>5. LocalOK(b)'
  <2>1. "idle" \notin Modules
    BY LabelsApart DEF Labels
  <2> QED
    BY <1>3, <2>1 DEF LocalOK
<1>6. Locals'
  BY <1>1, <1>2, <1>3, <1>5, LocalsKept
<1>7. TornIsOpen'
  <2> SUFFICES ASSUME "abort" \notin env, data[tmp] = Torn
               PROVE  \E c \in Builders : pc'[c] = "write" /\ fd'[c] = tmp
    BY <1>2 DEF TornIsOpen
  <2>1. PICK c \in Builders : pc[c] = "write" /\ fd[c] = tmp
    BY <1>1, <1>2 DEF TornIsOpen
  <2> QED
    BY <1>2, <1>3, <2>1 DEF Others
<1> QED
  BY <1>3, <1>4, <1>6, <1>7 DEF IInv

(* Every step of a builder. *)
LEMMA BuildKeeps ==
  ASSUME IInv, NEW b \in Builders, Build(b)
  PROVE  IInv' /\ Others(b)
<1>1. ASSUME NEW o \in Outputs,
             RecordUnreadable(b, o) \/ Reuse(b, o) \/ Miss(b, o) \/ Bypass(b, o)
      PROVE  IInv' /\ Others(b)
  BY <1>1, RecordUnreadableKeeps, ReuseKeeps, MissKeeps, BypassKeeps
<1>2. ASSUME NEW m \in Modules, LookUp(b, m) PROVE IInv' /\ Others(b)
  BY <1>2, LookUpKeeps
<1>3. CASE Rejected(b) \/ LinkFails(b) \/ RenameFails(b) \/ Abort(b)
  BY <1>3, FailKeeps
<1>4. CASE Load(b) \/ EmitOpen(b) \/ EmitWrite(b) \/ LinkShared(b) \/ LinkPrivate(b)
  BY <1>4, LoadKeeps, EmitOpenKeeps, EmitWriteKeeps, LinkSharedKeeps, LinkPrivateKeeps
<1>5. CASE RecordOpen(b) \/ RecordWrite(b) \/ RecordRename(b)
  BY <1>5, RecordOpenKeeps, RecordWriteKeeps, RecordRenameKeeps
<1> QED
  BY <1>1, <1>2, <1>3, <1>4, <1>5 DEF Build

(* Programmer: what is saved is a version, and the number of it. *)
LEMMA ProgrammerSaves ==
  ASSUME TypeOK, Programmer
  PROVE  \E m \in Modules, f \in Facets, v \in Nat :
           /\ SaveSource(m, f, v)
           /\ v = edits + 1 \/ (v = 0 /\ "revert" \in env)
<1>1. edits + 1 \in Nat
  BY IncrementalAssumption DEF TypeOK
<1> QED
  BY <1>1 DEF Programmer, Edit, Revert

(* Every step. *)
LEMMA NextKeeps ==
  ASSUME IInv, [Next]_vars
  PROVE  IInv'
<1>1. CASE Programmer
  <2>1. PICK m \in Modules, f \in Facets, v \in Nat : SaveSource(m, f, v)
    BY <1>1, ProgrammerSaves DEF IInv
  <2> QED
    BY <2>1, SaveKeeps
<1>2. ASSUME NEW b \in Builders, Build(b) PROVE IInv'
  BY <1>2, BuildKeeps
<1>3. CASE UNCHANGED vars
  BY <1>3 DEF vars, files, locals, IInv, TypeOK, Locals, LocalOK, TornIsOpen
<1> QED
  BY <1>1, <1>2, <1>3 DEF Next

(* Nothing has been built. *)
LEMMA InitHolds ==
  ASSUME Init
  PROVE  IInv
<1>1. [m \in Modules |-> [f \in AllFacets |-> 0]] \in Sources
  BY DEF Sources, Source
<1>2. TypeOK
  <2>1. edits \in 0..MaxEdits /\ builds \in 0..MaxBuilds
    BY IncrementalAssumption DEF Init
  <2>2. DOMAIN objects = {}
    BY DEF Init
  <2>3. /\ pc \in [Builders -> Labels \cup Modules] /\ opt \in [Builders -> Outputs]
        /\ mode \in [Builders -> Modes \cup {"cached"}]
    BY DEF Init, Labels, Outputs
  <2>4. /\ src \in Sources /\ snap \in [Builders -> Sources]
    BY <1>1 DEF Init
  <2>5. key \in [Builders -> [Modules -> Keys \cup {None}]]
    BY DEF Init
  <2> QED
    BY <2>1, <2>2, <2>3, <2>4, <2>5 DEF Init, TypeOK
<1>3. Locals
  <2>1. "idle" \notin Modules
    BY LabelsApart DEF Labels
  <2> QED
    BY <2>1 DEF Init, Locals, LocalOK
<1>4. TornIsOpen
  BY DEF Init, TornIsOpen
<1> QED
  BY <1>2, <1>3, <1>4 DEF IInv

(* The types, the locals and the open record hold of every behaviour. *)
LEMMA Inductive == Spec => []IInv
<1>1. Init => IInv
  BY InitHolds
<1>2. IInv /\ [Next]_vars => IInv'
  BY NextKeeps
<1> QED
  BY <1>1, <1>2, PTL DEF Spec

-----------------------------------------------------------------------------
(* The objects: every step keeps SInv. *)

(* A step of b that leaves the sources and the objects alone. *)
LEMMA QuietShape ==
  ASSUME SInv, NEW b \in Builders, Others(b), UNCHANGED <<env, src, objects>>, Steady => Shape(b)'
  PROVE  SInv'
<1> SUFFICES ASSUME Steady PROVE ObjectsMatchKeys' /\ \A c \in Builders : Shape(c)'
  BY DEF SInv, Steady
<1>1. ObjectsMatchKeys'
  BY DEF SInv, ObjectsMatchKeys
<1>2. ASSUME NEW c \in Builders, c # b PROVE Shape(c)'
  <2>1. Shape(c)
    BY DEF SInv
  <2>2. pc'[c] = pc[c] /\ snap'[c] = snap[c] /\ todo'[c] = todo[c] /\ key'[c] = key[c]
    BY <1>2 DEF Others
  <2> QED
    BY <2>1, <2>2 DEF Shape
<1> QED
  BY <1>1, <1>2

(* A builder that neither compiles nor looks for objects. *)
LEMMA AwayShape ==
  ASSUME SInv, NEW b \in Builders, Others(b), UNCHANGED <<env, src, objects>>,
         pc'[b] \in Labels \ {"emit"}, Steady /\ pc'[b] \notin {"idle", "load"} => snap'[b] = src
  PROVE  SInv'
<1>1. pc'[b] \notin Modules
  BY LabelsApart
<1>2. Steady => Shape(b)'
  BY <1>1 DEF Shape, Labels
<1> QED
  BY <1>2, QuietShape

(* SaveSource: with nobody building, no snapshot goes stale. *)
LEMMA SaveShape ==
  ASSUME SInv, NEW m \in Modules, NEW f \in Facets, NEW v \in Nat, SaveSource(m, f, v)
  PROVE  SInv'
<1> SUFFICES ASSUME Steady PROVE ObjectsMatchKeys' /\ \A c \in Builders : Shape(c)'
  BY DEF SInv, Steady, SaveSource
<1>1. ObjectsMatchKeys'
  BY DEF SInv, ObjectsMatchKeys, SaveSource
<1>2. ASSUME NEW c \in Builders PROVE Shape(c)'
  <2>1. pc'[c] = "idle" /\ "idle" \notin Modules
    BY LabelsApart DEF SaveSource, Editable, Steady, locals, Labels
  <2> QED
    BY <2>1 DEF Shape
<1> QED
  BY <1>1, <1>2

(* The steps that end a build, start one, or have linked. *)
LEMMA MoveShape ==
  ASSUME IInv, SInv, NEW b \in Builders, Others(b), UNCHANGED <<env, src, objects>>,
         \/ Forget(b)
         \/ Goto(b, "load")
         \/ /\ pc[b] \notin {"idle", "load"} /\ UNCHANGED snap
            /\ Goto(b, "record") \/ Goto(b, "write") \/ Goto(b, "rename")
  PROVE  SInv'
<1>1. TypeOK
  BY DEF IInv
<1>2. CASE Forget(b)
  <2>1. pc'[b] = "idle"
    BY <1>1, <1>2, ForgetDoes
  <2> QED
    BY <2>1, AwayShape DEF Labels
<1>3. CASE Goto(b, "load")
  <2>1. pc'[b] = "load"
    BY <1>1, <1>3 DEF Goto, TypeOK
  <2> QED
    BY <2>1, AwayShape DEF Labels
<1>4. CASE /\ pc[b] \notin {"idle", "load"} /\ UNCHANGED snap
           /\ Goto(b, "record") \/ Goto(b, "write") \/ Goto(b, "rename")
  <2>1. pc'[b] \in {"record", "write", "rename"}
    BY <1>1, <1>4 DEF Goto, TypeOK
  <2>2. Steady => snap'[b] = src
    BY <1>4 DEF SInv, Shape
  <2>3. pc'[b] \in Labels \ {"emit"}
    BY <2>1 DEF Labels
  <2> QED
    BY <2>2, <2>3, AwayShape
<1> QED
  BY <1>2, <1>3, <1>4

(* Load *)
LEMMA LoadShape ==
  ASSUME IInv, SInv, NEW b \in Builders, Load(b)
  PROVE  SInv'
<1>1. TypeOK /\ Others(b) /\ UNCHANGED <<env, src, objects>>
  BY LoadKeeps DEF IInv, Load, files
<1>2. snap'[b] = src
  BY <1>1 DEF Load, TypeOK
<1>3. CASE opt[b] = "exe" /\ mode[b] = "cached" /\ "whole" \notin env
  <2>1. pc'[b] = "emit" /\ todo'[b] = Modules
    BY <1>1, <1>3 DEF Load, TypeOK, Goto
  <2>2. "emit" \notin Modules
    BY LabelsApart DEF Labels
  <2>3. Shape(b)'
    BY <1>1, <1>2, <2>1, <2>2 DEF Shape
  <2> QED
    BY <1>1, <2>3, QuietShape
<1>4. CASE ~(opt[b] = "exe" /\ mode[b] = "cached" /\ "whole" \notin env)
  <2>1. pc'[b] = "link"
    BY <1>1, <1>4 DEF Load, TypeOK, Goto
  <2> QED
    BY <1>1, <1>2, <2>1, AwayShape DEF Labels
<1> QED
  BY <1>3, <1>4

(* LookUp *)
LEMMA LookUpShape ==
  ASSUME IInv, SInv, NEW b \in Builders, NEW m \in Modules, LookUp(b, m)
  PROVE  SInv'
<1>1. TypeOK /\ Others(b) /\ UNCHANGED <<env, src, objects, snap>> /\ pc[b] = "emit"
  BY LookUpKeeps DEF IInv, LookUp, files
<1>2. ASSUME Steady PROVE Shape(b)'
  <2>1. snap[b] = src /\ \A n \in Modules \ todo[b] : key[b][n] = Key(n, src[n], src)
    BY <1>1, <1>2 DEF SInv, Shape
  <2>2. /\ key'[b][m] = Key(m, src[m], src)
        /\ \A n \in Modules : n # m => key'[b][n] = key[b][n]
        /\ \/ pc'[b] = "emit" /\ todo'[b] = todo[b] \ {m}
           \/ pc'[b] = m /\ todo'[b] = todo[b]
    BY <1>1, <2>1, LookUpDoes
  <2>3. \A n \in Modules \ todo'[b] : key'[b][n] = Key(n, src[n], src)
    BY <2>1, <2>2
  <2>4. pc'[b] \in Modules => key'[b][pc'[b]] = Key(pc'[b], src[pc'[b]], src)
    <3>1. "emit" \notin Modules
      BY LabelsApart DEF Labels
    <3> QED
      BY <2>2, <3>1
  <2>5. Key(pc[b], src[pc[b]], src)' = Key(pc'[b], src[pc'[b]], src)
    BY <1>1 DEF Key, Interface
  <2>6. \A n \in Modules : Key(n, src[n], src)' = Key(n, src[n], src)
    BY <1>1 DEF Key, Interface
  <2>7. (snap[b] = src)'
    BY <1>1, <2>1
  <2> QED
    BY <2>3, <2>4, <2>5, <2>6, <2>7 DEF Shape
<1> QED
  BY <1>1, <1>2, QuietShape

(* EmitOpen: the object is truncated. *)
LEMMA EmitOpenShape ==
  ASSUME IInv, SInv, NEW b \in Builders, EmitOpen(b)
  PROVE  SInv'
<1>1. TypeOK /\ Locals
  BY DEF IInv
<1>2. UNCHANGED <<env, src, pc, snap, todo, key>> /\ pc[b] \in Modules
  BY DEF EmitOpen
<1> SUFFICES ASSUME Steady PROVE ObjectsMatchKeys' /\ \A c \in Builders : Shape(c)'
  BY <1>2 DEF SInv, Steady
<1>3. ObjectsMatchKeys'
  <2>1. PICK k \in Keys : k = key[b][pc[b]]
    BY <1>1, <1>2 DEF Locals, LocalOK
  <2>2. objects' = Put(objects, k, Torn)
    BY <2>1 DEF EmitOpen
  <2>3. /\ objects'[k] = Torn
        /\ \A x \in DOMAIN objects' : x = k \/ (x \in DOMAIN objects /\ objects'[x] = objects[x])
    BY <1>1, <2>2, PutKeeps
  <2> QED
    BY <2>3 DEF SInv, ObjectsMatchKeys
<1>4. \A c \in Builders : Shape(c)'
  BY <1>2 DEF SInv, Shape
<1> QED
  BY <1>3, <1>4

(* EmitWrite: what is written is what the name says, since the text that   *)
(* was loaded is the text that was digested.                               *)
LEMMA EmitWriteShape ==
  ASSUME IInv, SInv, NEW b \in Builders, EmitWrite(b)
  PROVE  SInv'
<1>1. TypeOK /\ Others(b) /\ UNCHANGED <<env, src, snap, key>> /\ pc[b] \in Modules
  BY EmitWriteKeeps DEF IInv, EmitWrite
<1> SUFFICES ASSUME Steady PROVE ObjectsMatchKeys' /\ \A c \in Builders : Shape(c)'
  BY <1>1 DEF SInv, Steady
<1>2. /\ snap[b] = src /\ key[b][pc[b]] = Key(pc[b], src[pc[b]], src)
      /\ \A m \in Modules \ todo[b] : key[b][m] = Key(m, src[m], src)
  <2>1. "idle" \notin Modules /\ "load" \notin Modules
    BY LabelsApart DEF Labels
  <2> QED
    BY <1>1, <2>1 DEF SInv, Shape
<1>3. ObjectsMatchKeys'
  <2>1. PICK m \in Modules : m = pc[b]
    BY <1>1
  <2>2. src \in Sources /\ src[m] \in Source
    BY <1>1 DEF TypeOK, Sources
  <2>3. PICK k \in Keys : k = Key(m, src[m], src)
    BY <2>2, KeyType
  <2>4. k[2] = src[m] /\ k[3] = Interface(src)
    BY <2>2, <2>3, KeyType
  <2>5. PICK v \in ObjectFile : v = Object(src, m, FALSE)
    BY <2>2, ObjectType
  <2>6. v.own = src[m] /\ v.sigs = Interface(src)
    BY <2>2, <2>5, ObjectType
  <2>7. objects' = Put(objects, k, v)
    BY <1>2, <2>1, <2>3, <2>5 DEF EmitWrite
  <2>8. /\ objects'[k] = v
        /\ \A x \in DOMAIN objects' : x = k \/ (x \in DOMAIN objects /\ objects'[x] = objects[x])
    BY <1>1, <2>7, PutKeeps
  <2> QED
    BY <2>4, <2>6, <2>8 DEF SInv, ObjectsMatchKeys
<1>4. Shape(b)'
  <2>1. pc'[b] = "emit" /\ todo'[b] = todo[b] \ {pc[b]} /\ "emit" \notin Modules
    BY <1>1, LabelsApart DEF EmitWrite, Goto, TypeOK, Labels
  <2>2. \A m \in Modules \ todo'[b] : key'[b][m] = Key(m, src[m], src)
    BY <1>1, <1>2, <2>1
  <2>3. \A n \in Modules : Key(n, src[n], src)' = Key(n, src[n], src)
    BY <1>1 DEF Key, Interface
  <2>4. (snap[b] = src)'
    BY <1>1, <1>2
  <2> QED
    BY <2>1, <2>2, <2>3, <2>4 DEF Shape
<1>5. ASSUME NEW c \in Builders, c # b PROVE Shape(c)'
  <2>1. Shape(c)
    BY DEF SInv
  <2>2. pc'[c] = pc[c] /\ snap'[c] = snap[c] /\ todo'[c] = todo[c] /\ key'[c] = key[c]
    BY <1>1, <1>5 DEF Others
  <2> QED
    BY <1>1, <2>1, <2>2 DEF Shape
<1> QED
  BY <1>3, <1>4, <1>5

(* Every step of a builder. *)
LEMMA BuildShape ==
  ASSUME IInv, SInv, NEW b \in Builders, Build(b)
  PROVE  SInv'
<1>1. Others(b)
  BY BuildKeeps
<1>2. ASSUME NEW o \in Outputs,
             RecordUnreadable(b, o) \/ Reuse(b, o) \/ Miss(b, o) \/ Bypass(b, o)
      PROVE  SInv'
  <2>1. UNCHANGED <<env, src, objects>> /\ (Forget(b) \/ Goto(b, "load"))
    BY <1>2 DEF RecordUnreadable, Reuse, Miss, Bypass, Begin, Fail, Succeed, files
  <2> QED
    BY <1>1, <2>1, MoveShape
<1>3. CASE Rejected(b) \/ LinkFails(b) \/ RenameFails(b) \/ Abort(b)
  <2>1. UNCHANGED <<env, src, objects>> /\ Forget(b)
    BY <1>3 DEF Rejected, LinkFails, RenameFails, Abort, Fail, files
  <2> QED
    BY <1>1, <2>1, MoveShape
<1>4. ASSUME NEW m \in Modules, LookUp(b, m) PROVE SInv'
  BY <1>4, LookUpShape
<1>5. CASE Load(b) \/ EmitOpen(b) \/ EmitWrite(b)
  BY <1>5, LoadShape, EmitOpenShape, EmitWriteShape
<1>6. CASE LinkShared(b) \/ RecordOpen(b) \/ RecordWrite(b)
  <2>1. /\ UNCHANGED <<env, src, objects, snap>> /\ pc[b] \notin {"idle", "load"}
        /\ Goto(b, "record") \/ Goto(b, "write") \/ Goto(b, "rename")
    BY <1>6 DEF LinkShared, RecordOpen, RecordWrite
  <2> QED
    BY <1>1, <2>1, MoveShape
<1>7. CASE LinkPrivate(b)
  <2>1. /\ UNCHANGED <<env, src, objects>> /\ pc[b] = "link"
        /\ Forget(b) \/ (Goto(b, "record") /\ UNCHANGED snap)
    BY <1>7 DEF LinkPrivate, Succeed
  <2> QED
    BY <1>1, <2>1, MoveShape
<1>8. CASE RecordRename(b)
  <2>1. UNCHANGED <<env, src, objects>> /\ Forget(b)
    BY <1>8 DEF RecordRename, Succeed
  <2> QED
    BY <1>1, <2>1, MoveShape
<1> QED
  BY <1>2, <1>3, <1>4, <1>5, <1>6, <1>7, <1>8 DEF Build

(* Every step. *)
LEMMA NextShape ==
  ASSUME IInv, SInv, [Next]_vars
  PROVE  SInv'
<1>1. CASE Programmer
  <2>1. PICK m \in Modules, f \in Facets, v \in Nat : SaveSource(m, f, v)
    BY <1>1, ProgrammerSaves DEF IInv
  <2> QED
    BY <2>1, SaveShape
<1>2. ASSUME NEW b \in Builders, Build(b) PROVE SInv'
  BY <1>2, BuildShape
<1>3. CASE UNCHANGED vars
  BY <1>3 DEF vars, files, locals, SInv, Steady, ObjectsMatchKeys, Shape, Key, Interface
<1> QED
  BY <1>1, <1>2, <1>3 DEF Next

(* No object, no builder. *)
LEMMA InitShape ==
  ASSUME Init
  PROVE  SInv
<1>1. "idle" \notin Modules
  BY LabelsApart DEF Labels
<1>2. DOMAIN objects = {}
  BY DEF Init
<1> QED
  BY <1>1, <1>2 DEF Init, SInv, ObjectsMatchKeys, Shape

(* The objects and the keys are right in every behaviour without edits     *)
(* during a build.                                                         *)
LEMMA ShapeInductive == Spec => []SInv
<1>1. Init => SInv
  BY InitShape
<1>2. IInv /\ SInv /\ [Next]_vars => SInv'
  BY NextShape
<1> QED
  BY <1>1, <1>2, Inductive, PTL DEF Spec

-----------------------------------------------------------------------------
(* The outputs: every step keeps BInv. *)

(* A step of a builder that leaves each output alone, or makes it what a   *)
(* build from nothing would.                                               *)
Relinked ==
  /\ UNCHANGED <<env, locked, src, edits>>
  /\ \A o \in Outputs : out'[o] = out[o] \/ out'[o] = Plain(src, FALSE)

(* The inputs that are digested are those of the sources. *)
LEMMA GraphSame ==
  ASSUME UNCHANGED <<src, locked>>
  PROVE  Graph' = Graph /\ (Reusable' <=> Reusable)
BY DEF Graph, Reusable

(* A record that is in a file is a record. *)
LEMMA RecordFields ==
  ASSUME NEW r \in Record
  PROVE  r.output \in Outputs /\ r.graph \in Sources \cup [Modules \ Deps -> Source]
BY DEF Record

(* The other builders still find in their output what they linked. *)
LEMMA MadeKept ==
  ASSUME TypeOK, \A c \in Builders : Made(c), NEW b \in Builders, Others(b), Relinked, Made(b)'
  PROVE  \A c \in Builders : Made(c)'
<1>1. ASSUME NEW c \in Builders, c # b PROVE Made(c)'
  <2>1. Made(c)
    OBVIOUS
  <2>2. pc'[c] = pc[c] /\ opt'[c] = opt[c] /\ mode'[c] = mode[c] /\ body'[c] = body[c]
    BY <1>1 DEF Others
  <2>3. opt[c] \in Outputs /\ UNCHANGED <<env, src>> /\ Graph' = Graph
    BY GraphSame DEF TypeOK, Relinked
  <2>4. out'[opt[c]] = out[opt[c]] \/ out'[opt[c]] = Plain(src, FALSE)
    BY <2>3 DEF Relinked
  <2> QED
    BY <2>1, <2>2, <2>3, <2>4 DEF Made
<1> QED
  BY <1>1

(* What b hands out, if anything, is clean. *)
Handed(b) ==
  /\ \A c \in Builders \ {b} : result'[c] = result[c]
  /\ \/ result'[b] = None
     \/ result'[b] = result[b] /\ opt'[b] = opt[b]
     \/ /\ result'[b].output = opt'[b] /\ result'[b].probes = FALSE
        /\ result'[b].code = Plain(src, FALSE)

(* The results of the others stay right: the sources have not changed. *)
LEMMA ResultsKept ==
  ASSUME ResultsPlain, NEW b \in Builders, Others(b), Relinked, Handed(b)
  PROVE  ResultsPlain'
<1> SUFFICES ASSUME NEW c \in Builders, result'[c] # None
             PROVE  result'[c].output = opt'[c] /\ result'[c].code = Plain(src, result'[c].probes)
  BY DEF ResultsPlain, Relinked
<1>1. CASE result'[c] = result[c] /\ opt'[c] = opt[c]
  BY <1>1, Zenon DEF ResultsPlain
<1>2. CASE ~(result'[c] = result[c] /\ opt'[c] = opt[c])
  <2>1. c = b
    BY <1>2 DEF Others, Handed
  <2>2. result'[b].output = opt'[b] /\ result'[b].probes = FALSE /\ result'[b].code = Plain(src,
          FALSE)
    BY <1>2, <2>1 DEF Handed
  <2> QED
    BY <2>1, <2>2, Zenon
<1> QED
  BY <1>1, <1>2

(* Steps that write no object keep the objects free of foreign text. *)
LEMMA EmbedsKept ==
  ASSUME NoEmbeds, UNCHANGED <<src, objects>>
  PROVE  NoEmbeds'
BY DEF NoEmbeds

(* Without reverts, a step of a builder that writes records which describe *)
(* the sources, if any.                                                    *)
LEMMA ForwardKept ==
  ASSUME TypeOK, TypeOK', Forward, Relinked,
         \A i \in Inodes : data'[i] = data[i] \/ ~Readable(data'[i]) \/ Current(data[i])'
  PROVE  Forward'
<1>1. UNCHANGED <<src, locked, edits>> /\ Graph' = Graph /\ (Reusable' <=> Reusable)
  BY GraphSame DEF Relinked
<1>2. Bounded(src)'
  BY <1>1 DEF Forward, Bounded
<1>3. Bounded(Graph)
  <2>1. Bounded(src)
    BY DEF Forward
  <2>2. DOMAIN Graph \subseteq Modules /\ \A m \in DOMAIN Graph : Graph[m] = src[m]
    BY IncrementalAssumption DEF Graph
  <2>3. DOMAIN src = Modules
    BY DEF TypeOK, Sources
  <2> QED
    BY <2>1, <2>2, <2>3 DEF Bounded
<1>4. ASSUME NEW i \in Inodes, Readable(data'[i]) PROVE Bounded(data[i].graph)' /\ Fresh(data[i])'
  <2>1. PICK r \in Record : r = data'[i]
    BY <1>4, ReadableRecord DEF TypeOK
  <2>2. r.output \in Outputs
    BY RecordFields
  <2>3. SUFFICES (\A m \in DOMAIN r.graph : \A f \in AllFacets : r.graph[m][f] <= edits)
                 /\ (Reusable /\ r.graph = src => out'[r.output] = Plain(src, FALSE))
    BY <1>1, <2>1 DEF Bounded, Fresh
  <2>4. CASE r = data[i]
    <3>1. Readable(r)
      BY <1>4, <2>1
    <3>2. Bounded(r.graph) /\ Fresh(r)
      BY <2>4, <3>1 DEF Forward
    <3>3. out'[r.output] = out[r.output] \/ out'[r.output] = Plain(src, FALSE)
      BY <2>2 DEF Relinked
    <3> QED
      BY <3>2, <3>3 DEF Bounded, Fresh
  <2>5. CASE r # data[i]
    <3>1. r.graph = Graph /\ out'[r.output] = Plain(src, FALSE)
      BY <1>1, <1>4, <2>1, <2>5 DEF Current
    <3> QED
      BY <1>3, <3>1 DEF Bounded
  <2> QED
    BY <2>4, <2>5
<1> QED
  BY <1>2, <1>4 DEF Forward

(* With reverts, a record that describes the sources describes its output. *)
LEMMA CurrentIsSound ==
  ASSUME TypeOK, NEW r, Current(r)
  PROVE  Sound(r)
BY GraphType DEF TypeOK, Current, Sound

(* Relinking an output leaves the records that describe the sources alone. *)
LEMMA CurrentKept ==
  ASSUME NEW r \in Record, Current(r), Relinked
  PROVE  r.graph = Graph' /\ out'[r.output] = Plain(src', FALSE)
<1>1. UNCHANGED src /\ Graph' = Graph /\ r.output \in Outputs
  BY GraphSame, RecordFields DEF Relinked
<1> QED
  BY <1>1 DEF Current, Relinked

(* ... and so do the steps of builders that do not write records. *)
LEMMA NowKept ==
  ASSUME TypeOK, NEW i \in Inodes, Now(i), Relinked, data'[i] = data[i]
  PROVE  Now(i)'
<1> SUFFICES ASSUME Readable(data[i])
             PROVE  data[i].graph = Graph' /\ out'[data[i].output] = Plain(src', FALSE)
  BY DEF Now, Current
<1>1. PICK r \in Record : r = data[i]
  BY ReadableRecord DEF TypeOK
<1>2. Current(r)
  BY <1>1 DEF Now
<1> QED
  BY <1>1, <1>2, CurrentKept

(* A builder that was not writing, and is not, or has just linked. *)
LEMMA BackwardKept ==
  ASSUME TypeOK, Backward, NEW b \in Builders, Others(b), Relinked, UNCHANGED <<tmp, rec, data>>,
         pc[b] \notin Linked, pc'[b] \notin Writing, pc'[b] # "record" => UNCHANGED out
  PROVE  Backward'
<1>1. UNCHANGED <<src, locked>> /\ Graph' = Graph /\ (Reusable' <=> Reusable)
  BY GraphSame DEF Relinked
<1>2. Busy' <=> Busy
  BY DEF Busy, Others, Linked
<1>3. Pending => Pending'
  BY DEF Pending, Others
<1>4. ASSUME tmp # None PROVE Now(tmp)' /\ Busy'
  <2>1. PICK i \in Inodes : i = tmp
    BY <1>4 DEF TypeOK
  <2>2. Now(i) /\ Busy
    BY <1>4, <2>1 DEF Backward
  <2>3. Now(i)'
    BY <2>2, NowKept
  <2> QED
    BY <1>2, <2>1, <2>2, <2>3 DEF Now, Current
<1>5. ASSUME tmp = None, Busy PROVE rec # None /\ Now(rec)'
  <2>1. PICK i \in Inodes : i = rec
    BY <1>5 DEF TypeOK, Backward
  <2>2. Now(i)
    BY <1>5, <2>1 DEF Backward
  <2>3. Now(i)'
    BY <2>2, NowKept
  <2> QED
    BY <1>5, <2>1, <2>3 DEF Now, Current, Backward
<1>6. ASSUME rec # None, Readable(data[rec])
      PROVE  (Sound(data[rec]) \/ (Pending /\ data[rec].graph # Graph))'
  <2>1. PICK r \in Record : r = data[rec]
    BY <1>6, ReadableRecord DEF TypeOK
  <2>2. r.output \in Outputs
    BY RecordFields
  <2>3. SUFFICES \/ Reusable => out'[r.output] = Plain(r.graph, FALSE)
                 \/ Pending' /\ r.graph # Graph
    BY <1>1, <2>1 DEF Sound
  <2>4. (Reusable => out[r.output] = Plain(r.graph, FALSE)) \/ (Pending /\ r.graph # Graph)
    BY <1>6, <2>1 DEF Backward, Sound
  <2>5. CASE pc'[b] = "record"
    <3>1. Pending'
      BY <2>5 DEF Pending, Linked
    <3>2. ASSUME r.graph = Graph, Reusable PROVE out'[r.output] = Plain(r.graph, FALSE)
      <4>1. r.graph = src
        BY <3>2, GraphType DEF TypeOK
      <4>2. out[r.output] = Plain(src, FALSE)
        BY <2>4, <3>2, <4>1
      <4>3. out'[r.output] = out[r.output] \/ out'[r.output] = Plain(src, FALSE)
        BY <2>2 DEF Relinked
      <4> QED
        BY <4>1, <4>2, <4>3
    <3> QED
      BY <3>1, <3>2
  <2>6. CASE pc'[b] # "record"
    BY <1>3, <2>4, <2>6
  <2> QED
    BY <2>5, <2>6
<1> QED
  BY <1>2, <1>4, <1>5, <1>6 DEF Backward

(* The parts of BInv, for a step of a builder. *)
LEMMA OutputsKept ==
  ASSUME IInv, BInv, Tame, NEW b \in Builders, Others(b), Relinked, Handed(b), NoEmbeds', Made(b)',
         Records'
  PROVE  BInv'
<1>1. TypeOK /\ ResultsPlain /\ \A c \in Builders : Made(c)
  BY DEF IInv, BInv
<1>2. ResultsPlain'
  BY <1>1, ResultsKept
<1>3. \A c \in Builders : Made(c)'
  BY <1>1, MadeKept
<1> QED
  BY <1>2, <1>3 DEF BInv

(* A builder that is not compiling, and has not linked. *)
LEMMA AwayMade ==
  ASSUME NEW b \in Builders, pc'[b] \in {"idle", "load", "link"}, UNCHANGED env,
         mode'[b] # "instrument", "bypass" \notin env => mode'[b] = "cached"
  PROVE  Made(b)'
<1>1. pc'[b] \notin Modules /\ pc'[b] # "emit" /\ pc'[b] \notin Linked
  BY LabelsApart DEF Labels, Linked, Writing
<1> QED
  BY <1>1 DEF Made, Linked

(* The records, for a builder that was not writing and does not write. *)
LEMMA RecordsKept ==
  ASSUME IInv, IInv', BInv, Tame, NEW b \in Builders, Others(b), Relinked,
         UNCHANGED <<tmp, rec, data>>,
         "revert" \in env => /\ pc[b] \notin Linked /\ pc'[b] \notin Writing
                             /\ pc'[b] # "record" => UNCHANGED out
  PROVE  Records'
<1>1. TypeOK /\ TypeOK' /\ Records /\ UNCHANGED env
  BY DEF IInv, BInv, Relinked
<1>2. CASE "revert" \in env
  <2>1. Backward
    BY <1>1, <1>2 DEF Records
  <2>2. Backward'
    BY <1>1, <1>2, <2>1, BackwardKept
  <2> QED
    BY <1>1, <1>2, <2>2 DEF Records
<1>3. CASE "revert" \notin env
  <2>1. Forward
    BY <1>1, <1>3 DEF Records
  <2>2. Forward'
    BY <1>1, <2>1, ForwardKept
  <2> QED
    BY <1>1, <1>3, <2>2 DEF Records
<1> QED
  BY <1>2, <1>3

(* The record of the sources, if it is reused, names a clean output. *)
LEMMA ReusedIsClean ==
  ASSUME IInv, BInv, Tame, NEW o \in Outputs,
         Reusable, rec # None, Readable(data[rec]), Matches(data[rec], o)
  PROVE  out[o] = Plain(src, FALSE)
<1>1. PICK i \in Inodes : i = rec
  BY DEF IInv, TypeOK
<1>2. PICK r \in Record : r = data[i]
  BY <1>1, ReadableRecord DEF IInv, TypeOK
<1>3. r.output = o /\ r.graph = Graph /\ Readable(r)
  BY <1>1, <1>2 DEF Matches
<1>4. Graph = src
  BY GraphType DEF IInv, TypeOK
<1>5. CASE "revert" \in env
  <2>1. Sound(r)
    BY <1>1, <1>2, <1>3, <1>5 DEF BInv, Records, Backward
  <2> QED
    BY <1>3, <1>4, <2>1 DEF Sound
<1>6. CASE "revert" \notin env
  <2>1. Fresh(r)
    BY <1>1, <1>2, <1>3, <1>6 DEF BInv, Records, Forward
  <2> QED
    BY <1>3, <1>4, <2>1 DEF Fresh
<1> QED
  BY <1>5, <1>6

(* Without reverts, or before it links, a builder that stops, or one that  *)
(* starts, changes no record.                                              *)
LEMMA AwayOutputs ==
  ASSUME IInv, IInv', BInv, Tame, NEW b \in Builders, Others(b), Handed(b),
         UNCHANGED <<env, locked, files, edits>>,
         pc'[b] \in {"idle", "load", "link"},
         mode'[b] # "instrument", "bypass" \notin env => mode'[b] = "cached",
         "revert" \in env => pc[b] \notin Linked
  PROVE  BInv'
<1>1. Relinked /\ UNCHANGED <<tmp, rec, data, src, objects, out>>
  BY DEF files, Relinked
<1>2. pc'[b] \notin Writing
  BY DEF Writing
<1>3. Records'
  BY <1>1, <1>2, RecordsKept
<1>4. NoEmbeds'
  BY <1>1, EmbedsKept DEF BInv
<1>5. Made(b)'
  BY AwayMade
<1> QED
  BY <1>1, <1>3, <1>4, <1>5, OutputsKept

(* RecordUnreadable, Reuse, Miss and Bypass. *)
LEMMA BeginOutputs ==
  ASSUME IInv, IInv', BInv, NEW b \in Builders, Others(b), NEW o \in Outputs,
         RecordUnreadable(b, o) \/ Reuse(b, o) \/ Miss(b, o) \/ Bypass(b, o)
  PROVE  BInv'
<1>1. TypeOK /\ Begin(b, o)
  BY DEF IInv, RecordUnreadable, Reuse, Miss, Bypass
<1>2. /\ UNCHANGED <<env, locked, files, edits>> /\ UNCHANGED <<out, src>>
      /\ pc[b] = "idle" /\ opt'[b] = o
  BY <1>1, BeginDoes DEF files
<1> SUFFICES ASSUME Tame PROVE BInv'
  BY <1>2 DEF BInv, Tame, Steady
<1>3. mode[b] # "instrument" /\ ("bypass" \notin env => mode[b] = "cached")
  BY DEF BInv, Made
<1>4. pc[b] \notin Linked
  BY <1>2 DEF Linked, Writing
<1>5. CASE RecordUnreadable(b, o)
  <2>1. Forget(b) /\ Handed(b)
    BY <1>1, <1>5, NoResult DEF RecordUnreadable, Fail, Handed
  <2>2. pc'[b] = "idle" /\ mode'[b] = "cached"
    BY <1>1, <2>1, ForgetDoes
  <2> QED
    BY <1>2, <1>4, <2>1, <2>2, AwayOutputs
<1>6. CASE Reuse(b, o)
  <2>1. out[o] = Plain(src, FALSE)
    BY <1>6, ReusedIsClean DEF Reuse
  <2>2. Succeed(b, o) /\ out' \in [Outputs -> [Modules -> ObjectFile] \cup {None}]
    BY <1>1, <1>2, <1>6 DEF Reuse, Matches, TypeOK
  <2>3. /\ Forget(b) /\ result'[b].output = o /\ result'[b].code = out'[o]
        /\ result'[b].probes = (mode[b] = "instrument")
        /\ \A c \in Builders \ {b} : result'[c] = result[c]
    BY <1>1, <2>2, SucceedDoes
  <2>4. result'[b].probes = FALSE
    BY <1>3, <2>3, Zenon
  <2>5. Handed(b)
    BY <1>2, <2>1, <2>3, <2>4 DEF Handed
  <2>6. pc'[b] = "idle" /\ mode'[b] = "cached"
    BY <1>1, <2>3, ForgetDoes
  <2> QED
    BY <1>2, <1>4, <2>5, <2>6, AwayOutputs
<1>7. CASE Miss(b, o)
  <2>1. Handed(b)
    BY <1>1, <1>7, NoResult DEF Miss, Handed
  <2>2. pc'[b] = "load" /\ UNCHANGED mode
    BY <1>1, <1>7 DEF Miss, Goto, TypeOK
  <2> QED
    BY <1>2, <1>3, <1>4, <2>1, <2>2, AwayOutputs
<1>8. CASE Bypass(b, o)
  <2>1. Handed(b)
    BY <1>1, <1>8, NoResult DEF Bypass, Handed
  <2>2. PICK d \in Modes \cap env : mode' = [mode EXCEPT ![b] = d]
    BY <1>8 DEF Bypass
  <2>3. d = "bypass" /\ "bypass" \in env
    BY <2>2 DEF Modes, Tame
  <2>4. pc'[b] = "load" /\ mode'[b] = "bypass"
    BY <1>1, <1>8, <2>2, <2>3 DEF Bypass, Goto, TypeOK
  <2> QED
    BY <1>2, <1>4, <2>1, <2>3, <2>4, AwayOutputs
<1> QED
  BY <1>5, <1>6, <1>7, <1>8

(* RenameFails: the build that has renamed the shared file has put in      *)
(* place a record that describes the sources.                              *)
LEMMA RenameFailsRecords ==
  ASSUME IInv, BInv, Tame, NEW b \in Builders, Others(b), UNCHANGED <<env, locked, files>>,
         "revert" \in env, pc[b] = "rename", tmp = None
  PROVE  Backward'
<1>1. TypeOK /\ Backward /\ UNCHANGED <<locked, src, out, tmp, rec, data>>
  BY DEF IInv, BInv, Records, files
<1>2. Graph' = Graph /\ (Reusable' <=> Reusable)
  BY <1>1, GraphSame
<1>3. rec # None /\ Now(rec)
  BY <1>1 DEF Backward, Busy, Writing
<1>4. Now(rec)'
  BY <1>1, <1>2, <1>3 DEF Now, Current
<1>5. ASSUME Readable(data[rec]) PROVE Sound(data[rec])'
  <2>1. PICK r : r = data[rec]
    OBVIOUS
  <2>2. Sound(r)
    BY <1>1, <1>3, <1>5, <2>1, CurrentIsSound DEF Now
  <2> QED
    BY <1>1, <1>2, <2>1, <2>2 DEF Sound
<1> QED
  BY <1>1, <1>3, <1>4, <1>5 DEF Backward

(* Rejected, LinkFails, RenameFails and Abort. *)
LEMMA FailOutputs ==
  ASSUME IInv, IInv', BInv, NEW b \in Builders, Others(b),
         Rejected(b) \/ LinkFails(b) \/ RenameFails(b) \/ Abort(b)
  PROVE  BInv'
<1>1. /\ TypeOK /\ Fail(b) /\ UNCHANGED <<env, locked, files, opt, edits, builds>>
      /\ \/ pc[b] \in {"load", "emit"} \/ "abort" \in env
         \/ pc[b] = "rename" /\ tmp = None
  BY DEF IInv, Rejected, LinkFails, RenameFails, Abort
<1> SUFFICES ASSUME Tame PROVE BInv'
  BY <1>1 DEF BInv, Tame, Steady
<1>2. Handed(b) /\ Forget(b)
  BY <1>1, NoResult DEF Fail, Handed
<1>3. pc'[b] = "idle" /\ mode'[b] = "cached"
  BY <1>1, <1>2, ForgetDoes
<1>4. CASE "revert" \in env => pc[b] \notin Linked
  BY <1>1, <1>2, <1>3, <1>4, AwayOutputs
<1>5. CASE "revert" \in env /\ pc[b] \in Linked
  <2>1. pc[b] = "rename" /\ tmp = None
    BY <1>1, <1>5 DEF Tame, Linked, Writing
  <2>2. Records'
    BY <1>1, <1>5, <2>1, RenameFailsRecords DEF Records
  <2>3. Relinked /\ UNCHANGED <<src, objects>>
    BY <1>1 DEF files, Relinked
  <2>4. NoEmbeds'
    BY <2>3, EmbedsKept DEF BInv
  <2>5. Made(b)'
    BY <1>1, <1>3, AwayMade
  <2> QED
    BY <1>2, <2>2, <2>3, <2>4, <2>5, OutputsKept
<1> QED
  BY <1>4, <1>5

(* A builder that loads, looks for objects or compiles. *)
LEMMA CompileOutputs ==
  ASSUME IInv, IInv', BInv, Tame, NEW b \in Builders, Others(b),
         UNCHANGED <<env, locked, src, out, tmp, rec, data, edits>>,
         UNCHANGED <<opt, mode, result>>, NoEmbeds',
         pc[b] \in Modules \cup {"load", "emit"}, pc'[b] \in Modules \cup {"emit", "link"},
         pc[b] = "load" /\ pc'[b] # "link" => opt[b] = "exe" /\ mode[b] = "cached",
         pc'[b] = "link" => pc[b] = "load"
  PROVE  BInv'
<1>1. Relinked /\ Handed(b)
  BY DEF Relinked, Handed
<1>2. \A l \in Linked \cup {"load", "emit", "link"} : l \notin Modules
  BY LabelsApart DEF Labels, Linked, Writing
<1>3. pc[b] \notin Linked /\ pc'[b] \notin Linked
  BY <1>2 DEF Linked, Writing
<1>4. Records'
  BY <1>1, <1>3, RecordsKept DEF Linked
<1>5. Made(b)
  BY DEF BInv
<1>6. Made(b)'
  BY <1>2, <1>3, <1>5 DEF Made, Linked
<1> QED
  BY <1>1, <1>4, <1>6, OutputsKept

(* Load and LookUp. *)
LEMMA LoadOutputs ==
  ASSUME IInv, IInv', BInv, NEW b \in Builders, Others(b),
         Load(b) \/ \E m \in Modules : LookUp(b, m)
  PROVE  BInv'
<1>1. /\ TypeOK /\ UNCHANGED <<env, locked, src, objects, out, tmp, rec, data, edits>>
      /\ UNCHANGED <<opt, mode, result>>
  BY DEF IInv, Load, LookUp, files
<1> SUFFICES ASSUME Tame PROVE BInv'
  BY <1>1 DEF BInv, Tame, Steady
<1>2. NoEmbeds'
  BY <1>1, EmbedsKept DEF BInv
<1>3. CASE Load(b)
  <2>1. /\ pc[b] = "load"
        /\ \/ pc'[b] = "emit" /\ opt[b] = "exe" /\ mode[b] = "cached"
           \/ pc'[b] = "link"
    BY <1>1, <1>3 DEF Load, Goto, TypeOK
  <2> QED
    BY <1>1, <1>2, <2>1, CompileOutputs
<1>4. ASSUME NEW m \in Modules, LookUp(b, m) PROVE BInv'
  <2>1. pc[b] = "emit" /\ (pc'[b] = "emit" \/ pc'[b] = m)
    BY <1>1, <1>4, LookUpDoes DEF LookUp
  <2>2. m # "link"
    BY LabelsApart DEF Labels
  <2> QED
    BY <1>1, <1>2, <2>1, <2>2, CompileOutputs
<1> QED
  BY <1>3, <1>4

(* EmitOpen and EmitWrite: no object embeds another module's text. *)
LEMMA EmitOutputs ==
  ASSUME IInv, IInv', SInv, BInv, NEW b \in Builders, Others(b), EmitOpen(b) \/ EmitWrite(b)
  PROVE  BInv'
<1>1. /\ TypeOK /\ UNCHANGED <<env, locked, src, out, tmp, rec, data, edits>>
      /\ UNCHANGED <<opt, mode, result>> /\ pc[b] \in Modules
  BY DEF IInv, EmitOpen, EmitWrite
<1> SUFFICES ASSUME Tame PROVE BInv'
  BY <1>1 DEF BInv, Tame, Steady
<1>2. PICK m \in Modules : m = pc[b]
  BY <1>1
<1>3. PICK k \in Keys : k = key[b][m]
  BY <1>1, <1>2 DEF IInv, Locals, LocalOK
<1>4. "idle" \notin Modules /\ "load" \notin Modules /\ "link" \notin Modules
  BY LabelsApart DEF Labels
<1>5. snap[b] = src
  BY <1>1, <1>4 DEF SInv, Shape, Tame
<1>6. PICK v \in ObjectFile : v = Object(src, m, FALSE)
  BY <1>1, ObjectType DEF TypeOK
<1>7. v.probes = FALSE /\ v.embeds = [n \in Modules |-> 0] /\ v.inlined = [n \in Modules |-> 0]
  <2>1. /\ v.probes = FALSE /\ v.embeds = [n \in Modules |-> src[n]["embed"]]
        /\ v.inlined = [n \in Modules |-> 0]
    <3>1. src \in Sources /\ "aggressive" \notin env
      BY <1>1 DEF TypeOK, Tame
    <3> QED
      BY <1>6, <3>1, ObjectType, Zenon
  <2> QED
    BY <2>1 DEF BInv, NoEmbeds
<1>8. NoEmbeds'
  <2>1. PICK w \in {Torn, v} : objects' = Put(objects, k, w)
    BY <1>2, <1>3, <1>5, <1>6 DEF EmitOpen, EmitWrite
  <2>2. /\ objects'[k] = w
        /\ \A x \in DOMAIN objects' : x = k \/ (x \in DOMAIN objects /\ objects'[x] = objects[x])
    BY <1>1, <2>1, PutKeeps
  <2>3. NoEmbeds
    BY DEF BInv
  <2> QED
    BY <1>1, <1>7, <2>2, <2>3 DEF NoEmbeds
<1>9. pc'[b] = pc[b] \/ pc'[b] = "emit"
  BY <1>1 DEF EmitOpen, EmitWrite, Goto, TypeOK
<1> QED
  BY <1>1, <1>4, <1>8, <1>9, CompileOutputs

(* The objects that LinkShared links are those of a build from nothing:    *)
(* their keys are those of the sources, and what a key leaves out is the   *)
(* same in every program that can be built.                                *)
LEMMA LinkedIsClean ==
  ASSUME IInv, SInv, BInv, Tame, NEW b \in Builders, LinkShared(b)
  PROVE  [m \in Modules |-> objects[key[b][m]]] = Plain(src, FALSE)
<1>1. src \in Sources /\ ObjectsMatchKeys /\ NoEmbeds
  BY DEF IInv, TypeOK, SInv, BInv, Tame
<1>2. \A m \in Modules : key[b][m] = Key(m, src[m], src)
  BY DEF SInv, Shape, Tame, LinkShared
<1>3. ASSUME NEW m \in Modules PROVE objects[key[b][m]] = Object(src, m, FALSE)
  <2>1. PICK k \in Keys : k = Key(m, src[m], src)
    BY <1>1, KeyType DEF Sources
  <2>2. k[2] = src[m] /\ k[3] = Interface(src)
    BY <1>1, <2>1, KeyType DEF Sources
  <2>3. k \in DOMAIN objects /\ objects[k] # Torn
    BY <1>2, <2>1, LinkSharedDoes
  <2>4. PICK x \in ObjectFile : x = objects[k]
    BY <1>2, <2>1, LinkSharedDoes
  <2>5. x.own = src[m] /\ x.sigs = Interface(src)
    BY <1>1, <2>2, <2>3, <2>4 DEF ObjectsMatchKeys
  <2>6. x.probes = FALSE /\ x.embeds = [n \in Modules |-> 0] /\ x.inlined = [n \in Modules |-> 0]
    BY <1>1, <2>3, <2>4 DEF NoEmbeds
  <2>7. PICK y \in ObjectFile : y = Object(src, m, FALSE)
    BY <1>1, ObjectType
  <2>8. /\ y.own = src[m] /\ y.sigs = Interface(src) /\ y.probes = FALSE
        /\ y.embeds = [n \in Modules |-> 0] /\ y.inlined = [n \in Modules |-> 0]
    <3>1. /\ y.own = src[m] /\ y.sigs = Interface(src) /\ y.probes = FALSE
          /\ y.embeds = [n \in Modules |-> src[n]["embed"]]
          /\ y.inlined = [n \in Modules |-> 0]
      BY <1>1, <2>7, ObjectType DEF Tame
    <3> QED
      BY <1>1, <3>1 DEF NoEmbeds
  <2>9. x = y
    BY <2>5, <2>6, <2>8 DEF ObjectFile
  <2> QED
    BY <1>2, <2>1, <2>4, <2>7, <2>9
<1>4. [m \in Modules |-> objects[key[b][m]]] = Clean(src, FALSE)
  BY <1>3 DEF Clean
<1> QED
  BY <1>4, PlainIsClean DEF Tame

(* A builder that has just linked a clean output. *)
LEMMA LinkOutputs ==
  ASSUME IInv, IInv', BInv, Tame, NEW b \in Builders, Others(b),
         UNCHANGED <<env, locked, src, objects, tmp, rec, data, edits, opt, mode, result>>,
         pc[b] \in {"emit", "link"}, Goto(b, "record"), mode[b] = "cached",
         out' = [out EXCEPT ![opt[b]] = Plain(src, FALSE)]
  PROVE  BInv'
<1>1. TypeOK
  BY DEF IInv
<1>2. Relinked /\ Handed(b) /\ out'[opt[b]] = Plain(src, FALSE)
  BY <1>1 DEF Relinked, Handed, TypeOK
<1>3. pc'[b] = "record"
  BY <1>1 DEF Goto, TypeOK
<1>4. Records'
  BY <1>2, <1>3, RecordsKept DEF Linked, Writing
<1>5. NoEmbeds'
  BY EmbedsKept DEF BInv
<1>6. Made(b)'
  <2>1. "record" \notin Modules
    BY LabelsApart DEF Labels
  <2> QED
    BY <1>2, <1>3, <2>1 DEF Made, Linked, Writing, BInv
<1> QED
  BY <1>2, <1>4, <1>5, <1>6, OutputsKept

(* LinkShared *)
LEMMA LinkSharedOutputs ==
  ASSUME IInv, IInv', SInv, BInv, NEW b \in Builders, Others(b), LinkShared(b)
  PROVE  BInv'
<1>1. /\ UNCHANGED <<env, locked, src, objects, tmp, rec, data, edits, opt, mode, result>>
      /\ pc[b] = "emit" /\ Goto(b, "record")
  BY DEF LinkShared
<1> SUFFICES ASSUME Tame PROVE BInv'
  BY <1>1 DEF BInv, Tame, Steady
<1>2. opt[b] = "exe" /\ mode[b] = "cached"
  BY <1>1 DEF BInv, Made
<1>3. out' = [out EXCEPT ![opt[b]] = Plain(src, FALSE)]
  BY <1>2, LinkedIsClean DEF LinkShared
<1> QED
  BY <1>1, <1>2, <1>3, LinkOutputs

(* LinkPrivate: a library, or a build with the cache disabled. *)
LEMMA LinkPrivateOutputs ==
  ASSUME IInv, IInv', SInv, BInv, NEW b \in Builders, Others(b), LinkPrivate(b)
  PROVE  BInv'
<1>1. /\ TypeOK /\ UNCHANGED <<env, locked, src, objects, tmp, rec, data, edits, opt>>
      /\ pc[b] = "link"
  BY DEF IInv, LinkPrivate
<1> SUFFICES ASSUME Tame PROVE BInv'
  BY <1>1 DEF BInv, Tame, Steady
<1>2. snap[b] = src
  BY <1>1 DEF SInv, Shape, Tame
<1>3. (mode[b] = "instrument") = FALSE
  BY DEF BInv, Made
<1>4. out' = [out EXCEPT ![opt[b]] = Plain(src, FALSE)]
  BY <1>2, <1>3, PlainIsClean, Zenon DEF LinkPrivate, Tame
<1>5. CASE mode[b] = "cached"
  <2>1. Goto(b, "record") /\ UNCHANGED <<mode, result>>
    BY <1>5 DEF LinkPrivate
  <2> QED
    BY <1>1, <1>4, <1>5, <2>1, LinkOutputs
<1>6. CASE mode[b] # "cached"
  <2>1. Succeed(b, opt[b]) /\ opt[b] \in Outputs
    BY <1>1, <1>6 DEF LinkPrivate, TypeOK
  <2>2. out' \in [Outputs -> [Modules -> ObjectFile] \cup {None}]
    BY DEF IInv, TypeOK
  <2>3. /\ Forget(b) /\ result'[b].output = opt[b] /\ result'[b].code = out'[opt[b]]
        /\ result'[b].probes = (mode[b] = "instrument")
        /\ \A c \in Builders \ {b} : result'[c] = result[c]
    BY <1>1, <2>1, <2>2, SucceedDoes
  <2>4. result'[b].probes = FALSE
    BY <1>3, <2>3, Zenon
  <2>5. Relinked /\ out'[opt[b]] = Plain(src, FALSE)
    BY <1>1, <1>4 DEF Relinked, TypeOK
  <2>6. Handed(b)
    BY <1>1, <2>3, <2>4, <2>5 DEF Handed
  <2>7. pc'[b] = "idle" /\ mode'[b] = "cached"
    BY <1>1, <2>3, ForgetDoes
  <2>8. "revert" \notin env
    BY <1>6 DEF BInv, Made, Tame
  <2>9. Records'
    BY <1>1, <2>5, <2>8, RecordsKept
  <2>10. NoEmbeds'
    BY <1>1, EmbedsKept DEF BInv
  <2>11. Made(b)'
    BY <1>1, <2>7, AwayMade
  <2> QED
    BY <2>5, <2>6, <2>9, <2>10, <2>11, OutputsKept
<1> QED
  BY <1>5, <1>6

(* A builder that writes the record, and goes on to the next label. *)
LEMMA WritingOutputs ==
  ASSUME IInv, IInv', BInv, Tame, NEW b \in Builders, Others(b),
         UNCHANGED <<env, locked, src, objects, out, edits, opt, mode, result>>,
         pc[b] \in Linked, pc'[b] \in Writing,
         body'[b].output = opt[b] /\ body'[b].graph = Graph, Records'
  PROVE  BInv'
<1>1. Relinked /\ Handed(b) /\ Graph' = Graph
  BY GraphSame DEF Relinked, Handed
<1>2. NoEmbeds'
  BY EmbedsKept DEF BInv
<1>3. Made(b)
  BY DEF BInv
<1>4. Made(b)'
  <2>1. pc'[b] \notin Modules /\ pc'[b] # "emit"
    BY LabelsApart DEF Labels, Writing
  <2> QED
    BY <1>1, <1>3, <2>1 DEF Made, Linked
<1> QED
  BY <1>1, <1>2, <1>4, OutputsKept

(* RecordOpen *)
LEMMA RecordOpenOutputs ==
  ASSUME IInv, IInv', BInv, NEW b \in Builders, Others(b), RecordOpen(b)
  PROVE  BInv'
<1>1. /\ TypeOK /\ TypeOK' /\ UNCHANGED <<env, locked, src, objects, out, rec, edits, opt, mode,
           result>>
      /\ pc[b] = "record"
  BY DEF IInv, RecordOpen
<1> SUFFICES ASSUME Tame PROVE BInv'
  BY <1>1 DEF BInv, Tame, Steady
<1>2. PICK i \in Inodes : \E r \in Record :
        /\ r = [output |-> opt[b], graph |-> Graph] /\ body' = [body EXCEPT ![b] = r]
        /\ data' = [data EXCEPT ![i] = Torn] /\ tmp' = i
  BY <1>1, RecordOpenDoes
<1>3. PICK r \in Record :
        /\ r = [output |-> opt[b], graph |-> Graph] /\ body' = [body EXCEPT ![b] = r]
  BY <1>2
<1>4. body'[b].output = opt[b] /\ body'[b].graph = Graph
  <2>1. r.output = opt[b] /\ r.graph = Graph
    BY <1>3
  <2>2. body'[b] = r
    BY <1>1, <1>3 DEF TypeOK
  <2> QED
    BY <2>1, <2>2
<1>5. data'[i] = Torn /\ \A j \in Inodes : j # i => data'[j] = data[j]
  BY <1>1, <1>2 DEF TypeOK
<1>6. pc'[b] = "write"
  BY <1>1 DEF RecordOpen, Goto, TypeOK
<1>7. Relinked /\ Graph' = Graph /\ (Reusable' <=> Reusable)
  BY <1>1, GraphSame DEF Relinked
<1>8. Records'
  <2>1. CASE "revert" \in env
    <3>1. Backward
      BY <2>1 DEF BInv, Records
    <3>2. Busy' /\ Pending'
      BY <1>6 DEF Busy, Pending, Linked, Writing
    <3>3. tmp' # None /\ tmp' = i
      BY <1>2, IncrementalAssumption
    <3>4. Now(tmp)'
      BY <1>5, <3>3, ReadableRecord DEF Now
    <3>5. ASSUME rec # None, Readable(data'[rec])
          PROVE  (Sound(data[rec]) \/ (Pending /\ data[rec].graph # Graph))'
      <4>1. data'[rec] = data[rec]
        BY <1>1, <1>5, <3>5, ReadableRecord DEF TypeOK
      <4>2. Sound(data[rec]) \/ data[rec].graph # Graph
        BY <3>1, <3>5, <4>1 DEF Backward
      <4> QED
        BY <1>1, <1>7, <3>2, <4>1, <4>2 DEF Sound
    <3> QED
      BY <1>1, <2>1, <3>2, <3>3, <3>4, <3>5 DEF Records, Backward
  <2>2. CASE "revert" \notin env
    <3>1. Forward
      BY <2>2 DEF BInv, Records
    <3>2. Forward'
      BY <1>1, <1>5, <1>7, <3>1, ForwardKept, ReadableRecord
    <3> QED
      BY <1>1, <2>2, <3>2 DEF Records
  <2> QED
    BY <2>1, <2>2
<1> QED
  BY <1>1, <1>4, <1>6, <1>8, WritingOutputs DEF Linked, Writing

(* RecordWrite *)
LEMMA RecordWriteOutputs ==
  ASSUME IInv, IInv', BInv, NEW b \in Builders, Others(b), RecordWrite(b)
  PROVE  BInv'
<1>1. /\ TypeOK /\ TypeOK' /\ UNCHANGED <<env, locked, src, objects, out, tmp, rec, edits>>
      /\ UNCHANGED <<opt, mode, body, result>> /\ pc[b] = "write"
  BY DEF IInv, RecordWrite
<1> SUFFICES ASSUME Tame PROVE BInv'
  BY <1>1 DEF BInv, Tame, Steady
<1>2. PICK i \in Inodes : i = fd[b]
  BY RecordWriteDoes
<1>3. PICK r \in Record : r = body[b]
  BY RecordWriteDoes
<1>4. /\ data'[i] = r \/ ~Readable(data'[i])
      /\ \A j \in Inodes : j # i => data'[j] = data[j]
      /\ pc'[b] = "rename"
  BY <1>2, <1>3, RecordWriteDoes DEF Readable
<1>5. r.output = opt[b] /\ r.graph = Graph /\ out[opt[b]] = Plain(src, FALSE)
  BY <1>1, <1>3 DEF BInv, Made, Linked, Writing
<1>6. Relinked /\ Graph' = Graph /\ (Reusable' <=> Reusable)
  BY <1>1, GraphSame DEF Relinked
<1>7. Current(r) /\ Sound(r)
  BY <1>1, <1>5, CurrentIsSound DEF Current
<1>8. Records'
  <2>1. CASE "revert" \in env
    <3>1. Backward
      BY <2>1 DEF BInv, Records
    <3>2. Busy /\ Busy' /\ Pending'
      BY <1>1, <1>4 DEF Busy, Pending, Linked, Writing
    <3>3. ASSUME NEW j \in Inodes, Now(j) PROVE Now(j)'
      <4>1. CASE j = i
        BY <1>1, <1>4, <1>6, <1>7, <4>1 DEF Now, Current
      <4>2. CASE j # i
        BY <1>1, <1>4, <1>6, <3>3, <4>2, NowKept
      <4> QED
        BY <4>1, <4>2
    <3>4. ASSUME tmp # None PROVE Now(tmp)'
      <4>1. PICK j \in Inodes : j = tmp
        BY <1>1, <3>4 DEF TypeOK
      <4>2. Now(j)'
        BY <3>1, <3>3, <3>4, <4>1 DEF Backward
      <4> QED
        BY <1>1, <4>1, <4>2 DEF Now, Current
    <3>5. ASSUME tmp = None PROVE rec # None /\ Now(rec)'
      <4>1. rec # None /\ Now(rec)
        BY <3>1, <3>2, <3>5 DEF Backward
      <4>2. PICK j \in Inodes : j = rec
        BY <1>1, <4>1 DEF TypeOK
      <4>3. Now(j)'
        BY <3>3, <4>1, <4>2
      <4> QED
        BY <1>1, <4>1, <4>2, <4>3 DEF Now, Current
    <3>6. ASSUME rec # None, Readable(data'[rec])
          PROVE  (Sound(data[rec]) \/ (Pending /\ data[rec].graph # Graph))'
      <4>1. CASE rec = i
        BY <1>1, <1>4, <1>6, <1>7, <3>6, <4>1 DEF Sound
      <4>2. CASE rec # i
        <5>1. data'[rec] = data[rec]
          BY <1>1, <1>4, <3>6, <4>2 DEF TypeOK
        <5>2. Sound(data[rec]) \/ data[rec].graph # Graph
          BY <3>1, <3>6, <5>1 DEF Backward
        <5> QED
          BY <1>1, <1>6, <3>2, <5>1, <5>2 DEF Sound
      <4> QED
        BY <4>1, <4>2
    <3> QED
      BY <1>1, <2>1, <3>2, <3>4, <3>5, <3>6 DEF Records, Backward
  <2>2. CASE "revert" \notin env
    <3>1. Forward
      BY <2>2 DEF BInv, Records
    <3>2. ASSUME NEW j \in Inodes, data'[j] # data[j], Readable(data'[j]) PROVE Current(data[j])'
      <4>1. j = i /\ data'[j] = r
        BY <1>4, <3>2
      <4> QED
        BY <1>1, <1>6, <1>7, <4>1 DEF Current
    <3>3. Forward'
      BY <1>1, <1>6, <3>1, <3>2, ForwardKept
    <3> QED
      BY <1>1, <2>2, <3>3 DEF Records
  <2> QED
    BY <2>1, <2>2
<1>9. body'[b].output = opt[b] /\ body'[b].graph = Graph
  BY <1>1, <1>3, <1>5
<1> QED
  BY <1>1, <1>4, <1>8, <1>9, WritingOutputs DEF Linked, Writing

(* RecordRename: the build ends, and the record describes its output. *)
LEMMA RecordRenameOutputs ==
  ASSUME IInv, IInv', BInv, NEW b \in Builders, Others(b), RecordRename(b)
  PROVE  BInv'
<1>1. /\ TypeOK /\ TypeOK' /\ UNCHANGED <<env, locked, src, objects, out, data, edits, opt>>
      /\ pc[b] = "rename" /\ tmp # None /\ rec' = tmp /\ tmp' = None
  BY DEF IInv, RecordRename
<1> SUFFICES ASSUME Tame PROVE BInv'
  BY <1>1 DEF BInv, Tame, Steady
<1>2. Succeed(b, opt[b]) /\ opt[b] \in Outputs
  BY <1>1 DEF RecordRename, TypeOK
<1>3. /\ Forget(b) /\ result'[b].output = opt[b] /\ result'[b].code = out'[opt[b]]
      /\ result'[b].probes = (mode[b] = "instrument")
      /\ \A c \in Builders \ {b} : result'[c] = result[c]
  BY <1>1, <1>2, SucceedDoes DEF TypeOK
<1>4. mode[b] # "instrument" /\ out[opt[b]] = Plain(src, FALSE)
  BY <1>1 DEF BInv, Made, Linked, Writing
<1>5. result'[b].probes = FALSE
  BY <1>3, <1>4, Zenon
<1>6. Relinked /\ Handed(b) /\ Graph' = Graph /\ (Reusable' <=> Reusable)
  BY <1>1, <1>3, <1>4, <1>5, GraphSame DEF Relinked, Handed
<1>7. pc'[b] = "idle" /\ mode'[b] = "cached"
  BY <1>1, <1>3, ForgetDoes
<1>8. Records'
  <2>1. CASE "revert" \in env
    <3>1. Backward
      BY <2>1 DEF BInv, Records
    <3>2. PICK i \in Inodes : i = tmp
      BY <1>1 DEF TypeOK
    <3>3. Now(i)
      BY <1>1, <3>1, <3>2 DEF Backward
    <3>4. Now(i)'
      BY <1>1, <1>6, <3>3, NowKept
    <3>5. rec' # None /\ Now(rec)'
      BY <1>1, <3>2, <3>4 DEF Now, Current
    <3>6. ASSUME Readable(data[i]) PROVE Sound(data[rec])'
      <4>1. PICK r \in Record : r = data[i]
        BY <1>1, <3>6, ReadableRecord DEF TypeOK
      <4>2. Sound(r)
        BY <1>1, <3>3, <3>6, <4>1, CurrentIsSound DEF Now
      <4> QED
        BY <1>1, <1>6, <3>2, <4>1, <4>2 DEF Sound
    <3> QED
      BY <1>1, <2>1, <3>2, <3>5, <3>6 DEF Records, Backward
  <2>2. CASE "revert" \notin env
    <3>1. Forward
      BY <2>2 DEF BInv, Records
    <3>2. Forward'
      BY <1>1, <1>6, <3>1, ForwardKept
    <3> QED
      BY <1>1, <2>2, <3>2 DEF Records
  <2> QED
    BY <2>1, <2>2
<1>9. NoEmbeds'
  BY <1>1, EmbedsKept DEF BInv
<1>10. Made(b)'
  BY <1>1, <1>7, AwayMade
<1> QED
  BY <1>6, <1>8, <1>9, <1>10, OutputsKept

(* Every step of a builder. *)
LEMMA BuildOutputs ==
  ASSUME IInv, SInv, BInv, NEW b \in Builders, Build(b)
  PROVE  BInv'
<1>1. IInv' /\ Others(b)
  BY BuildKeeps
<1>2. ASSUME NEW o \in Outputs,
             RecordUnreadable(b, o) \/ Reuse(b, o) \/ Miss(b, o) \/ Bypass(b, o)
      PROVE  BInv'
  BY <1>1, <1>2, BeginOutputs
<1>3. CASE Rejected(b) \/ LinkFails(b) \/ RenameFails(b) \/ Abort(b)
  BY <1>1, <1>3, FailOutputs
<1>4. CASE Load(b) \/ \E m \in Modules : LookUp(b, m)
  BY <1>1, <1>4, LoadOutputs
<1>5. CASE EmitOpen(b) \/ EmitWrite(b)
  BY <1>1, <1>5, EmitOutputs
<1>6. CASE LinkShared(b) \/ LinkPrivate(b)
  BY <1>1, <1>6, LinkSharedOutputs, LinkPrivateOutputs
<1>7. CASE RecordOpen(b) \/ RecordWrite(b) \/ RecordRename(b)
  BY <1>1, <1>7, RecordOpenOutputs, RecordWriteOutputs, RecordRenameOutputs
<1> QED
  BY <1>2, <1>3, <1>4, <1>5, <1>6, <1>7 DEF Build

(* What the programmer saves: a version that no record has, unless a text  *)
(* comes back.                                                             *)
LEMMA SaveDoes ==
  ASSUME TypeOK, NEW m \in Modules, NEW f \in Facets, NEW v \in Nat, SaveSource(m, f, v)
  PROVE  /\ UNCHANGED <<env, locked, objects, out, tmp, rec, data, pc, opt, mode, body>>
         /\ edits' = edits + 1 /\ \A b \in Builders : result'[b] = None
         /\ f \in AllFacets /\ src'[m][f] = v
         /\ \A n \in Modules, g \in AllFacets : n # m \/ g # f => src'[n][g] = src[n][g]
<1>1. UNCHANGED <<env, locked, objects, out, tmp, rec, data, pc, opt, mode, body>>
  BY DEF SaveSource, locals
<1>2. edits' = edits + 1 /\ \A b \in Builders : result'[b] = None
  BY DEF SaveSource
<1>3. f \in AllFacets /\ src \in [Modules -> Source] /\ src[m] \in [AllFacets -> Nat]
  BY IncrementalAssumption DEF TypeOK, Sources, Source
<1>4. PICK t : t = [src[m] EXCEPT ![f] = v]
  OBVIOUS
<1>5. t[f] = v /\ \A g \in AllFacets : g # f => t[g] = src[m][g]
  BY <1>3, <1>4
<1>6. src' = [src EXCEPT ![m] = t]
  BY <1>4 DEF SaveSource
<1>7. src'[m] = t /\ \A n \in Modules : n # m => src'[n] = src[n]
  BY <1>3, <1>6
<1> QED
  BY <1>1, <1>2, <1>3, <1>5, <1>7

(* Without reverts: the new version is in no record. *)
LEMMA SaveForward ==
  ASSUME IInv, IInv', Forward, NEW m \in Modules, NEW f \in Facets, SaveSource(m, f, edits + 1)
  PROVE  Forward'
<1>1. TypeOK /\ TypeOK' /\ edits \in Nat /\ edits + 1 \in Nat
  BY IncrementalAssumption DEF IInv, TypeOK
<1>2. /\ UNCHANGED <<locked, out, data>> /\ edits' = edits + 1
      /\ f \in AllFacets /\ src'[m][f] = edits + 1
      /\ \A n \in Modules, g \in AllFacets : n # m \/ g # f => src'[n][g] = src[n][g]
  BY <1>1, SaveDoes
<1>3. DOMAIN src = Modules /\ DOMAIN src' = Modules
  BY <1>1 DEF TypeOK, Sources
<1>4. \A n \in Modules, g \in AllFacets : src[n][g] \in Nat /\ src[n][g] <= edits
  <2>1. \A n \in Modules, g \in AllFacets : src[n][g] <= edits
    BY <1>3 DEF Forward, Bounded
  <2>2. \A n \in Modules, g \in AllFacets : src[n][g] \in Nat
    BY <1>1 DEF TypeOK, Sources, Source
  <2> QED
    BY <2>1, <2>2
<1>5. Bounded(src)'
  <2>1. ASSUME NEW n \in Modules, NEW g \in AllFacets PROVE src'[n][g] <= edits'
    <3>1. CASE n = m /\ g = f
      BY <1>1, <1>2, <3>1
    <3>2. CASE n # m \/ g # f
      <4>1. src'[n][g] = src[n][g]
        BY <1>2, <3>2
      <4> QED
        BY <1>1, <1>2, <1>4, <4>1
    <3> QED
      BY <3>1, <3>2
  <2> QED
    BY <1>3, <2>1 DEF Bounded
<1>6. ASSUME NEW i \in Inodes, Readable(data[i]) PROVE Bounded(data[i].graph)' /\ Fresh(data[i])'
  <2>1. PICK r \in Record : r = data[i]
    BY <1>1, <1>6, ReadableRecord DEF TypeOK
  <2>2. \A n \in DOMAIN r.graph : \A g \in AllFacets : r.graph[n][g] <= edits
    BY <1>6, <2>1 DEF Forward, Bounded
  <2>3. \A n \in DOMAIN r.graph : \A g \in AllFacets : r.graph[n][g] \in Nat
    <3>1. r.graph \in [Modules -> [AllFacets -> Nat]] \cup [Modules \ Deps -> [AllFacets -> Nat]]
      BY RecordFields DEF Sources, Source
    <3> QED
      BY <3>1
  <2>4. ASSUME NEW n \in DOMAIN r.graph, NEW g \in AllFacets PROVE r.graph[n][g] <= edits'
    <3>1. r.graph[n][g] \in Nat /\ r.graph[n][g] <= edits
      BY <2>2, <2>3
    <3> QED
      BY <1>1, <1>2, <3>1
  <2>5. r.graph # src'
    <3>1. SUFFICES ASSUME r.graph = src' PROVE FALSE
      OBVIOUS
    <3>2. m \in DOMAIN r.graph /\ r.graph[m][f] = edits + 1
      BY <1>2, <1>3, <3>1
    <3>3. edits + 1 <= edits
      BY <1>2, <2>2, <3>2
    <3> QED
      BY <1>1, <3>3
  <2> QED
    BY <1>2, <2>1, <2>4, <2>5 DEF Bounded, Fresh
<1> QED
  BY <1>2, <1>5, <1>6 DEF Forward

(* With reverts: nobody is building, so the record describes its output,   *)
(* and goes on doing so whatever becomes of the sources.                   *)
LEMMA SaveBackward ==
  ASSUME TypeOK, Backward, UNCHANGED <<locked, out, tmp, rec, data, pc>>,
         \A b \in Builders : pc[b] = "idle"
  PROVE  Backward'
<1>1. ~Busy /\ ~Pending /\ ~Busy'
  BY DEF Busy, Pending, Linked, Writing
<1>2. tmp' = None
  BY <1>1 DEF Backward
<1>3. ASSUME rec # None, Readable(data[rec]) PROVE Sound(data[rec])'
  <2>1. Sound(data[rec])
    BY <1>1, <1>3 DEF Backward
  <2> QED
    BY <2>1 DEF Sound, Reusable
<1> QED
  BY <1>1, <1>2, <1>3 DEF Backward

(* SaveSource *)
LEMMA SaveOutputs ==
  ASSUME IInv, IInv', BInv, Programmer
  PROVE  BInv'
<1>1. TypeOK
  BY DEF IInv
<1>2. PICK m \in Modules, f \in Facets, v \in Nat :
        /\ SaveSource(m, f, v)
        /\ v = edits + 1 \/ (v = 0 /\ "revert" \in env)
  BY <1>1, ProgrammerSaves
<1>3. /\ UNCHANGED <<env, locked, objects, out, tmp, rec, data, pc, opt, mode, body>>
      /\ \A b \in Builders : result'[b] = None
      /\ \A n \in Modules, g \in AllFacets : n # m \/ g # f => src'[n][g] = src[n][g]
  BY <1>1, <1>2, SaveDoes
<1> SUFFICES ASSUME Tame PROVE BInv'
  BY <1>3 DEF BInv, Tame, Steady
<1>4. \A b \in Builders : pc[b] = "idle"
  BY <1>2 DEF SaveSource, Editable, Tame, Steady
<1>5. ResultsPlain'
  BY <1>3 DEF ResultsPlain
<1>6. NoEmbeds'
  <2>1. f # "embed" /\ "embed" \in AllFacets
    BY DEF Tame, AllFacets
  <2> QED
    BY <1>3, <2>1 DEF BInv, NoEmbeds
<1>7. ASSUME NEW b \in Builders PROVE Made(b)'
  <2>1. Made(b)
    BY DEF BInv
  <2> QED
    BY <1>3, <1>4, <2>1, AwayMade DEF Made
<1>8. Records'
  <2>1. CASE "revert" \in env
    <3>1. Backward
      BY <2>1 DEF BInv, Records
    <3>2. Backward'
      BY <1>1, <1>3, <1>4, <3>1, SaveBackward
    <3> QED
      BY <1>3, <2>1, <3>2 DEF Records
  <2>2. CASE "revert" \notin env
    <3>1. Forward
      BY <2>2 DEF BInv, Records
    <3>2. SaveSource(m, f, edits + 1)
      BY <1>2, <2>2
    <3>3. Forward'
      BY <3>1, <3>2, SaveForward
    <3> QED
      BY <1>3, <2>2, <3>3 DEF Records
  <2> QED
    BY <2>1, <2>2
<1> QED
  BY <1>5, <1>6, <1>7, <1>8 DEF BInv

(* Every step. *)
LEMMA NextOutputs ==
  ASSUME IInv, SInv, BInv, [Next]_vars
  PROVE  BInv'
<1>1. IInv'
  BY NextKeeps
<1>2. CASE Programmer
  BY <1>1, <1>2, SaveOutputs
<1>3. ASSUME NEW b \in Builders, Build(b) PROVE BInv'
  BY <1>3, BuildOutputs
<1>4. CASE UNCHANGED vars
  <2>1. /\ UNCHANGED <<env, locked, src, objects, out, tmp, rec, data, edits>>
        /\ UNCHANGED <<pc, opt, mode, body, result>>
    BY <1>4 DEF vars, files, locals
  <2>2. Graph' = Graph /\ (Reusable' <=> Reusable) /\ (Tame' <=> Tame)
    BY <2>1, GraphSame DEF Tame, Steady
  <2>3. ResultsPlain => ResultsPlain'
    BY <2>1 DEF ResultsPlain
  <2>4. NoEmbeds => NoEmbeds'
    BY <2>1, EmbedsKept
  <2>5. \A b \in Builders : Made(b) => Made(b)'
    BY <2>1, <2>2 DEF Made
  <2>6. Forward => Forward'
    BY <2>1, <2>2 DEF Forward, Bounded, Fresh
  <2>7. Backward => Backward'
    BY <2>1, <2>2 DEF Backward, Now, Current, Sound, Busy, Pending
  <2> QED
    BY <2>1, <2>2, <2>3, <2>4, <2>5, <2>6, <2>7 DEF BInv, Records
<1> QED
  BY <1>2, <1>3, <1>4 DEF Next

(* No output has been handed out. *)
LEMMA InitOutputs ==
  ASSUME Init
  PROVE  BInv
<1>1. TypeOK
  BY InitHolds DEF IInv
<1>2. DOMAIN objects = {} /\ \A b \in Builders : result[b] = None /\ pc[b] = "idle"
  BY DEF Init
<1>3. ResultsPlain
  BY <1>2 DEF ResultsPlain
<1>4. \A m \in Modules, f \in AllFacets : src[m][f] = 0
  BY DEF Init
<1>5. NoEmbeds
  BY <1>2, <1>4 DEF NoEmbeds, AllFacets
<1>6. ASSUME NEW b \in Builders PROVE Made(b)
  <2>1. "idle" \notin Modules /\ mode[b] = "cached"
    BY LabelsApart DEF Labels, Init
  <2> QED
    BY <1>2, <2>1 DEF Made, Linked, Writing
<1>7. Backward
  BY <1>2 DEF Init, Backward, Busy, Writing
<1>8. Forward
  <2>1. edits = 0 /\ DOMAIN src = Modules /\ \A i \in Inodes : data[i] = Torn
    BY <1>1 DEF Init
  <2> QED
    BY <1>4, <2>1, ReadableRecord DEF Forward, Bounded
<1> QED
  BY <1>3, <1>5, <1>6, <1>7, <1>8 DEF BInv, Records

-----------------------------------------------------------------------------
(* The garbled record: every step keeps GInv. *)

(* The builders at work go on making one output. *)
LEMMA AlikeKept ==
  ASSUME Alike, NEW b \in Builders, Others(b),
         Active(b)' => \A c \in Builders \ {b} : Active(c) => opt[c] = opt'[b]
  PROVE  Alike'
<1>1. \A c \in Builders \ {b} : (Active(c)' <=> Active(c)) /\ opt'[c] = opt[c]
  BY DEF Others, Active
<1> QED
  BY <1>1 DEF Alike

(* A builder that does not touch the record. *)
LEMMA QuietGarbled ==
  ASSUME GInv, NEW b \in Builders, Others(b), UNCHANGED <<env, data>>, pc'[b] # "write",
         \/ pc'[b] = "idle" \/ mode'[b] # "cached"
         \/ Active(b) /\ opt'[b] = opt[b]
         \/ MayOverlap(opt'[b])
  PROVE  GInv'
<1> SUFFICES ASSUME "mixed" \notin env PROVE Alike' /\ Tails' /\ Whole'
  BY DEF GInv
<1>1. Alike /\ Tails /\ Whole
  BY DEF GInv
<1>2. Active(b)' => \A c \in Builders \ {b} : Active(c) => opt[c] = opt'[b]
  BY <1>1 DEF Active, Alike, MayOverlap
<1>3. Alike'
  BY <1>1, <1>2, AlikeKept
<1>4. Tails' /\ Whole'
  BY <1>1 DEF Tails, Whole, Others
<1> QED
  BY <1>3, <1>4

(* RecordOpen *)
LEMMA RecordOpenGarbled ==
  ASSUME IInv, GInv, NEW b \in Builders, Others(b), RecordOpen(b)
  PROVE  GInv'
<1>1. /\ TypeOK /\ Locals /\ UNCHANGED <<env, opt, mode>> /\ pc[b] = "record"
  BY DEF IInv, RecordOpen
<1> SUFFICES ASSUME "mixed" \notin env PROVE Alike' /\ Tails' /\ Whole'
  BY <1>1 DEF GInv
<1>2. Alike /\ Tails /\ Whole
  BY DEF GInv
<1>3. PICK i \in Inodes : data' = [data EXCEPT ![i] = Torn] /\ fd' = [fd EXCEPT ![b] = i]
  BY <1>1, RecordOpenDoes
<1>4. data'[i] = Torn /\ (\A j \in Inodes : j # i => data'[j] = data[j]) /\ fd'[b] = i
  BY <1>1, <1>3 DEF TypeOK
<1>5. Active(b)
  BY <1>1 DEF Active, Locals, LocalOK
<1>6. Alike'
  BY <1>1, <1>2, <1>5, AlikeKept DEF Alike
<1>7. ASSUME NEW c \in Builders, pc'[c] = "write"
      PROVE  data'[fd'[c]] = Torn \/ data'[fd'[c]].output = opt'[c]
  <2>1. CASE c = b
    BY <1>4, <2>1
  <2>2. CASE c # b
    <3>1. pc[c] = "write" /\ fd'[c] = fd[c] /\ opt'[c] = opt[c]
      BY <1>7, <2>2 DEF Others
    <3>2. fd[c] \in Inodes /\ (data[fd[c]] = Torn \/ data[fd[c]].output = opt[c])
      BY <1>1, <1>2, <3>1 DEF Locals, LocalOK, Tails
    <3> QED
      BY <1>4, <3>1, <3>2
  <2> QED
    BY <2>1, <2>2
<1>8. Whole'
  BY <1>2, <1>4, IncrementalAssumption DEF Whole
<1> QED
  BY <1>6, <1>7, <1>8 DEF Tails

(* RecordWrite: if another build has written to the file since it was      *)
(* opened, it has written a record of the same length.                     *)
LEMMA RecordWriteGarbled ==
  ASSUME IInv, GInv, NEW b \in Builders, Others(b), RecordWrite(b)
  PROVE  GInv'
<1>1. /\ TypeOK /\ Locals /\ UNCHANGED <<env, opt, mode>> /\ pc[b] = "write"
  BY DEF IInv, RecordWrite
<1> SUFFICES ASSUME "mixed" \notin env PROVE Alike' /\ Tails' /\ Whole'
  BY <1>1 DEF GInv
<1>2. Alike /\ Tails /\ Whole
  BY DEF GInv
<1>3. PICK i \in Inodes : i = fd[b]
  BY RecordWriteDoes
<1>4. PICK r \in Record : r = body[b] /\ r.output = opt[b]
  BY RecordWriteDoes
<1>5. data[i] = Torn \/ (data[i] # Garbled /\ data[i].output = opt[b])
  BY <1>1, <1>2, <1>3 DEF Tails, Whole
<1>6. data'[i] = r /\ (\A j \in Inodes : j # i => data'[j] = data[j]) /\ pc'[b] = "rename"
  BY <1>3, <1>4, <1>5, RecordWriteDoes
<1>7. Active(b)
  BY <1>1 DEF Active, Locals, LocalOK
<1>8. Alike'
  BY <1>1, <1>2, <1>7, AlikeKept DEF Alike
<1>9. ASSUME NEW c \in Builders, pc'[c] = "write"
      PROVE  data'[fd'[c]] = Torn \/ data'[fd'[c]].output = opt'[c]
  <2>1. c # b
    BY <1>6, <1>9
  <2>2. pc[c] = "write" /\ fd'[c] = fd[c] /\ opt'[c] = opt[c]
    BY <1>9, <2>1 DEF Others
  <2>3. fd[c] \in Inodes /\ (data[fd[c]] = Torn \/ data[fd[c]].output = opt[c]) /\ Active(c)
    BY <1>1, <1>2, <2>2 DEF Locals, LocalOK, Tails, Active
  <2>4. opt[c] = opt[b]
    BY <1>2, <1>7, <2>3 DEF Alike
  <2> QED
    BY <1>4, <1>6, <2>2, <2>3, <2>4
<1>10. Whole'
  BY <1>2, <1>6, IncrementalAssumption DEF Whole
<1> QED
  BY <1>8, <1>9, <1>10 DEF Tails

(* Every step of a builder. *)
LEMMA BuildGarbled ==
  ASSUME IInv, GInv, NEW b \in Builders, Build(b)
  PROVE  GInv'
<1>1. IInv' /\ Others(b) /\ TypeOK /\ Locals
  BY BuildKeeps DEF IInv
<1>2. ASSUME Forget(b), UNCHANGED <<env, data>> PROVE GInv'
  <2>1. pc'[b] = "idle"
    BY <1>1, <1>2, ForgetDoes
  <2> QED
    BY <1>1, <1>2, <2>1, QuietGarbled
<1>3. ASSUME NEW o \in Outputs,
             RecordUnreadable(b, o) \/ Reuse(b, o) \/ Miss(b, o) \/ Bypass(b, o)
      PROVE  GInv'
  <2>1. UNCHANGED <<env, data>> /\ opt'[b] = o
    BY <1>1, <1>3, BeginDoes DEF RecordUnreadable, Reuse, Miss, Bypass
  <2>2. CASE RecordUnreadable(b, o) \/ Reuse(b, o)
    BY <1>2, <2>1, <2>2 DEF RecordUnreadable, Reuse, Fail, Succeed
  <2>3. CASE Miss(b, o) \/ Bypass(b, o)
    <3>1. pc'[b] = "load"
      BY <1>1, <2>3 DEF Miss, Bypass, Goto, TypeOK
    <3>2. MayOverlap(opt'[b]) \/ mode'[b] # "cached"
      BY <1>1, <2>1, <2>3 DEF Miss, Bypass, TypeOK, Modes
    <3> QED
      BY <1>1, <2>1, <3>1, <3>2, QuietGarbled
  <2> QED
    BY <1>3, <2>2, <2>3
<1>4. CASE Rejected(b) \/ LinkFails(b) \/ RenameFails(b) \/ Abort(b)
  BY <1>2, <1>4 DEF Rejected, LinkFails, RenameFails, Abort, Fail, files
<1>5. CASE Load(b) \/ (\E m \in Modules : LookUp(b, m)) \/ EmitOpen(b) \/ EmitWrite(b)
             \/ LinkShared(b) \/ (LinkPrivate(b) /\ mode[b] = "cached")
  <2>1. "write" \notin Modules /\ "idle" \notin Modules
    BY LabelsApart DEF Labels
  <2>2. UNCHANGED <<env, data, opt, mode>> /\ pc[b] # "idle" /\ pc'[b] # "write"
    <3>1. CASE Load(b)
      BY <1>1, <3>1 DEF Load, Goto, TypeOK, files
    <3>2. ASSUME NEW m \in Modules, LookUp(b, m)
          PROVE  UNCHANGED <<env, data, opt, mode>> /\ pc[b] # "idle" /\ pc'[b] # "write"
      <4>1. pc'[b] = "emit" \/ pc'[b] = m
        BY <1>1, <3>2, LookUpDoes
      <4> QED
        BY <2>1, <3>2, <4>1 DEF LookUp, files
    <3>3. CASE EmitOpen(b) \/ EmitWrite(b)
      BY <1>1, <2>1, <3>3 DEF EmitOpen, EmitWrite, Goto, TypeOK
    <3>4. CASE LinkShared(b) \/ (LinkPrivate(b) /\ mode[b] = "cached")
      BY <1>1, <3>4 DEF LinkShared, LinkPrivate, Goto, TypeOK
    <3> QED
      BY <1>5, <3>1, <3>2, <3>3, <3>4
  <2> QED
    BY <1>1, <2>2, QuietGarbled DEF Active
<1>6. CASE RecordRename(b) \/ (LinkPrivate(b) /\ mode[b] # "cached")
  BY <1>2, <1>6 DEF RecordRename, LinkPrivate, Succeed
<1>7. CASE RecordOpen(b) \/ RecordWrite(b)
  BY <1>1, <1>7, RecordOpenGarbled, RecordWriteGarbled
<1> QED
  BY <1>3, <1>4, <1>5, <1>6, <1>7 DEF Build

(* No garbled record in any behaviour where builds of different outputs do *)
(* not overlap.                                                            *)
LEMMA GarbledInductive == Spec => []GInv
<1>1. ASSUME Init PROVE GInv
  BY <1>1, IncrementalAssumption DEF Init, GInv, Alike, Tails, Whole, Active
<1>2. ASSUME IInv, GInv, [Next]_vars PROVE GInv'
  <2>1. ASSUME UNCHANGED <<env, data, pc, opt, mode, fd>> PROVE GInv'
    BY <1>2, <2>1 DEF GInv, Alike, Tails, Whole, Active
  <2>2. CASE Programmer
    <3>1. PICK m \in Modules, f \in Facets, v \in Nat : SaveSource(m, f, v)
      BY <1>2, <2>2, ProgrammerSaves DEF IInv
    <3> QED
      BY <2>1, <3>1 DEF SaveSource, locals
  <2>3. ASSUME NEW b \in Builders, Build(b) PROVE GInv'
    BY <1>2, <2>3, BuildGarbled
  <2>4. CASE UNCHANGED vars
    BY <2>1, <2>4 DEF vars, files, locals
  <2> QED
    BY <1>2, <2>2, <2>3, <2>4 DEF Next
<1> QED
  BY <1>1, <1>2, Inductive, PTL DEF Spec

-----------------------------------------------------------------------------
(* The linked interfaces: every step keeps KInv. *)

(* A step of b that leaves the objects and the outputs alone. *)
LEMMA QuietNamed ==
  ASSUME KInv, NEW b \in Builders, Others(b), UNCHANGED <<objects, out>>, Named(b)'
  PROVE  KInv'
<1>1. ASSUME NEW c \in Builders, c # b PROVE Named(c)'
  <2>1. Named(c)
    BY DEF KInv
  <2>2. pc'[c] = pc[c] /\ snap'[c] = snap[c] /\ todo'[c] = todo[c] /\ key'[c] = key[c]
    BY <1>1 DEF Others
  <2> QED
    BY <2>1, <2>2 DEF Named
<1>2. \A k \in DOMAIN objects' : objects'[k] # Torn => Implements(objects'[k], k)
  BY DEF KInv
<1>3. LinkedInterfacesAgree'
  BY DEF KInv, LinkedInterfacesAgree
<1> QED
  BY <1>1, <1>2, <1>3 DEF KInv

(* A builder that neither compiles nor looks for objects. *)
LEMMA AwayNamed ==
  ASSUME NEW b \in Builders, pc'[b] \in Labels \ {"emit"}
  PROVE  Named(b)'
<1>1. pc'[b] \notin Modules
  BY LabelsApart
<1> QED
  BY <1>1 DEF Named

(* Load *)
LEMMA LoadNamed ==
  ASSUME IInv, KInv, NEW b \in Builders, Others(b), Load(b)
  PROVE  KInv'
<1>1. TypeOK /\ UNCHANGED <<objects, out>> /\ "emit" \notin Modules
  BY LabelsApart DEF IInv, Load, files, Labels
<1>2. \/ pc'[b] = "emit" /\ todo'[b] = Modules
      \/ pc'[b] = "link"
  BY <1>1 DEF Load, TypeOK, Goto
<1>3. Named(b)'
  <2>1. CASE pc'[b] = "emit" /\ todo'[b] = Modules
    BY <1>1, <2>1 DEF Named
  <2>2. CASE pc'[b] = "link"
    BY <2>2, AwayNamed DEF Labels
  <2> QED
    BY <1>2, <2>1, <2>2
<1> QED
  BY <1>1, <1>3, QuietNamed

(* LookUp: the file may have been edited since it was loaded, but the      *)
(* interface in the key is the one that was loaded.                        *)
LEMMA LookUpNamed ==
  ASSUME IInv, KInv, NEW b \in Builders, Others(b), NEW m \in Modules, LookUp(b, m)
  PROVE  KInv'
<1>1. TypeOK /\ UNCHANGED <<objects, out, snap>> /\ pc[b] = "emit" /\ "emit" \notin Modules
  BY LabelsApart DEF IInv, LookUp, files, Labels
<1>2. PICK k \in Keys :
        /\ k = Key(m, src[m], snap[b])
        /\ key'[b][m] = k /\ \A n \in Modules : n # m => key'[b][n] = key[b][n]
        /\ \/ pc'[b] = "emit" /\ todo'[b] = todo[b] \ {m}
           \/ pc'[b] = m /\ todo'[b] = todo[b]
  BY <1>1, LookUpDoes
<1>3. Names(k, m, snap[b])
  <2>1. src[m] \in Source /\ snap[b] \in Sources
    BY <1>1 DEF TypeOK, Sources
  <2> QED
    BY <1>2, <2>1, KeyType DEF Names
<1>4. \A n \in Modules \ todo[b] : Names(key[b][n], n, snap[b])
  BY <1>1 DEF KInv, Named
<1>5. \A n \in Modules \ todo'[b] : Names(key'[b][n], n, snap'[b])
  BY <1>1, <1>2, <1>3, <1>4
<1>6. pc'[b] \in Modules => Names(key'[b][pc'[b]], pc'[b], snap'[b])
  BY <1>1, <1>2, <1>3
<1>7. Named(b)'
  BY <1>5, <1>6 DEF Named
<1> QED
  BY <1>1, <1>7, QuietNamed

(* EmitOpen and EmitWrite: the object is compiled from the text that was   *)
(* loaded, which need not be the text its name digests.                    *)
LEMMA EmitNamed ==
  ASSUME IInv, KInv, NEW b \in Builders, Others(b), EmitOpen(b) \/ EmitWrite(b)
  PROVE  KInv'
<1>1. /\ TypeOK /\ Locals /\ UNCHANGED <<out, snap, key>> /\ pc[b] \in Modules
  BY DEF IInv, EmitOpen, EmitWrite
<1>2. PICK m \in Modules : m = pc[b]
  BY <1>1
<1>3. PICK k \in Keys : k = key[b][m]
  BY <1>1, <1>2 DEF Locals, LocalOK
<1>4. snap[b] \in Sources
  BY <1>1 DEF TypeOK
<1>5. k[1] = m /\ k[3] = Interface(snap[b])
  BY <1>1, <1>2, <1>3 DEF KInv, Named, Names
<1>6. PICK v \in ObjectFile : v = Object(snap[b], m, FALSE)
  BY <1>4, ObjectType
<1>7. Implements(v, k)
  <2>1. v.own = snap[b][m] /\ v.sigs = Interface(snap[b])
    BY <1>4, <1>6, ObjectType
  <2>2. Interface(snap[b])[m] = snap[b][m]["sig"]
    BY DEF Interface
  <2> QED
    BY <1>5, <2>1, <2>2 DEF Implements
<1>8. PICK w \in {Torn, v} : objects' = Put(objects, k, w)
  BY <1>2, <1>3, <1>6 DEF EmitOpen, EmitWrite
<1>9. /\ objects'[k] = w
      /\ \A x \in DOMAIN objects' : x = k \/ (x \in DOMAIN objects /\ objects'[x] = objects[x])
  BY <1>1, <1>8, PutKeeps
<1>10. \A x \in DOMAIN objects' : objects'[x] # Torn => Implements(objects'[x], x)
  BY <1>7, <1>9 DEF KInv
<1>11. Named(b)'
  <2>1. Named(b)
    BY DEF KInv
  <2>2. \/ pc'[b] = pc[b] /\ todo'[b] = todo[b]
        \/ pc'[b] = "emit" /\ todo'[b] = todo[b] \ {pc[b]}
    BY <1>1 DEF EmitOpen, EmitWrite, Goto, TypeOK
  <2>3. "emit" \notin Modules
    BY LabelsApart DEF Labels
  <2> QED
    BY <1>1, <2>1, <2>2, <2>3 DEF Named
<1>12. ASSUME NEW c \in Builders, c # b PROVE Named(c)'
  <2>1. Named(c)
    BY DEF KInv
  <2>2. pc'[c] = pc[c] /\ snap'[c] = snap[c] /\ todo'[c] = todo[c] /\ key'[c] = key[c]
    BY <1>12 DEF Others
  <2> QED
    BY <2>1, <2>2 DEF Named
<1>13. LinkedInterfacesAgree'
  BY <1>1 DEF KInv, LinkedInterfacesAgree
<1> QED
  BY <1>10, <1>11, <1>12, <1>13 DEF KInv

(* A build that has linked an output whose modules agree. *)
LEMMA LinkNamed ==
  ASSUME IInv, KInv, NEW b \in Builders, Others(b), UNCHANGED objects,
         pc'[b] \in Labels \ {"emit"}, NEW o \in Outputs,
         NEW f \in [Modules -> ObjectFile], out' = [out EXCEPT ![o] = f],
         \A m, n \in Modules : f[n].sigs[m] = f[m].own["sig"]
  PROVE  KInv'
<1>1. out'[o] = f /\ \A p \in Outputs : p # o => out'[p] = out[p]
  BY DEF IInv, TypeOK
<1>2. LinkedInterfacesAgree'
  BY <1>1 DEF KInv, LinkedInterfacesAgree
<1>3. Named(b)'
  BY AwayNamed
<1>4. ASSUME NEW c \in Builders, c # b PROVE Named(c)'
  <2>1. Named(c)
    BY DEF KInv
  <2>2. pc'[c] = pc[c] /\ snap'[c] = snap[c] /\ todo'[c] = todo[c] /\ key'[c] = key[c]
    BY <1>4 DEF Others
  <2> QED
    BY <2>1, <2>2 DEF Named
<1>5. \A k \in DOMAIN objects' : objects'[k] # Torn => Implements(objects'[k], k)
  BY DEF KInv
<1> QED
  BY <1>2, <1>3, <1>4, <1>5 DEF KInv

(* LinkShared: every object that is linked has the interface in its name   *)
(* that the build has loaded, whoever compiled it.                         *)
LEMMA LinkSharedNamed ==
  ASSUME IInv, KInv, NEW b \in Builders, Others(b), LinkShared(b)
  PROVE  KInv'
<1>1. TypeOK /\ UNCHANGED objects /\ pc[b] = "emit" /\ todo[b] = {}
  BY DEF IInv, LinkShared
<1>2. PICK f \in [Modules -> ObjectFile] : f = [m \in Modules |-> objects[key[b][m]]]
  BY LinkSharedDoes
<1>3. out' = [out EXCEPT !["exe"] = f] /\ "exe" \in Outputs
  BY <1>2 DEF LinkShared, Outputs
<1>4. ASSUME NEW m \in Modules
      PROVE  f[m].sigs = Interface(snap[b]) /\ f[m].own["sig"] = Interface(snap[b])[m]
  <2>1. Names(key[b][m], m, snap[b])
    BY <1>1 DEF KInv, Named
  <2>2. Implements(f[m], key[b][m])
    BY <1>2, LinkSharedDoes DEF KInv
  <2> QED
    BY <2>1, <2>2 DEF Names, Implements
<1>5. \A m, n \in Modules : f[n].sigs[m] = f[m].own["sig"]
  BY <1>4
<1>6. pc'[b] = "record"
  BY <1>1 DEF LinkShared, Goto, TypeOK
<1>7. pc'[b] \in Labels \ {"emit"}
  BY <1>6 DEF Labels
<1> QED
  BY <1>1, <1>3, <1>5, <1>7, LinkNamed

(* LinkPrivate *)
LEMMA LinkPrivateNamed ==
  ASSUME IInv, KInv, NEW b \in Builders, Others(b), LinkPrivate(b)
  PROVE  KInv'
<1>1. /\ TypeOK /\ UNCHANGED objects /\ snap[b] \in Sources /\ opt[b] \in Outputs
  BY DEF IInv, LinkPrivate, TypeOK
<1>2. PICK p \in BOOLEAN : p = (mode[b] = "instrument")
  OBVIOUS
<1>3. PICK f \in [Modules -> ObjectFile] : f = Clean(snap[b], p)
  BY <1>1, CleanType
<1>4. out' = [out EXCEPT ![opt[b]] = f]
  BY <1>2, <1>3 DEF LinkPrivate
<1>5. ASSUME NEW m \in Modules
      PROVE  f[m].sigs = Interface(snap[b]) /\ f[m].own = snap[b][m]
  <2>1. f[m] = Object(snap[b], m, p)
    BY <1>1, <1>3, CleanType
  <2>2. PICK s \in Sources : s = snap[b]
    BY <1>1
  <2>3. Object(s, m, p).own = s[m] /\ Object(s, m, p).sigs = Interface(s)
    BY ObjectType
  <2> QED
    BY <2>1, <2>2, <2>3, Zenon
<1>6. \A m, n \in Modules : f[n].sigs[m] = f[m].own["sig"]
  <2>1. \A m \in Modules : Interface(snap[b])[m] = snap[b][m]["sig"]
    BY DEF Interface
  <2> QED
    BY <1>5, <2>1, Zenon
<1>7. pc'[b] \in Labels \ {"emit"}
  <2>1. CASE mode[b] = "cached"
    BY <1>1, <2>1 DEF LinkPrivate, Goto, TypeOK, Labels
  <2>2. CASE mode[b] # "cached"
    <3>1. pc'[b] = "idle"
      BY <1>1, <2>2, ForgetDoes DEF LinkPrivate, Succeed
    <3> QED
      BY <3>1 DEF Labels
  <2> QED
    BY <2>1, <2>2
<1> QED
  BY <1>1, <1>4, <1>6, <1>7, LinkNamed

(* Every step of a builder. *)
LEMMA BuildNamed ==
  ASSUME IInv, KInv, NEW b \in Builders, Build(b)
  PROVE  KInv'
<1>1. Others(b) /\ TypeOK
  BY BuildKeeps DEF IInv
<1>2. ASSUME UNCHANGED <<objects, out>>,
             Forget(b) \/ Goto(b, "load") \/ Goto(b, "write") \/ Goto(b, "rename")
      PROVE  KInv'
  <2>1. pc'[b] \in {"idle", "load", "write", "rename"}
    BY <1>1, <1>2 DEF Forget, Goto, TypeOK
  <2>2. pc'[b] \in Labels \ {"emit"}
    BY <2>1 DEF Labels
  <2> QED
    BY <1>1, <1>2, <2>2, AwayNamed, QuietNamed
<1>3. ASSUME NEW o \in Outputs,
             RecordUnreadable(b, o) \/ Reuse(b, o) \/ Miss(b, o) \/ Bypass(b, o)
      PROVE  KInv'
  BY <1>2, <1>3 DEF RecordUnreadable, Reuse, Miss, Bypass, Begin, Fail, Succeed, files
<1>4. CASE Rejected(b) \/ LinkFails(b) \/ RenameFails(b) \/ Abort(b)
  BY <1>2, <1>4 DEF Rejected, LinkFails, RenameFails, Abort, Fail, files
<1>5. CASE RecordOpen(b) \/ RecordWrite(b) \/ RecordRename(b)
  BY <1>2, <1>5 DEF RecordOpen, RecordWrite, RecordRename, Succeed
<1>6. CASE Load(b) \/ EmitOpen(b) \/ EmitWrite(b)
  BY <1>1, <1>6, LoadNamed, EmitNamed
<1>7. ASSUME NEW m \in Modules, LookUp(b, m) PROVE KInv'
  BY <1>1, <1>7, LookUpNamed
<1>8. CASE LinkShared(b) \/ LinkPrivate(b)
  BY <1>1, <1>8, LinkSharedNamed, LinkPrivateNamed
<1> QED
  BY <1>3, <1>4, <1>5, <1>6, <1>7, <1>8 DEF Build

(* The keys and the linked modules agree in every behaviour. *)
LEMMA NamedInductive == Spec => []KInv
<1>1. ASSUME Init PROVE KInv
  <2>1. "idle" \notin Modules /\ DOMAIN objects = {}
    BY <1>1, LabelsApart DEF Labels, Init
  <2>2. \A b \in Builders : Named(b)
    BY <1>1, <2>1 DEF Init, Named
  <2>3. LinkedInterfacesAgree
    BY <1>1 DEF Init, LinkedInterfacesAgree
  <2> QED
    BY <2>1, <2>2, <2>3 DEF KInv
<1>2. ASSUME IInv, KInv, [Next]_vars PROVE KInv'
  <2>1. ASSUME UNCHANGED <<objects, out, pc, snap, todo, key>> PROVE KInv'
    <3>1. \A b \in Builders : Named(b)'
      BY <1>2, <2>1 DEF KInv, Named
    <3>2. LinkedInterfacesAgree'
      BY <1>2, <2>1 DEF KInv, LinkedInterfacesAgree
    <3> QED
      BY <1>2, <2>1, <3>1, <3>2 DEF KInv
  <2>2. CASE Programmer
    <3>1. PICK m \in Modules, f \in Facets, v \in Nat : SaveSource(m, f, v)
      BY <1>2, <2>2, ProgrammerSaves DEF IInv
    <3> QED
      BY <2>1, <3>1 DEF SaveSource, locals
  <2>3. ASSUME NEW b \in Builders, Build(b) PROVE KInv'
    BY <1>2, <2>3, BuildNamed
  <2>4. CASE UNCHANGED vars
    BY <2>1, <2>4 DEF vars, files, locals
  <2> QED
    BY <1>2, <2>2, <2>3, <2>4 DEF Next
<1> QED
  BY <1>1, <1>2, Inductive, PTL DEF Spec

-----------------------------------------------------------------------------
(* The theorems. *)

(* What the files and the locals of the builders hold is always of its     *)
(* type: in particular every output that is linked is made of complete     *)
(* objects, one for each module, though others may be truncating and       *)
(* filling these objects meanwhile (emit_native_with_options, the linker). *)
THEOREM IncrementalTypeCorrect == Spec => []TypeOK
<1>1. IInv => TypeOK
  BY DEF IInv
<1> QED
  BY <1>1, Inductive, PTL

(* However many builds share incremental.json.tmp, and whatever is edited  *)
(* meanwhile: if the record is truncated, then a build has died or one     *)
(* that is alive has it open and is about to fill it; and a record with    *)
(* the end of another behind it, which no build repairs, takes builds of   *)
(* different outputs that overlap (fs::write and fs::rename in             *)
(* record_success_with_artifacts).                                         *)
THEOREM UnreadableRecordsAreTransient == Spec => []UnreadableRecordIsTransient
<1>1. IInv /\ GInv => UnreadableRecordIsTransient
  BY DEF IInv, TypeOK, TornIsOpen, GInv, Whole, UnreadableRecordIsTransient
<1> QED
  BY <1>1, Inductive, GarbledInductive, PTL

(* Whatever is edited while builds digest, compile, link and die: the      *)
(* modules of an output agree on the interfaces between them.  The name of *)
(* an object digests the interface that the build has loaded, so an object *)
(* that was compiled from a text the name does not digest is still linked  *)
(* only with objects of the same interface (module_artifact_path,          *)
(* emit_native_with_options).                                              *)
THEOREM LinkedModulesAgree == Spec => []LinkedInterfacesAgree
<1>1. KInv => LinkedInterfacesAgree
  BY DEF KInv
<1> QED
  BY <1>1, NamedInductive, PTL

(* Under the conditions of Tame, every build that succeeds, from the cache *)
(* or not, hands out what a build from nothing makes of the sources as     *)
(* they are (try_reuse, changed_modules, link, record_success).            *)
THEOREM BuildsAreClean == Spec => []CacheIsTransparent
<1>1. Init => BInv
  BY InitOutputs
<1>2. IInv /\ SInv /\ BInv /\ [Next]_vars => BInv'
  BY NextOutputs
<1>3. BInv => CacheIsTransparent
  BY PlainIsClean DEF BInv, CacheIsTransparent, Tame, ResultsPlain, OutputMatchesSources
<1> QED
  BY <1>1, <1>2, <1>3, Inductive, ShapeInductive, PTL DEF Spec
=============================================================================

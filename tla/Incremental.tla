----------------------------- MODULE Incremental -----------------------------
(***************************************************************************)
(* The incremental native build of the Ori driver: run_compile_with_options *)
(* and the cache of incremental.rs.  A build first asks whether the record *)
(* of the last successful build (.ori/incremental.json) still matches the  *)
(* sources; if not it loads the sources, compiles one object per module    *)
(* into .ori/modules under a name that stands for the object's inputs,     *)
(* links the objects and writes a new record.                              *)
(*                                                                         *)
(* Builders are `ori compile` processes of one project.  A step is what a  *)
(* process does between two accesses to the file system that another       *)
(* process, or the programmer, may come between.  fs::write is two steps:  *)
(* it opens the file, which truncates it, and then writes from its start.  *)
(*                                                                         *)
(* Of a source module only what the cache tells apart is kept: its         *)
(* signatures and layouts, the expressions that other modules' objects     *)
(* embed (default arguments, field contracts), and the bodies.             *)
(***************************************************************************)
EXTENDS Naturals, FiniteSets

CONSTANTS Modules,    \* the source modules of the project and its dependencies
          Deps,       \* those that belong to a dependency
          Builders,   \* the `ori compile` processes
          Facets,     \* the parts of a module the programmer edits
          Envs,       \* what else may happen, one set of events for each behaviour
          Inodes,     \* of incremental.json and its temporary file
          None, Torn, \* no value; a file that has been truncated and not filled
          Garbled,    \* a record followed by the end of a longer one
          Longest,    \* the outputs with the longest record
          MaxEdits, MaxBuilds  \* bounds on the edits and builds of one behaviour

AllFacets == {"sig", "embed", "body"}
Modes == {"bypass", "instrument"}
Events == Modes \cup {"abort", "revert", "edit_during_build", "mixed", "whole", "aggressive"}

Outputs == {"exe", "lib"}
Source == [AllFacets -> Nat]
Sources == [Modules -> Source]

(* Where a builder is when it does not compile a module. *)
Labels == {"idle", "load", "emit", "link", "record", "write", "rename"}

(* What incremental.json holds: the output and the digests of its inputs. *)
Record == [output : Outputs, graph : Sources \cup [Modules \ Deps -> Source]]

ASSUME IncrementalAssumption ==
  /\ IsFiniteSet(Modules) /\ Deps \subseteq Modules
  /\ IsFiniteSet(Builders)
  /\ Facets \subseteq AllFacets
  /\ Envs \subseteq SUBSET Events
  /\ None \notin Modules \cup Inodes
  /\ Torn \notin Record /\ Garbled \notin Record \cup {Torn}
  /\ Longest \subseteq Outputs /\ Longest # {}
  /\ Modules \cap Labels = {}
  /\ MaxEdits \in Nat /\ MaxBuilds \in Nat

VARIABLES env,        \* the member of Envs this behaviour is in
          locked,     \* the project has an ori.lock
          src,        \* the source files: a version of each facet of each module
          objects,    \* .ori/modules: object files by key
          out,        \* the two outputs a build may be asked for: executable, library
          tmp, rec,   \* inodes of incremental.json.tmp and of incremental.json
          data,       \* what each inode holds
          pc, opt, mode, snap, todo, key, fd, body,  \* locals of each builder
          result,     \* the output a finished build handed to its caller
          edits, builds

files == <<src, objects, out, tmp, rec, data>>
locals == <<pc, opt, mode, snap, todo, key, fd, body>>
vars == <<env, locked, files, locals, result, edits, builds>>

(* Object files and the keys they are named after. *)
ObjectFile == [own : Source, probes : BOOLEAN, sigs : [Modules -> Nat],
               embeds : [Modules -> Nat], inlined : [Modules -> Nat]]
Keys == Modules \X Source \X [Modules -> Nat]

(* What a build that succeeds hands to its caller. *)
Result == [output : Outputs, code : [Modules -> ObjectFile] \cup {None}, probes : BOOLEAN]

(* The types: an object or a record that is being written is Torn. *)
TypeOK ==
  /\ env \in Envs /\ locked \in BOOLEAN
  /\ src \in Sources /\ snap \in [Builders -> Sources]
  /\ DOMAIN objects \subseteq Keys
  /\ \A k \in DOMAIN objects : objects[k] \in ObjectFile \cup {Torn}
  /\ out \in [Outputs -> [Modules -> ObjectFile] \cup {None}]
  /\ tmp \in Inodes \cup {None} /\ rec \in Inodes \cup {None}
  /\ data \in [Inodes -> Record \cup {Torn, Garbled}]
  /\ pc \in [Builders -> Labels \cup Modules]
  /\ opt \in [Builders -> Outputs] /\ mode \in [Builders -> Modes \cup {"cached"}]
  /\ todo \in [Builders -> SUBSET Modules]
  /\ key \in [Builders -> [Modules -> Keys \cup {None}]]
  /\ fd \in [Builders -> Modules \cup Inodes \cup {None}]
  /\ body \in [Builders -> Record \cup {None}] /\ result \in [Builders -> Result \cup {None}]
  /\ edits \in 0..MaxEdits /\ builds \in 0..MaxBuilds

-----------------------------------------------------------------------------
(* What the cache computes from the sources. *)

(* interface_fingerprint: signatures and layouts of the whole program. *)
Interface(s) == [m \in Modules |-> s[m]["sig"]]

(* What code generation puts into the object of module m: its own source,  *)
(* and of every other module its signatures, the expressions that          *)
(* insert_default_arguments and the field contracts copy into m, and with  *)
(* ORI_OPT=aggressive the bodies that optimize_module inlines in the       *)
(* merged program.  p is true of code generated with debug probes          *)
(* (ORI_DEBUG_INSTRUMENT).                                                 *)
Object(s, m, p) ==
  [own |-> s[m], probes |-> p,
   sigs |-> Interface(s),
   embeds |-> [n \in Modules |-> s[n]["embed"]],
   inlined |-> [n \in Modules |-> IF "aggressive" \in env THEN s[n]["body"] ELSE 0]]

(* What a build from nothing produces. *)
Clean(s, p) == [m \in Modules |-> Object(s, m, p)]

MutKey(m, content, s) == <<m, content, [n \in Modules |-> 0]>>

(* module_artifact_path: the module, the digest of its file, the interface. *)
Key(m, content, s) == <<m, content, Interface(s)>>

MutGraph == [m \in Modules \ Deps |-> src[m]]

(* The inputs fingerprint digests: collect_dependency_roots finds the      *)
(* dependencies through ori.lock.                                          *)
Graph == [m \in IF locked THEN Modules ELSE Modules \ Deps |-> src[m]]

(* Without a lockfile a project with dependencies is never reused. *)
Reusable == locked \/ Deps = {}

(* is_file of the output and, for a library, of its header: both are the   *)
(* output here.                                                            *)
Matches(r, o) == r.output = o /\ r.graph = Graph /\ out[o] # None

-----------------------------------------------------------------------------
Init ==
  /\ env \in Envs
  /\ locked \in BOOLEAN
  /\ src = [m \in Modules |-> [f \in AllFacets |-> 0]]
  /\ objects = <<>>
  /\ out = [o \in Outputs |-> None]
  /\ tmp = None /\ rec = None
  /\ data = [i \in Inodes |-> Torn]
  /\ pc = [b \in Builders |-> "idle"]
  /\ opt = [b \in Builders |-> "exe"]
  /\ mode = [b \in Builders |-> "cached"]
  /\ snap = [b \in Builders |-> src]
  /\ todo = [b \in Builders |-> {}]
  /\ key = [b \in Builders |-> [m \in Modules |-> None]]
  /\ fd = [b \in Builders |-> None]
  /\ body = [b \in Builders |-> None]
  /\ result = [b \in Builders |-> None]
  /\ edits = 0 /\ builds = 0

Goto(b, l) == pc' = [pc EXCEPT ![b] = l]

(* A process that ends keeps nothing. *)
Forget(b) ==
  /\ snap' = [snap EXCEPT ![b] = src]
  /\ todo' = [todo EXCEPT ![b] = {}]
  /\ key' = [key EXCEPT ![b] = [m \in Modules |-> None]]
  /\ fd' = [fd EXCEPT ![b] = None]
  /\ body' = [body EXCEPT ![b] = None]
  /\ mode' = [mode EXCEPT ![b] = "cached"]
  /\ Goto(b, "idle")

Fail(b) == Forget(b) /\ result' = [result EXCEPT ![b] = None]

(* The caller is handed the output o as it is when the build ends. *)
Succeed(b, o) ==
  /\ Forget(b)
  /\ result' = [result EXCEPT
       ![b] = [output |-> o, code |-> out'[o], probes |-> mode[b] = "instrument"]]

-----------------------------------------------------------------------------
(* The programmer. *)

Editable == "edit_during_build" \in env \/ \A b \in Builders : pc[b] = "idle"

SaveSource(m, f, v) ==
  /\ Editable /\ edits < MaxEdits
  /\ src' = [src EXCEPT ![m][f] = v]
  /\ edits' = edits + 1
  /\ result' = [b \in Builders |-> None]
  /\ UNCHANGED <<env, locked, objects, out, tmp, rec, data, locals, builds>>

Edit(m, f) == SaveSource(m, f, edits + 1)

(* git checkout, undo: an earlier text comes back. *)
Revert(m, f) == "revert" \in env /\ src[m][f] # 0 /\ SaveSource(m, f, 0)

-----------------------------------------------------------------------------
(* try_reuse and changed_modules: both read the record, and an unreadable  *)
(* one is an error.                                                        *)

Begin(b, o) ==
  /\ pc[b] = "idle" /\ builds < MaxBuilds
  /\ builds' = builds + 1
  /\ opt' = [opt EXCEPT ![b] = o]
  /\ UNCHANGED <<env, locked, files, edits>>

(* What serde_json can parse. *)
Readable(d) == d \notin {Torn, Garbled}

RecordUnreadable(b, o) ==
  /\ rec # None /\ ~Readable(data[rec])
  /\ Begin(b, o) /\ Fail(b)

Reuse(b, o) ==
  /\ Reusable /\ rec # None /\ Readable(data[rec]) /\ Matches(data[rec], o)
  /\ Begin(b, o) /\ Succeed(b, data[rec].output)

(* Builds that use the cache overlap, but do builds of different outputs?  *)
MayOverlap(o) ==
  "mixed" \in env \/ \A c \in Builders : pc[c] # "idle" /\ mode[c] = "cached" => opt[c] = o

Miss(b, o) ==
  /\ rec # None => Readable(data[rec]) /\ (Reusable => ~Matches(data[rec], o))
  /\ MayOverlap(o)
  /\ Begin(b, o) /\ Goto(b, "load") /\ result' = [result EXCEPT ![b] = None]
  /\ UNCHANGED <<mode, snap, todo, key, fd, body>>

(* cache_disabled: ORI_DISABLE_INCREMENTAL, or a build for the debugger.   *)
(* Neither try_reuse nor changed_modules reads the record.                 *)
Bypass(b, o) ==
  /\ Begin(b, o) /\ Goto(b, "load") /\ result' = [result EXCEPT ![b] = None]
  /\ \E d \in Modes \cap env : mode' = [mode EXCEPT ![b] = d]
  /\ UNCHANGED <<snap, todo, key, fd, body>>

-----------------------------------------------------------------------------
(* The build proper. *)

(* load_and_resolve up to optimize_module.  A library, a build with the    *)
(* cache disabled, and a program with global initialisers ("whole"), which *)
(* is not split into modules, compile to temporary objects beside their    *)
(* output; two such builds for one output at once are not modelled apart.  *)
Load(b) ==
  /\ pc[b] = "load"
  /\ snap' = [snap EXCEPT ![b] = src]
  /\ IF opt[b] = "exe" /\ mode[b] = "cached" /\ "whole" \notin env
       THEN todo' = [todo EXCEPT ![b] = Modules] /\ Goto(b, "emit")
       ELSE Goto(b, "link") /\ UNCHANGED todo
  /\ UNCHANGED <<env, locked, files, opt, mode, key, fd, body, result, edits, builds>>

(* A diagnostic of the front end: nothing is written. *)
Rejected(b) ==
  /\ pc[b] = "load"
  /\ Fail(b)
  /\ UNCHANGED <<env, locked, files, opt, edits, builds>>

(* module_fingerprint reads the file again, after the module was loaded. *)
Content(m) == src[m]

(* The modules are compiled one after the other, in the order of loading. *)
FirstOf(S) == CHOOSE m \in S : TRUE

(* The key is computed, and an object file that exists is taken as it is. *)
LookUp(b, m) ==
  /\ pc[b] = "emit" /\ todo[b] # {} /\ m = FirstOf(todo[b])
  /\ key' = [key EXCEPT ![b][m] = Key(m, Content(m), snap[b])]
  /\ IF key'[b][m] \in DOMAIN objects
       THEN todo' = [todo EXCEPT ![b] = @ \ {m}] /\ UNCHANGED pc
       ELSE Goto(b, m) /\ UNCHANGED todo
  /\ UNCHANGED <<env, locked, files, opt, mode, snap, fd, body, result, edits, builds>>

Put(f, k, v) == [x \in DOMAIN f \cup {k} |-> IF x = k THEN v ELSE f[x]]

(* emit_native_with_options: compile, then fs::write in place. *)
EmitOpen(b) ==
  /\ pc[b] \in Modules /\ pc[b] \in todo[b] /\ fd[b] = None
  /\ objects' = Put(objects, key[b][pc[b]], Torn)
  /\ fd' = [fd EXCEPT ![b] = pc[b]]
  /\ UNCHANGED <<env, locked, src, out, tmp, rec, data, pc, opt, mode, snap, todo,
                 key, body, result, edits, builds>>

(* Two builds may write one object; the tail of a longer one does no harm, *)
(* since nothing in the shorter one points to it.                          *)
EmitWrite(b) ==
  /\ pc[b] \in Modules /\ fd[b] = pc[b]
  /\ objects' = Put(objects, key[b][pc[b]], Object(snap[b], pc[b], FALSE))
  /\ fd' = [fd EXCEPT ![b] = None]
  /\ todo' = [todo EXCEPT ![b] = @ \ {pc[b]}]
  /\ Goto(b, "emit")
  /\ UNCHANGED <<env, locked, src, out, tmp, rec, data, opt, mode, snap, key, body,
                 result, edits, builds>>

Linkable(b) == \A m \in Modules : objects[key[b][m]] # Torn

(* The linker reads the object files as they are now; a truncated one is   *)
(* not an object and the link fails.                                       *)
LinkShared(b) ==
  /\ pc[b] = "emit" /\ todo[b] = {} /\ Linkable(b)
  /\ out' = [out EXCEPT !["exe"] = [m \in Modules |-> objects[key[b][m]]]]
  /\ Goto(b, "record")
  /\ UNCHANGED <<env, locked, src, objects, tmp, rec, data, opt, mode, snap, todo, key,
                 fd, body, result, edits, builds>>

LinkFails(b) ==
  /\ pc[b] = "emit" /\ todo[b] = {} /\ ~Linkable(b)
  /\ Fail(b)
  /\ UNCHANGED <<env, locked, files, opt, edits, builds>>

LinkPrivate(b) ==
  /\ pc[b] = "link"
  /\ out' = [out EXCEPT ![opt[b]] = Clean(snap[b], mode[b] = "instrument")]
  /\ IF mode[b] = "cached"
       THEN Goto(b, "record") /\ UNCHANGED <<mode, snap, todo, key, fd, body, result>>
       ELSE Succeed(b, opt[b])
  /\ UNCHANGED <<env, locked, src, objects, tmp, rec, data, opt, edits, builds>>

-----------------------------------------------------------------------------
(* record_success_with_artifacts: the fingerprint of the sources as they   *)
(* are now, written beside the record and renamed over it.                 *)

RecordOpen(b) ==
  /\ pc[b] = "record"
  /\ body' = [body EXCEPT ![b] = [output |-> opt[b], graph |-> Graph]]
  /\ \E i \in Inodes :
       /\ IF tmp # None THEN i = tmp ELSE i # rec /\ \A c \in Builders : fd[c] # i
       /\ data' = [data EXCEPT ![i] = Torn]
       /\ fd' = [fd EXCEPT ![b] = i]
       /\ tmp' = i
  /\ Goto(b, "write")
  /\ UNCHANGED <<env, locked, src, objects, out, rec, opt, mode, snap, todo, key, result,
                 edits, builds>>

MutFilled(b) == data

(* What the inodes hold once the body has been written to the open file:   *)
(* if another build has written to it since, the end of a longer record    *)
(* stays behind the body.                                                  *)
Filled(b) ==
  [data EXCEPT ![fd[b]] =
     IF @ # Torn /\ body[b].output \notin Longest
          /\ (@ = Garbled \/ @.output # body[b].output)
       THEN Garbled ELSE body[b]]

RecordWrite(b) ==
  /\ pc[b] = "write"
  /\ data' = Filled(b)
  /\ fd' = [fd EXCEPT ![b] = None]
  /\ Goto(b, "rename")
  /\ UNCHANGED <<env, locked, src, objects, out, tmp, rec, opt, mode, snap, todo, key,
                 body, result, edits, builds>>

RecordRename(b) ==
  /\ pc[b] = "rename" /\ tmp # None
  /\ rec' = tmp /\ tmp' = None
  /\ UNCHANGED <<env, locked, src, objects, out, data, opt, edits, builds>>
  /\ Succeed(b, opt[b])

(* Another build has renamed the shared temporary file away. *)
RenameFails(b) ==
  /\ pc[b] = "rename" /\ tmp = None
  /\ Fail(b)
  /\ UNCHANGED <<env, locked, files, opt, edits, builds>>

(* A crash, or an error return: a full disk, a linker that is not there.   *)
(* What the build has written stays.                                       *)
Abort(b) ==
  /\ "abort" \in env /\ pc[b] # "idle"
  /\ Fail(b)
  /\ UNCHANGED <<env, locked, files, opt, edits, builds>>

-----------------------------------------------------------------------------
Programmer == \E m \in Modules, f \in Facets : Edit(m, f) \/ Revert(m, f)

Build(b) ==
  \/ \E o \in Outputs : RecordUnreadable(b, o) \/ Reuse(b, o) \/ Miss(b, o) \/ Bypass(b, o)
  \/ Load(b) \/ Rejected(b)
  \/ \E m \in Modules : LookUp(b, m)
  \/ EmitOpen(b) \/ EmitWrite(b)
  \/ LinkShared(b) \/ LinkFails(b) \/ LinkPrivate(b)
  \/ RecordOpen(b) \/ RecordWrite(b) \/ RecordRename(b) \/ RenameFails(b)
  \/ Abort(b)

Next == Programmer \/ \E b \in Builders : Build(b)

Spec == Init /\ [][Next]_vars

-----------------------------------------------------------------------------
(* Properties. *)

(* A build that succeeds, reused or not, hands out what a build from       *)
(* nothing would have made of the sources as they are: no sequence of      *)
(* edits, failed, interrupted and concurrent builds makes it pick up an    *)
(* object or an output of other sources.                                   *)
OutputMatchesSources ==
  \A b \in Builders :
    result[b] # None =>
      /\ result[b].output = opt[b]
      /\ result[b].code = Clean(src, result[b].probes)

(* Nobody edits while a build runs. *)
Steady == "edit_during_build" \notin env

(* The conditions under which the cache is transparent: no edit during a   *)
(* build, no debug probes, no edit of what other modules' objects embed,   *)
(* no inlining across modules; and where an earlier text may come back,    *)
(* every build records what it has linked.                                 *)
Tame ==
  /\ Steady /\ "instrument" \notin env
  /\ "embed" \notin Facets /\ "aggressive" \notin env
  /\ "revert" \in env => "abort" \notin env /\ "bypass" \notin env

(* Under these conditions the cache is transparent (try_reuse,             *)
(* module_artifact_path, record_success_with_artifacts).                   *)
CacheIsTransparent == Tame => OutputMatchesSources

(* The modules of an output agree on the interfaces between them: every    *)
(* object in it was compiled against the signatures and layouts that every *)
(* other one implements.  No condition is needed: sources may be edited    *)
(* while a build digests, compiles and links them, builds may overlap and  *)
(* die.  A linker does not check this (module_artifact_path).              *)
LinkedInterfacesAgree ==
  \A o \in Outputs :
    out[o] # None => \A m, n \in Modules : out[o][n].sigs[m] = out[o][m].own["sig"]

(* Builds that share incremental.json.tmp can put a record in place that   *)
(* cannot be read, on which every other build fails.  A truncated one is,  *)
(* unless a build dies, still open in a build that is about to fill it;    *)
(* one with a foreign end, which stays, takes builds of different outputs  *)
(* that overlap.                                                           *)
UnreadableRecordIsTransient ==
  rec # None =>
    /\ data[rec] = Torn =>
         "abort" \in env \/ \E b \in Builders : pc[b] = "write" /\ fd[b] = rec
    /\ data[rec] = Garbled => "mixed" \in env

=============================================================================

---------------------------- MODULE PackageCache -----------------------------
(***************************************************************************)
(* The package cache and the lockfile, beside the registry of module       *)
(* Registry: `ori install` (from the registry or, with --path, from a      *)
(* checkout), `ori lock` and `ori lock --locked` run concurrently with     *)
(* each other and with publishers, and share the cache                     *)
(* <cache>/<name>/<version>/ and the project's ori.lock.                   *)
(*                                                                         *)
(* A tree digest identifies the tree, so a digest is modelled by the files *)
(* that were hashed. The origin of an entry (its source identity) is the   *)
(* registry or the checkout of its version.                                *)
(***************************************************************************)
EXTENDS Registry

CONSTANT Clients   \* processes that install or lock

Origins == {"registry", "path"}
Entries == [tree : Trees, origin : Origins, digest : Trees]
Locked == [ver : Versions, origin : Origins, digest : Trees, asked : {"registry", None}]

ASSUME CacheAssumption ==
  /\ IsFiniteSet(Clients)
  /\ None \notin Entries \cup Locked \cup Origins \cup {"lock", "restore"}

VARIABLES cache,   \* the entry of each version, or None
          plock,   \* the dependency that ori.lock records, or None, and as its
                   \* history the registry that its writer asked for
          cl,      \* the locals of each client
          was,     \* every tree the registry has held of each version
          meddled  \* has somebody changed cache or registry by hand?

packages == <<cache, plock, cl, was, meddled>>
vars == <<rvars, packages>>

Empty == [f \in Files |-> None]
Waiting == [pc |-> "ready", cmd |-> None, ver |-> None, origin |-> None,
            expect |-> None, digest |-> Empty, staged |-> Empty, got |-> None]

Init ==
  /\ RInit
  /\ cache = [v \in Versions |-> None]
  /\ plock = None
  /\ cl = [c \in Clients |-> Waiting]
  /\ was = [v \in Versions |-> {}]
  /\ meddled = FALSE

Places == {"ready", "look", "source", "digest", "target", "copy", "rename", "record"}
Partial == [Files -> Nat \cup {None}]
Commands == [pc : Places, cmd : {"install", "lock", "restore", None}, ver : Versions \cup {None},
             origin : Origins \cup {None}, expect : Trees \cup {None},
             digest : Partial, staged : Partial, got : Trees \cup {None}]

TypeOK ==
  /\ RTypeOK
  /\ cache \in [Versions -> Entries \cup {None}]
  /\ plock \in Locked \cup {None}
  /\ cl \in [Clients -> Commands]
  /\ was \in [Versions -> SUBSET Trees] /\ meddled \in BOOLEAN

-----------------------------------------------------------------------------
CAt(c, loc) == cl[c].pc = loc
CGoto(c, loc) == cl' = [cl EXCEPT ![c].pc = loc]
End(c) == cl' = [cl EXCEPT ![c] = Waiting]
Unstarted == UNCHANGED <<work, history, registry, cache, plock, was, meddled>>

(* The command succeeds; the tree it hands on is remembered until the next one.    *)
Succeed(c, tree) ==
  cl' = [cl EXCEPT ![c] = [@ EXCEPT !.pc = "ready", !.digest = Empty, !.staged = Empty,
                                    !.got = tree]]

(* `ori install` for a version, or for the last one of versions.json (or,  *)
(* without that file, the last directory) (latest_registry_version).       *)
Install(c, v, origin) ==
  /\ CAt(c, "ready") /\ StartCommand
  /\ cl' = [cl EXCEPT ![c] = [Waiting EXCEPT !.pc = "look", !.cmd = "install", !.ver = v,
                                             !.origin = origin]]
  /\ Unstarted

(* `ori lock` in a project that requires version v (resolve_package_lock). *)
(* Without ORI_REGISTRY it asks for no origin.                             *)
Lock(c, v, asked) ==
  /\ CAt(c, "ready") /\ StartCommand
  /\ cl' = [cl EXCEPT ![c] = [Waiting EXCEPT !.pc = "look", !.cmd = "lock", !.ver = v,
                                             !.origin = asked]]
  /\ Unstarted

(* `ori lock --locked`, `ori get` and every build with a lockfile:         *)
(* restore_locked_dependencies with the recorded source and digest.        *)
Restore(c) ==
  /\ CAt(c, "ready") /\ plock # None /\ StartCommand
  /\ cl' = [cl EXCEPT ![c] = [Waiting EXCEPT !.pc = "look", !.cmd = "restore", !.ver = plock.ver,
                                             !.origin = plock.origin, !.expect = plock.digest]]
  /\ Unstarted

-----------------------------------------------------------------------------
MutValidHash(c, entry, expected) ==
  cl[c].origin \in {None, entry.origin} /\ (expected # None => entry.digest = expected)

MutValidOrigin(c, entry, expected) ==
  entry.digest = entry.tree /\ (expected # None => entry.tree = expected)

(* validate_cache_entry: the entry is hashed again, whatever it records;   *)
(* its origin is compared if there is one to compare it with.              *)
Valid(c, entry, expected) ==
  /\ cl[c].origin # None => entry.origin = cl[c].origin
  /\ entry.digest = entry.tree
  /\ expected # None => entry.tree = expected

(* With a valid entry the command is served; `ori lock` goes on to read    *)
(* the entry's metadata.                                                   *)
Serve(c, v, expected) ==
  IF ~Valid(c, cache[v], expected) THEN End(c)
  ELSE IF cl[c].cmd = "lock" THEN CGoto(c, "record")
  ELSE Succeed(c, cache[v].tree)

(* ensure_version_package_cached, install_local_package and the registry   *)
(* case of restore_locked_dependencies all look into the cache first.      *)
Look(c) ==
  /\ CAt(c, "look")
  /\ IF cache[cl[c].ver] # None
       THEN Serve(c, cl[c].ver, cl[c].expect)
       ELSE CGoto(c, "source")
  /\ UNCHANGED <<rvars, cache, plock, was, meddled>>

(* fetch_package_from_registry needs the version's tree in the registry; a *)
(* lockfile that names another origin cannot be fetched, and without a     *)
(* registry nothing can (package.cache_miss).                              *)
FindSource(c) ==
  /\ CAt(c, "source")
  /\ IF IF cl[c].origin = "registry" THEN reg.tree[cl[c].ver] = None
           ELSE cl[c].cmd = "restore" \/ cl[c].origin = None
       THEN End(c)
       ELSE CGoto(c, "digest")
  /\ UNCHANGED <<rvars, cache, plock, was, meddled>>

(* The file as it is at the origin now. *)
Source(c, f) ==
  IF cl[c].origin = "registry" THEN reg.tree[cl[c].ver][f] ELSE work[cl[c].ver][f]

(* package.lock_digest_mismatch. *)
Wanted(expect, digest) == expect \in {None, digest}

(* package_tree_digest(source), file by file. *)
DigestFile(c, f) ==
  /\ CAt(c, "digest") /\ cl[c].digest[f] = None
  /\ LET last == \A g \in Files \ {f} : cl[c].digest[g] # None
         read == [cl[c].digest EXCEPT ![f] = Source(c, f)]
     IN  IF last /\ ~Wanted(cl[c].expect, read) THEN End(c)
         ELSE cl' = [cl EXCEPT ![c].digest = read, ![c].pc = IF last THEN "target" ELSE @]
  /\ UNCHANGED <<rvars, cache, plock, was, meddled>>

(* An entry that has come meanwhile must be the one wanted. *)
LookAgain(c) ==
  /\ CAt(c, "target")
  /\ IF cache[cl[c].ver] # None THEN Serve(c, cl[c].ver, cl[c].digest) ELSE CGoto(c, "copy")
  /\ UNCHANGED <<rvars, cache, plock, was, meddled>>

MutSame(copied, digest) == TRUE

(* package.source_changed: the staged tree is hashed and compared. *)
Same(copied, digest) == copied = digest

(* copy_package_tree(source, staged), file by file. *)
CopyFile(c, f) ==
  /\ CAt(c, "copy") /\ cl[c].staged[f] = None
  /\ LET last == \A g \in Files \ {f} : cl[c].staged[g] # None
         read == [cl[c].staged EXCEPT ![f] = Source(c, f)]
     IN  IF last /\ ~Same(read, cl[c].digest) THEN End(c)
         ELSE cl' = [cl EXCEPT ![c].staged = read, ![c].pc = IF last THEN "rename" ELSE @]
  /\ UNCHANGED <<rvars, cache, plock, was, meddled>>

(* rename cannot replace a directory that holds files: the loser of a race *)
(* accepts the winner's entry only if it is the one it wanted.             *)
RenameEntry(c) ==
  /\ CAt(c, "rename")
  /\ LET v == cl[c].ver
         entry == [tree |-> cl[c].staged, origin |-> cl[c].origin, digest |-> cl[c].digest]
     IN  IF cache[v] # None THEN Serve(c, v, cl[c].digest) /\ UNCHANGED cache
         ELSE /\ cache' = [cache EXCEPT ![v] = entry]
              /\ IF cl[c].cmd = "lock" THEN CGoto(c, "record") ELSE Succeed(c, entry.tree)
  /\ UNCHANGED <<rvars, plock, was, meddled>>

(* read_cache_metadata once more, then write_package_lock, which replaces  *)
(* ori.lock at once.                                                       *)
Record(c) ==
  /\ CAt(c, "record")
  /\ LET v == cl[c].ver IN
     plock' = IF cache[v] = None THEN plock
              ELSE [ver |-> v, origin |-> cache[v].origin, digest |-> cache[v].digest,
                    asked |-> cl[c].origin]
  /\ End(c)
  /\ UNCHANGED <<rvars, cache, was, meddled>>

(* The process dies; what it staged is in a directory of its own.          *)
CrashClient(c) ==
  /\ ~CAt(c, "ready") /\ Upset
  /\ End(c)
  /\ Unstarted

(* A user removes a cache entry or changes a file of it, or the registry's *)
(* operator changes a file of a published tree.                          *)
Meddle == Upset /\ meddled' = TRUE

Purge(v) ==
  /\ cache[v] # None /\ Meddle
  /\ cache' = [cache EXCEPT ![v] = None]
  /\ UNCHANGED <<work, history, registry, plock, cl, was>>

Tamper(v, f) ==
  /\ cache[v] # None /\ Meddle
  /\ cache' = [cache EXCEPT ![v].tree[f] = used'.upsets]
  /\ UNCHANGED <<work, history, registry, plock, cl, was>>

Replace(v, f) ==
  /\ reg.tree[v] # None /\ Meddle
  /\ reg' = [reg EXCEPT !.tree[v][f] = used'.upsets]
  /\ was' = [was EXCEPT ![v] = @ \cup {reg'.tree[v]}]
  /\ UNCHANGED <<work, history, lock, pub, done, robbed, cache, plock, cl>>

-----------------------------------------------------------------------------
Client(c) ==
  \/ \E v \in Versions : \/ \E o \in {"registry", None} : Lock(c, v, o)
                         \/ \E o \in Origins : Install(c, v, o)
  \/ Restore(c)
  \/ Look(c) \/ FindSource(c) \/ LookAgain(c) \/ RenameEntry(c) \/ Record(c)
  \/ \E f \in Files : DigestFile(c, f) \/ CopyFile(c, f)
  \/ CrashClient(c)

(* A publisher's step; what it puts into the registry is remembered. *)
RegistryStep ==
  /\ RNext
  /\ was' = [v \in Versions |-> was[v] \cup ({reg'.tree[v]} \ {None})]
  /\ UNCHANGED <<cache, plock, cl, meddled>>

Next ==
  \/ RegistryStep
  \/ \E c \in Clients : Client(c)
  \/ \E v \in Versions : Purge(v) \/ \E f \in Files : Tamper(v, f) \/ Replace(v, f)

Spec == Init /\ [][Next]_vars

-----------------------------------------------------------------------------
(* Properties. *)

(* The tree a successful command hands on is one its origin really was at  *)
(* some moment, never a mixture of two (publish_cache_entry): the          *)
(* checkout's for --path, though it is edited while it is hashed and       *)
(* copied, a published one for the registry, though entries are raced for, *)
(* removed and changed.                                                    *)
ServedIsSnapshot ==
  \A c \in Clients : cl[c].got # None =>
    cl[c].got \in (IF cl[c].origin = "path" THEN history ELSE was)[cl[c].ver]

(* A restore (restore_locked_dependencies) delivers exactly the tree the   *)
(* lockfile it started from records, or fails: also after the entry was    *)
(* removed, changed or fetched again from a registry that has changed.     *)
RestoreIsReproducible ==
  \A c \in Clients :
    cl[c].cmd = "restore" /\ cl[c].got # None => cl[c].got = cl[c].expect

(* What `ori lock` writes (collect_locked_dependencies) is a tree its      *)
(* registry has held; unless somebody changes cache or registry by hand,   *)
(* it is the one that the registry holds and can be restored into an empty *)
(* cache.  There is one exception: with ORI_REGISTRY unset the lockfile    *)
(* takes over an entry that was installed from a checkout, which no other  *)
(* machine can restore; it is still a tree the checkout had.  Removing the *)
(* entry between its validation and the second reading of its metadata     *)
(* puts another origin into the lockfile as well.                          *)
LockIsRestorable ==
  plock # None =>
    /\ plock.origin = "registry" => plock.digest \in was[plock.ver]
    /\ ~meddled =>
         \/ plock.origin = "registry" /\ plock.digest = reg.tree[plock.ver]
         \/ plock.asked = None /\ plock.origin = "path" /\ plock.digest \in history[plock.ver]

=============================================================================

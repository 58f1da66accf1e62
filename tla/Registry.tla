------------------------------ MODULE Registry -------------------------------
(***************************************************************************)
(* Publication into a file registry (run_publish_package and what it       *)
(* calls): each `ori publish` process takes the lock file                  *)
(* .ori-publish.lock, stages the package tree and its archive in a         *)
(* temporary directory, renames archive, digest and tree into place and    *)
(* adds the version to two index files.                                    *)
(*                                                                         *)
(* A step is what a publisher does up to the next file-system access that  *)
(* another process may come between; a crash may come between any two.     *)
(* One package name is modelled, each of its versions with a checkout of   *)
(* its own; what a file holds is the number of the edit that wrote it.     *)
(***************************************************************************)
EXTENDS Naturals, FiniteSets

CONSTANTS Publishers,   \* processes that run `ori publish`
          Versions,     \* the versions of the package
          Files,        \* the files of the package
          None,         \* no file, no value
          MaxCommands,  \* bound on the commands that are started
          MaxUpsets     \* bound on edits, crashes and changes by hand together

ASSUME RegistryAssumption ==
  /\ IsFiniteSet(Publishers) /\ IsFiniteSet(Versions) /\ IsFiniteSet(Files)
  /\ None \notin Publishers \cup Versions \cup Nat \cup [Files -> Nat]
  /\ "crashed" \notin Publishers \cup {None}
  /\ MaxCommands \in Nat /\ MaxUpsets \in Nat

VARIABLES work,      \* the checkout each version is published from
          history,   \* every state each checkout has been in
          lock,      \* .ori-publish.lock: who created it, is it 120 s old?
          reg,       \* what is in the registry
          pub,       \* the locals of each publisher
          done,      \* the versions a publisher has reported as published
          robbed,    \* a publisher's lock was removed by another one
          used       \* how much of each bound is used up

registry == <<lock, reg, pub, done, robbed>>
rvars == <<work, history, registry, used>>

Trees == [Files -> Nat]
NoLock == [owner |-> None, old |-> FALSE]
Idle == [pc |-> "ready", ver |-> None, tree |-> None, copy |-> {}]

(* Where a publisher is; "steal" has seen a stale lock and not removed it. *)
Critical == {"exists", "tree", "archive", "rename", "digest", "publish",
             "index", "write_index", "global", "write_global", "unlock", "release"}

Jobs == [pc : Critical \cup {"ready", "acquire", "steal"}, ver : Versions \cup {None},
         tree : Trees \cup {None}, copy : SUBSET Versions]
Contents == [tarball : [Versions -> Publishers \cup {None}],
             digest  : [Versions -> Publishers \cup {None}],
             tree    : [Versions -> Trees \cup {None}],
             index   : SUBSET Versions, global : SUBSET Versions]

RTypeOK ==
  /\ work \in [Versions -> Trees] /\ history \in [Versions -> SUBSET Trees]
  /\ lock \in [owner : Publishers \cup {None, "crashed"}, old : BOOLEAN]
  /\ reg \in Contents /\ pub \in [Publishers -> Jobs]
  /\ done \subseteq Versions /\ robbed \in BOOLEAN
  /\ used \in [commands : Nat, upsets : Nat]

RInit ==
  /\ work = [v \in Versions |-> [f \in Files |-> 0]]
  /\ history = [v \in Versions |-> {work[v]}]
  /\ lock = NoLock
  /\ reg = [tarball |-> [v \in Versions |-> None],    \* <version>.tar.gz
            digest  |-> [v \in Versions |-> None],    \* <version>.tar.gz.sha256
            tree    |-> [v \in Versions |-> None],    \* <version>/
            index   |-> {},                           \* versions.json
            global  |-> {}]                           \* index.json
  /\ pub = [p \in Publishers |-> Idle]
  /\ done = {} /\ robbed = FALSE
  /\ used = [commands |-> 0, upsets |-> 0]

-----------------------------------------------------------------------------
(* What the code has to cope with and does not do itself. *)
Upset ==
  /\ used.upsets < MaxUpsets
  /\ used' = [used EXCEPT !.upsets = @ + 1]

(* A developer edits a file of a checkout; the text is a new one (nothing is    *)
(* undone).                                                                   *)
EditWork(v, f) ==
  /\ Upset
  /\ work' = [work EXCEPT ![v][f] = used'.upsets]
  /\ history' = [history EXCEPT ![v] = @ \cup {work'[v]}]
  /\ UNCHANGED registry

StartCommand ==
  /\ used.commands < MaxCommands
  /\ used' = [used EXCEPT !.commands = @ + 1]

At(p, loc) == pub[p].pc = loc
Goto(p, loc) == pub' = [pub EXCEPT ![p].pc = loc]

Begin(p, v) ==
  /\ At(p, "ready") /\ StartCommand
  /\ pub' = [pub EXCEPT ![p] = [Idle EXCEPT !.pc = "acquire", !.ver = v]]
  /\ UNCHANGED <<work, history, lock, reg, done, robbed>>

-----------------------------------------------------------------------------
(* RegistryPublishLock. *)

MutLockFree == TRUE

(* create_new fails when the file exists. *)
LockFree == lock.owner = None

Acquire(p) ==
  /\ At(p, "acquire") /\ LockFree
  /\ lock' = [owner |-> p, old |-> FALSE]
  /\ Goto(p, "exists")
  /\ UNCHANGED <<work, history, reg, done, robbed, used>>

(* The lock's age is read; a stale lock is removed in the next step. *)
SeeStale(p) ==
  /\ At(p, "acquire") /\ lock.old
  /\ Goto(p, "steal")
  /\ UNCHANGED <<work, history, lock, reg, done, robbed, used>>

(* remove_file(path) removes the lock that is there by now: it is another  *)
(* publisher's if the stale one has been replaced in the meantime.         *)
RemoveLock(p) ==
  /\ lock' = NoLock
  /\ robbed' = (robbed \/ lock.owner \in Publishers \ {p})

Steal(p) ==
  /\ At(p, "steal")
  /\ RemoveLock(p)
  /\ Goto(p, "acquire")
  /\ UNCHANGED <<work, history, reg, done, used>>

(* publish_busy: after 200 attempts in two seconds. *)
GiveUp(p) ==
  /\ At(p, "acquire") /\ ~LockFree /\ ~lock.old
  /\ Goto(p, "ready")
  /\ UNCHANGED <<work, history, lock, reg, done, robbed, used>>

(* Two minutes pass after a crash. A publication is taken to be shorter.   *)
LockAges ==
  /\ lock.owner = "crashed" /\ ~lock.old
  /\ lock' = [lock EXCEPT !.old = TRUE]
  /\ UNCHANGED <<work, history, reg, pub, done, robbed, used>>

(* Drop removes the file by its path, whatever the outcome. *)
Unlock(p) ==
  /\ At(p, "unlock") \/ At(p, "release")
  /\ RemoveLock(p)
  /\ done' = IF At(p, "release") THEN done \cup {pub[p].ver} ELSE done
  /\ pub' = [pub EXCEPT ![p] = Idle]
  /\ UNCHANGED <<work, history, reg, used>>

-----------------------------------------------------------------------------
(* Staging. *)

(* Versions are immutable. *)
CheckExists(p) ==
  /\ At(p, "exists")
  /\ Goto(p, IF reg.tree[pub[p].ver] # None THEN "unlock" ELSE "tree")
  /\ UNCHANGED <<work, history, lock, reg, done, robbed, used>>

(* copy_package_tree. The files are read one after the other; no property  *)
(* depends on when, since any tree may be published.                       *)
StageTree(p) ==
  /\ At(p, "tree")
  /\ pub' = [pub EXCEPT ![p].tree = work[pub[p].ver], ![p].pc = "archive"]
  /\ UNCHANGED <<work, history, lock, reg, done, robbed, used>>

ArchiveFree(v) == reg.tarball[v] = None /\ reg.digest[v] = None

(* The archive is made from the checkout again, not from the staged tree;  *)
(* an archive and its digest are identified by the publisher that made it. *)
(* No archive of the version may be there.                                 *)
StageArchive(p) ==
  /\ At(p, "archive")
  /\ Goto(p, IF ArchiveFree(pub[p].ver) THEN "rename" ELSE "unlock")
  /\ UNCHANGED <<work, history, lock, reg, done, robbed, used>>

-----------------------------------------------------------------------------
(* The renames that publish. *)

(* rename replaces a file that exists. *)
RenameArchive(p) ==
  /\ At(p, "rename")
  /\ reg' = [reg EXCEPT !.tarball[pub[p].ver] = p]
  /\ Goto(p, "digest")
  /\ UNCHANGED <<work, history, lock, done, robbed, used>>

(* A rename that fails takes the archive back. *)
RenameDigest(p) ==
  /\ At(p, "digest")
  /\ \/ reg' = [reg EXCEPT !.digest[pub[p].ver] = p] /\ Goto(p, "publish")
     \/ reg' = [reg EXCEPT !.tarball[pub[p].ver] = None] /\ Goto(p, "unlock")
  /\ UNCHANGED <<work, history, lock, done, robbed, used>>

MutRenameTree(p) ==
  /\ At(p, "publish")
  /\ LET v == pub[p].ver IN
     \/ /\ reg.tree[v] = None
        /\ reg' = [reg EXCEPT !.tree[v] = pub[p].tree] /\ Goto(p, "index")
     \/ UNCHANGED reg /\ Goto(p, "index")
  /\ UNCHANGED <<work, history, lock, done, robbed, used>>

(* A directory cannot be renamed over one that holds files; and a rename   *)
(* may fail otherwise. Then digest and archive are removed again.          *)
RenameTree(p) ==
  /\ At(p, "publish")
  /\ LET v == pub[p].ver IN
     \/ /\ reg.tree[v] = None
        /\ reg' = [reg EXCEPT !.tree[v] = pub[p].tree] /\ Goto(p, "index")
     \/ reg' = [reg EXCEPT !.digest[v] = None, !.tarball[v] = None] /\ Goto(p, "unlock")
  /\ UNCHANGED <<work, history, lock, done, robbed, used>>

-----------------------------------------------------------------------------
(* update_versions_index and update_global_index: read, add, replace.      *)

ReadIndex(p) ==
  /\ \/ At(p, "index") /\ pub' = [pub EXCEPT ![p].pc = "write_index", ![p].copy = reg.index]
     \/ At(p, "global") /\ pub' = [pub EXCEPT ![p].pc = "write_global", ![p].copy = reg.global]
  /\ UNCHANGED <<work, history, lock, reg, done, robbed, used>>

(* atomic_replace_registry_index: the new document or the old one. *)
WriteIndex(p) ==
  /\ \/ /\ At(p, "write_index") /\ Goto(p, "global")
        /\ reg' = [reg EXCEPT !.index = pub[p].copy \cup {pub[p].ver}]
     \/ /\ At(p, "write_global") /\ Goto(p, "release")
        /\ reg' = [reg EXCEPT !.global = pub[p].copy \cup {pub[p].ver}]
  /\ UNCHANGED <<work, history, lock, done, robbed, used>>

(* Staging fails, or the archive cannot be renamed, or an index cannot be  *)
(* read or replaced: the error is returned as it is, and what has been     *)
(* published stays.                                                        *)
Fails(p) ==
  /\ pub[p].pc \in {"tree", "archive", "rename", "index", "write_index", "global",
                    "write_global"}
  /\ Goto(p, "unlock")
  /\ UNCHANGED <<work, history, lock, reg, done, robbed, used>>

(* The process dies; its lock file and what it has renamed stay. *)
CrashPublisher(p) ==
  /\ ~At(p, "ready") /\ Upset
  /\ pub' = [pub EXCEPT ![p] = Idle]
  /\ lock' = IF lock.owner = p THEN [lock EXCEPT !.owner = "crashed"] ELSE lock
  /\ UNCHANGED <<work, history, reg, done, robbed>>

-----------------------------------------------------------------------------
Publish(p) ==
  \/ \E v \in Versions : Begin(p, v)
  \/ Acquire(p) \/ SeeStale(p) \/ Steal(p) \/ GiveUp(p)
  \/ CheckExists(p) \/ StageTree(p) \/ StageArchive(p)
  \/ RenameArchive(p) \/ RenameDigest(p) \/ RenameTree(p)
  \/ ReadIndex(p) \/ WriteIndex(p) \/ Fails(p)
  \/ Unlock(p) \/ CrashPublisher(p)

RNext ==
  \/ \E p \in Publishers : Publish(p)
  \/ LockAges
  \/ \E v \in Versions, f \in Files : EditWork(v, f)

RSpec == RInit /\ [][RNext]_rvars

-----------------------------------------------------------------------------
(* Properties. They hold as long as the lock is: two publishers that both  *)
(* find a crashed publisher's lock stale can both come to hold one         *)
(* (robbed), and then none of them does.                                   *)

(* No publisher loses another's version: once `ori publish` has reported   *)
(* success (run_publish_package), the version is in versions.json and in   *)
(* index.json for good, whoever publishes, fails or crashes afterwards.    *)
NoVersionLost == ~robbed => done \subseteq reg.index \cap reg.global

(* An indexed version can be fetched either way: its tree is there, and so *)
(* are its archive and that archive's digest (run_publish_package puts the *)
(* artifacts in place before the indexes, and rolls back only its own).    *)
IndexedIsFetchable ==
  ~robbed => \A v \in reg.index \cup reg.global :
               /\ reg.tree[v] # None /\ reg.tarball[v] # None
               /\ reg.digest[v] = reg.tarball[v]

=============================================================================

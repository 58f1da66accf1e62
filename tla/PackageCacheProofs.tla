-------------------------- MODULE PackageCacheProofs --------------------------
(***************************************************************************)
(* Proofs about Registry and PackageCache, for any number of publishers,   *)
(* clients, versions and files and any number of commands and mishaps.     *)
(*                                                                         *)
(* The registry's part rests on mutual exclusion: as long as no lock was   *)
(* robbed, whoever is past the lock owns it, so what such a publisher has  *)
(* seen and done stays as it is.  The cache's part rests on the numbering  *)
(* of texts: the text of a file only grows, so a tree that is read twice   *)
(* with the same result was there between the two readings.                *)
(***************************************************************************)
EXTENDS PackageCache, TLAPS

(* A publisher that owns the lock file is past it. *)
OwnerIsInside == \A p \in Publishers : lock.owner = p => pub[p].pc \in Critical

(* Mutual exclusion. *)
InsideIsOwner == ~robbed => \A p \in Publishers : pub[p].pc \in Critical => lock.owner = p

Unpublished == {"tree", "archive", "rename", "digest", "publish"}
Published == {"index", "write_index", "global", "write_global", "release"}

(* What a publisher has seen and done is still so. *)
Progress ==
  ~robbed => \A p \in Publishers :
    LET pc == pub[p].pc
        v == pub[p].ver
    IN  /\ pc \in Unpublished => reg.tree[v] = None
        /\ pc \in Published => reg.tree[v] # None
        /\ pc \in Published \cup {"digest", "publish"} => reg.tarball[v] = p
        /\ pc \in Published \cup {"publish"} => reg.digest[v] = p
        /\ pc = "write_index" => pub[p].copy = reg.index
        /\ pc = "write_global" => pub[p].copy = reg.global
        /\ pc \in {"global", "write_global", "release"} => v \in reg.index
        /\ pc = "release" => v \in reg.global

(* The text of a file is the number of the edit that wrote it. *)
Numbered ==
  \A v \in Versions, f \in Files :
    work[v][f] <= used.upsets /\ (reg.tree[v] # None => reg.tree[v][f] <= used.upsets)

(* What a publisher works on; the texts it has staged are numbered like all. *)
Job ==
  \A p \in Publishers :
    /\ pub[p].pc # "ready" => pub[p].ver \in Versions
    /\ pub[p].pc \in Unpublished \ {"tree"} => pub[p].tree \in Trees
    /\ pub[p].tree # None => \A f \in Files : pub[p].tree[f] <= used.upsets

RInv ==
  /\ RTypeOK /\ Numbered /\ Job /\ OwnerIsInside /\ InsideIsOwner /\ Progress
  /\ NoVersionLost /\ IndexedIsFetchable

-----------------------------------------------------------------------------
(* What registry and checkouts are is among what they have been; and the   *)
(* registry has held one tree of a version at most, if nobody changed it.  *)
Remembered ==
  /\ \A v \in Versions : work[v] \in history[v] /\ (reg.tree[v] # None => reg.tree[v] \in was[v])
  /\ ~meddled => \A v \in Versions : was[v] \subseteq {reg.tree[v]}

Truth(origin, v) == (IF origin = "path" THEN history ELSE was)[v]

(* The digest an entry records is that of a tree its origin has been. *)
EntriesTrue ==
  \A v \in Versions : cache[v] # None => cache[v].digest \in Truth(cache[v].origin, v)

(* What a client's command is about, and what it has read so far. *)
Command(c) ==
  LET k == cl[c] IN
  /\ k.pc # "ready" => k.ver \in Versions /\ (k.origin \in Origins \/ k.cmd = "lock")
  /\ k.pc \in {"digest", "target", "copy", "rename"} => k.origin \in Origins
  /\ k.cmd = "restore" => k.expect \in Trees
  /\ k.cmd = "lock" => k.origin \in {"registry", None}
  /\ k.pc = "record" => k.cmd = "lock"
  /\ k.pc \in {"look", "source", "digest", "target"} => k.staged = Empty
  /\ k.pc \in {"look", "source"} => k.digest = Empty
  /\ k.pc \in {"target", "copy", "rename"} => k.digest \in Trees /\ Wanted(k.expect, k.digest)
  /\ k.pc \in {"digest", "target", "copy", "rename"} /\ k.origin = "registry" =>
       reg.tree[k.ver] # None

(* A tree that lies between the two readings. *)
Between(c, T) ==
  \A f \in Files :
    /\ cl[c].digest[f] <= T[f] /\ T[f] <= Source(c, f)
    /\ cl[c].staged[f] # None => T[f] <= cl[c].staged[f]

(* Each reading is overtaken by the origin, and once the first one is      *)
(* complete its origin has passed through a tree no older than it.         *)
Readings(c) ==
  LET k == cl[c] IN
  /\ k.pc = "digest" => \A f \in Files : k.digest[f] # None => k.digest[f] <= Source(c, f)
  /\ k.pc \in {"target", "copy"} => \E T \in Truth(k.origin, k.ver) : Between(c, T)
  /\ k.pc = "rename" => k.staged = k.digest /\ k.digest \in Truth(k.origin, k.ver)

(* `ori lock' records the entry it has validated, of the registry if it asked *)
(* for it, unless somebody removes it; what a command has delivered is a      *)
(* snapshot, and the one that was expected.                                   *)
Outcome(c) ==
  LET k == cl[c] IN
  /\ ~meddled /\ k.pc = "record" => cache[k.ver] # None
  /\ ~meddled /\ k.pc = "record" /\ k.origin # None => cache[k.ver].origin = "registry"
  /\ k.got # None => k.ver \in Versions /\ k.got \in Truth(k.origin, k.ver)
  /\ k.cmd = "restore" /\ k.got # None => k.got = k.expect

ClientOK(c) == Command(c) /\ Readings(c) /\ Outcome(c)

CInv ==
  /\ TypeOK /\ Remembered /\ EntriesTrue /\ LockIsRestorable
  /\ \A c \in Clients : ClientOK(c)

-----------------------------------------------------------------------------
(* The registry. *)

(* The fields of a record of either kind. *)
LEMMA JobFields ==
  ASSUME NEW j \in Jobs
  PROVE  /\ j.pc \in Critical \cup {"ready", "acquire", "steal"} /\ j.ver \in Versions \cup {None}
         /\ j.tree \in Trees \cup {None} /\ j.copy \in SUBSET Versions
BY DEF Jobs

\* The fields of the registry's contents have their types.
LEMMA ContentsFields ==
  ASSUME NEW r \in Contents
  PROVE  /\ r.tarball \in [Versions -> Publishers \cup {None}]
         /\ r.digest \in [Versions -> Publishers \cup {None}]
         /\ r.tree \in [Versions -> Trees \cup {None}]
         /\ r.index \in SUBSET Versions /\ r.global \in SUBSET Versions
BY DEF Contents

(* A publisher that moves on keeps everything but its place. *)
LEMMA GotoJob ==
  ASSUME NEW jobs \in [Publishers -> Jobs], NEW p \in Publishers,
         NEW l \in Critical \cup {"ready", "acquire", "steal"}
  PROVE  LET j == [jobs EXCEPT ![p].pc = l] IN
         /\ j \in [Publishers -> Jobs] /\ j[p].pc = l
         /\ j[p].ver = jobs[p].ver /\ j[p].tree = jobs[p].tree /\ j[p].copy = jobs[p].copy
         /\ \A q \in Publishers \ {p} : j[q] = jobs[q]
<1> DEFINE j == [jobs EXCEPT ![p].pc = l]
<1>1. [jobs[p] EXCEPT !.pc = l] \in Jobs
  BY DEF Jobs
<1>2. j = [jobs EXCEPT ![p] = [jobs[p] EXCEPT !.pc = l]]
  OBVIOUS
<1>3. j \in [Publishers -> Jobs] /\ \A q \in Publishers \ {p} : j[q] = jobs[q]
  BY <1>1, <1>2
<1>4. /\ j[p].pc = l /\ j[p].ver = jobs[p].ver /\ j[p].tree = jobs[p].tree
      /\ j[p].copy = jobs[p].copy
  BY DEF Jobs
<1> QED
  BY <1>3, <1>4

(* What the registry's invariant needs of a publisher's step: a new place,  *)
(* and the fields of its record that change.                                *)
Moves(p, l) ==
  /\ pub' \in [Publishers -> Jobs] /\ pub'[p].pc = l
  /\ \A q \in Publishers \ {p} : pub'[q] = pub[q]
Keeps(p) ==
  pub'[p].ver = pub[p].ver /\ pub'[p].tree = pub[p].tree /\ pub'[p].copy = pub[p].copy

\* Goto moves one publisher and keeps the version and tree of its job.
LEMMA GotoMoves ==
  ASSUME RTypeOK, NEW p \in Publishers, NEW l \in Critical \cup {"ready", "acquire", "steal"},
         Goto(p, l)
  PROVE  Moves(p, l) /\ Keeps(p)
BY GotoJob DEF RTypeOK, Goto, Moves, Keeps

\* Reading an index gives one publisher its copy and keeps the rest of its job.
LEMMA ReadMoves ==
  ASSUME RTypeOK, NEW p \in Publishers, NEW l \in Critical, NEW S \in SUBSET Versions,
         pub' = [pub EXCEPT ![p].pc = l, ![p].copy = S]
  PROVE  /\ Moves(p, l) /\ pub'[p].copy = S
         /\ pub'[p].ver = pub[p].ver /\ pub'[p].tree = pub[p].tree
<1>1. pub' = [pub EXCEPT ![p] = [pub[p] EXCEPT !.pc = l, !.copy = S]] /\ pub[p] \in Jobs
  BY DEF RTypeOK
<1>2. [pub[p] EXCEPT !.pc = l, !.copy = S] \in Jobs
  BY <1>1 DEF Jobs
<1>3. pub' \in [Publishers -> Jobs] /\ \A q \in Publishers \ {p} : pub'[q] = pub[q]
  BY <1>1, <1>2 DEF RTypeOK
<1>4. /\ pub'[p].pc = l /\ pub'[p].copy = S
      /\ pub'[p].ver = pub[p].ver /\ pub'[p].tree = pub[p].tree
  BY <1>1 DEF Jobs, RTypeOK
<1> QED
  BY <1>3, <1>4 DEF Moves

\* None is never mistaken for a tree.
LEMMA NoneIsNoTree == None \notin Trees
BY RegistryAssumption DEF RegistryAssumption, Trees

\* None is never mistaken for an origin.
LEMMA OriginIsSomething == None \notin Origins
BY CacheAssumption DEF CacheAssumption

\* Replacing the tree of a version changes nothing else of the registry.
LEMMA Published1 ==
  ASSUME NEW r \in Contents, NEW v \in Versions, NEW t \in Trees
  PROVE  LET n == [r EXCEPT !.tree[v] = t] IN
         /\ n \in Contents /\ n.tree = [r.tree EXCEPT ![v] = t] /\ n.tarball = r.tarball
         /\ n.digest = r.digest /\ n.index = r.index /\ n.global = r.global
BY DEF Contents

\* Neither does withdrawing its archive and digest.
LEMMA Published2 ==
  ASSUME NEW r \in Contents, NEW v \in Versions
  PROVE  LET n == [r EXCEPT !.digest[v] = None, !.tarball[v] = None] IN
         /\ n \in Contents /\ n.tree = r.tree /\ n.tarball = [r.tarball EXCEPT ![v] = None]
         /\ n.digest = [r.digest EXCEPT ![v] = None] /\ n.index = r.index /\ n.global = r.global
BY DEF Contents

\* The job of a publisher that has nothing to do.
LEMMA IdleJob == Idle \in Jobs /\ Idle.pc = "ready" /\ Idle.tree = None
BY DEF Idle, Jobs

\* Begin keeps RInv.
LEMMA BeginStep ==
  ASSUME RInv, NEW p \in Publishers, NEW v \in Versions, Begin(p, v)
  PROVE  RInv'
<1> USE RegistryAssumption DEF RegistryAssumption, RInv, Critical, Unpublished, Published
<1>1. /\ pub[p].pc = "ready" /\ Moves(p, "acquire") /\ pub'[p].ver = v /\ pub'[p].tree = None
      /\ UNCHANGED <<work, history, lock, reg, done, robbed>>
      /\ used' = [used EXCEPT !.commands = @ + 1]
  BY IdleJob DEF Begin, StartCommand, At, RTypeOK, Moves, Idle, Jobs
<1>2. RTypeOK'
  BY <1>1 DEF RTypeOK, Job, Moves
<1>3. Job'
  BY <1>1, JobFields DEF RTypeOK, Job, Numbered, Trees, Moves, Keeps
<1>7. Numbered'
  BY <1>1, ContentsFields DEF RTypeOK, Job, Numbered, Trees
<1>4. OwnerIsInside' /\ InsideIsOwner'
  BY <1>1 DEF RTypeOK, OwnerIsInside, InsideIsOwner, Moves
<1>5. Progress'
  BY <1>1, ContentsFields DEF RTypeOK, Job, InsideIsOwner, OwnerIsInside, Progress,
       IndexedIsFetchable, Moves, Keeps
<1>6. NoVersionLost' /\ IndexedIsFetchable'
  BY <1>1, ContentsFields DEF RTypeOK, Job, InsideIsOwner, Progress, NoVersionLost,
       IndexedIsFetchable
<1> QED
  BY <1>2, <1>3, <1>4, <1>5, <1>6, <1>7

\* Acquire keeps RInv: the lock had no owner.
LEMMA AcquireStep ==
  ASSUME RInv, NEW p \in Publishers, Acquire(p)
  PROVE  RInv'
<1> USE RegistryAssumption DEF RegistryAssumption, RInv, Critical, Unpublished, Published
<1>1. /\ pub[p].pc = "acquire" /\ Moves(p, "exists") /\ Keeps(p)
      /\ lock.owner = None /\ lock' = [owner |-> p, old |-> FALSE]
      /\ UNCHANGED <<work, history, reg, done, robbed, used>>
  BY GotoMoves DEF Acquire, LockFree, At, RTypeOK
<1>2. RTypeOK'
  BY <1>1 DEF RTypeOK, Job, Moves
<1>3. Job'
  BY <1>1, JobFields DEF RTypeOK, Job, Numbered, Trees, Moves, Keeps
<1>7. Numbered'
  BY <1>1, ContentsFields DEF RTypeOK, Job, Numbered, Trees
<1>4. OwnerIsInside' /\ InsideIsOwner'
  BY <1>1 DEF RTypeOK, OwnerIsInside, InsideIsOwner, Moves
<1>5. Progress'
  BY <1>1, ContentsFields DEF RTypeOK, Job, InsideIsOwner, OwnerIsInside, Progress,
       IndexedIsFetchable, Moves, Keeps
<1>6. NoVersionLost' /\ IndexedIsFetchable'
  BY <1>1, ContentsFields DEF RTypeOK, Job, InsideIsOwner, Progress, NoVersionLost,
       IndexedIsFetchable
<1> QED
  BY <1>2, <1>3, <1>4, <1>5, <1>6, <1>7

\* SeeStale keeps RInv.
LEMMA SeeStaleStep ==
  ASSUME RInv, NEW p \in Publishers, SeeStale(p)
  PROVE  RInv'
<1> USE RegistryAssumption DEF RegistryAssumption, RInv, Critical, Unpublished, Published
<1>1. /\ pub[p].pc = "acquire" /\ Moves(p, "steal") /\ Keeps(p)
      /\ UNCHANGED <<work, history, lock, reg, done, robbed, used>>
  BY GotoMoves DEF SeeStale, At, RTypeOK
<1>2. RTypeOK'
  BY <1>1 DEF RTypeOK, Job, Moves
<1>3. Job'
  BY <1>1, JobFields DEF RTypeOK, Job, Numbered, Trees, Moves, Keeps
<1>7. Numbered'
  BY <1>1, ContentsFields DEF RTypeOK, Job, Numbered, Trees
<1>4. OwnerIsInside' /\ InsideIsOwner'
  BY <1>1 DEF RTypeOK, OwnerIsInside, InsideIsOwner, Moves
<1>5. Progress'
  BY <1>1, ContentsFields DEF RTypeOK, Job, InsideIsOwner, OwnerIsInside, Progress,
       IndexedIsFetchable, Moves, Keeps
<1>6. NoVersionLost' /\ IndexedIsFetchable'
  BY <1>1, ContentsFields DEF RTypeOK, Job, InsideIsOwner, Progress, NoVersionLost,
       IndexedIsFetchable
<1> QED
  BY <1>2, <1>3, <1>4, <1>5, <1>6, <1>7

\* Steal keeps RInv: a lock taken from a live owner is recorded in robbed.
LEMMA StealStep ==
  ASSUME RInv, NEW p \in Publishers, Steal(p)
  PROVE  RInv'
<1> USE RegistryAssumption DEF RegistryAssumption, RInv, Critical, Unpublished, Published
<1>1. /\ pub[p].pc = "steal" /\ Moves(p, "acquire") /\ Keeps(p)
      /\ lock' = NoLock /\ robbed' = (robbed \/ lock.owner \in Publishers \ {p})
      /\ UNCHANGED <<work, history, reg, done, used>>
  BY GotoMoves DEF Steal, RemoveLock, At, RTypeOK
<1>2. RTypeOK'
  BY <1>1 DEF RTypeOK, Job, Moves, NoLock
<1>3. Job'
  BY <1>1, JobFields DEF RTypeOK, Job, Numbered, Trees, Moves, Keeps, NoLock
<1>7. Numbered'
  BY <1>1, ContentsFields DEF RTypeOK, Job, Numbered, Trees, NoLock
<1>4. OwnerIsInside' /\ InsideIsOwner'
  BY <1>1 DEF RTypeOK, OwnerIsInside, InsideIsOwner, Moves, NoLock
<1>5. Progress'
  BY <1>1, ContentsFields DEF RTypeOK, Job, InsideIsOwner, OwnerIsInside, Progress,
       IndexedIsFetchable, Moves, Keeps, NoLock
<1>6. NoVersionLost' /\ IndexedIsFetchable'
  BY <1>1, ContentsFields DEF RTypeOK, Job, InsideIsOwner, Progress, NoVersionLost,
       IndexedIsFetchable, NoLock
<1> QED
  BY <1>2, <1>3, <1>4, <1>5, <1>6, <1>7

\* GiveUp keeps RInv.
LEMMA GiveUpStep ==
  ASSUME RInv, NEW p \in Publishers, GiveUp(p)
  PROVE  RInv'
<1> USE RegistryAssumption DEF RegistryAssumption, RInv, Critical, Unpublished, Published
<1>1. /\ pub[p].pc = "acquire" /\ Moves(p, "ready") /\ Keeps(p)
      /\ UNCHANGED <<work, history, lock, reg, done, robbed, used>>
  BY GotoMoves DEF GiveUp, At, RTypeOK
<1>2. RTypeOK'
  BY <1>1 DEF RTypeOK, Job, Moves
<1>3. Job'
  BY <1>1, JobFields DEF RTypeOK, Job, Numbered, Trees, Moves, Keeps
<1>7. Numbered'
  BY <1>1, ContentsFields DEF RTypeOK, Job, Numbered, Trees
<1>4. OwnerIsInside' /\ InsideIsOwner'
  BY <1>1 DEF RTypeOK, OwnerIsInside, InsideIsOwner, Moves
<1>5. Progress'
  BY <1>1, ContentsFields DEF RTypeOK, Job, InsideIsOwner, OwnerIsInside, Progress,
       IndexedIsFetchable, Moves, Keeps
<1>6. NoVersionLost' /\ IndexedIsFetchable'
  BY <1>1, ContentsFields DEF RTypeOK, Job, InsideIsOwner, Progress, NoVersionLost,
       IndexedIsFetchable
<1> QED
  BY <1>2, <1>3, <1>4, <1>5, <1>6, <1>7

\* CheckExists keeps RInv.
LEMMA CheckExistsStep ==
  ASSUME RInv, NEW p \in Publishers, CheckExists(p)
  PROVE  RInv'
<1> USE RegistryAssumption DEF RegistryAssumption, RInv, Critical, Unpublished, Published
<1>1. /\ pub[p].pc = "exists" /\ Keeps(p)
      /\ Moves(p, IF reg.tree[pub[p].ver] # None THEN "unlock" ELSE "tree")
      /\ UNCHANGED <<work, history, lock, reg, done, robbed, used>>
  BY GotoMoves DEF CheckExists, At, RTypeOK
<1>2. RTypeOK'
  BY <1>1 DEF RTypeOK, Job, Moves
<1>3. Job'
  BY <1>1, JobFields DEF RTypeOK, Job, Numbered, Trees, Moves, Keeps
<1>7. Numbered'
  BY <1>1, ContentsFields DEF RTypeOK, Job, Numbered, Trees
<1>4. OwnerIsInside' /\ InsideIsOwner'
  BY <1>1 DEF RTypeOK, OwnerIsInside, InsideIsOwner, Moves
<1>5. Progress'
  BY <1>1, ContentsFields DEF RTypeOK, Job, InsideIsOwner, OwnerIsInside, Progress,
       IndexedIsFetchable, Moves, Keeps
<1>6. NoVersionLost' /\ IndexedIsFetchable'
  BY <1>1, ContentsFields DEF RTypeOK, Job, InsideIsOwner, Progress, NoVersionLost,
       IndexedIsFetchable
<1> QED
  BY <1>2, <1>3, <1>4, <1>5, <1>6, <1>7

\* StageTree keeps RInv.
LEMMA StageTreeStep ==
  ASSUME RInv, NEW p \in Publishers, StageTree(p)
  PROVE  RInv'
<1> USE RegistryAssumption DEF RegistryAssumption, RInv, Critical, Unpublished, Published
<1>1. /\ pub[p].pc = "tree" /\ Moves(p, "archive")
      /\ pub'[p].ver = pub[p].ver /\ pub'[p].tree = work[pub[p].ver]
      /\ UNCHANGED <<work, history, lock, reg, done, robbed, used>>
  BY DEF StageTree, At, RTypeOK, Moves, Job, Jobs
<1>2. RTypeOK'
  BY <1>1 DEF RTypeOK, Job, Moves
<1>3. Job'
  BY <1>1, JobFields DEF RTypeOK, Job, Numbered, Trees, Moves, Keeps
<1>7. Numbered'
  BY <1>1, ContentsFields DEF RTypeOK, Job, Numbered, Trees
<1>4. OwnerIsInside' /\ InsideIsOwner'
  BY <1>1 DEF RTypeOK, OwnerIsInside, InsideIsOwner, Moves
<1>5. Progress'
  BY <1>1, ContentsFields DEF RTypeOK, Job, InsideIsOwner, OwnerIsInside, Progress,
       IndexedIsFetchable, Moves, Keeps
<1>6. NoVersionLost' /\ IndexedIsFetchable'
  BY <1>1, ContentsFields DEF RTypeOK, Job, InsideIsOwner, Progress, NoVersionLost,
       IndexedIsFetchable
<1> QED
  BY <1>2, <1>3, <1>4, <1>5, <1>6, <1>7

\* StageArchive keeps RInv.
LEMMA StageArchiveStep ==
  ASSUME RInv, NEW p \in Publishers, StageArchive(p)
  PROVE  RInv'
<1> USE RegistryAssumption DEF RegistryAssumption, RInv, Critical, Unpublished, Published
<1>1. /\ pub[p].pc = "archive" /\ Keeps(p)
      /\ Moves(p, "rename") \/ Moves(p, "unlock")
      /\ UNCHANGED <<work, history, lock, reg, done, robbed, used>>
  BY GotoMoves DEF StageArchive, At, RTypeOK
<1>2. RTypeOK'
  BY <1>1 DEF RTypeOK, Job, Moves
<1>3. Job'
  BY <1>1, JobFields DEF RTypeOK, Job, Numbered, Trees, Moves, Keeps
<1>7. Numbered'
  BY <1>1, ContentsFields DEF RTypeOK, Job, Numbered, Trees
<1>4. OwnerIsInside' /\ InsideIsOwner'
  BY <1>1 DEF RTypeOK, OwnerIsInside, InsideIsOwner, Moves
<1>5. Progress'
  BY <1>1, ContentsFields DEF RTypeOK, Job, InsideIsOwner, OwnerIsInside, Progress,
       IndexedIsFetchable, Moves, Keeps
<1>6. NoVersionLost' /\ IndexedIsFetchable'
  BY <1>1, ContentsFields DEF RTypeOK, Job, InsideIsOwner, Progress, NoVersionLost,
       IndexedIsFetchable
<1> QED
  BY <1>2, <1>3, <1>4, <1>5, <1>6, <1>7

\* RenameArchive keeps RInv: the version is not in the index yet.
LEMMA RenameArchiveStep ==
  ASSUME RInv, NEW p \in Publishers, RenameArchive(p)
  PROVE  RInv'
<1> USE RegistryAssumption DEF RegistryAssumption, RInv, Critical, Unpublished, Published
<1>1. /\ pub[p].pc = "rename" /\ Moves(p, "digest") /\ Keeps(p)
      /\ reg' \in Contents /\ reg'.tarball = [reg.tarball EXCEPT ![pub[p].ver] = p]
           /\ reg'.digest = reg.digest /\ reg'.tree = reg.tree /\ reg'.index = reg.index
                /\ reg'.global = reg.global
      /\ UNCHANGED <<work, history, lock, done, robbed, used>>
  BY GotoMoves, JobFields, ContentsFields DEF RenameArchive, At, RTypeOK, Job, Contents
<1>2. RTypeOK'
  BY <1>1 DEF RTypeOK, Job, Moves
<1>3. Job'
  BY <1>1, JobFields DEF RTypeOK, Job, Numbered, Trees, Moves, Keeps
<1>7. Numbered'
  BY <1>1, ContentsFields DEF RTypeOK, Job, Numbered, Trees
<1>4. OwnerIsInside' /\ InsideIsOwner'
  BY <1>1 DEF RTypeOK, OwnerIsInside, InsideIsOwner, Moves
<1>5. Progress'
  BY <1>1, ContentsFields DEF RTypeOK, Job, InsideIsOwner, OwnerIsInside, Progress,
       IndexedIsFetchable, Moves, Keeps
<1>6. NoVersionLost' /\ IndexedIsFetchable'
  BY <1>1, ContentsFields DEF RTypeOK, Job, InsideIsOwner, Progress, NoVersionLost,
       IndexedIsFetchable
<1> QED
  BY <1>2, <1>3, <1>4, <1>5, <1>6, <1>7

(* Of an action with two outcomes, the second takes back what was published. *)

\* RenameDigest keeps RInv: archive and digest are of one publisher now.
LEMMA RenameDigestStep ==
  ASSUME RInv, NEW p \in Publishers, RenameDigest(p)
  PROVE  RInv'
<1> USE RegistryAssumption DEF RegistryAssumption, RInv, Critical, Unpublished, Published
<1>1. pub[p].pc = "digest" /\ Keeps(p)
  BY GotoMoves DEF RenameDigest, At, RTypeOK
<1>2. \/ /\ Moves(p, "publish")
         /\ reg' \in Contents /\ reg'.tarball = reg.tarball
              /\ reg'.digest = [reg.digest EXCEPT ![pub[p].ver] = p] /\ reg'.tree = reg.tree
                   /\ reg'.index = reg.index /\ reg'.global = reg.global
         /\ UNCHANGED <<work, history, lock, done, robbed, used>>
      \/ /\ Moves(p, "unlock")
         /\ reg' \in Contents /\ reg'.tarball = [reg.tarball EXCEPT ![pub[p].ver] = None]
              /\ reg'.digest = reg.digest /\ reg'.tree = reg.tree /\ reg'.index = reg.index
                   /\ reg'.global = reg.global
         /\ UNCHANGED <<work, history, lock, done, robbed, used>>
  BY GotoMoves, JobFields, ContentsFields DEF RenameDigest, At, RTypeOK, Job, Contents
<1>3. CASE /\ Moves(p, "publish")
           /\ reg' \in Contents /\ reg'.tarball = reg.tarball
                /\ reg'.digest = [reg.digest EXCEPT ![pub[p].ver] = p]
                     /\ reg'.tree = reg.tree /\ reg'.index = reg.index /\ reg'.global = reg.global
           /\ UNCHANGED <<work, history, lock, done, robbed, used>>
  <2>1. RTypeOK'
    BY <1>1, <1>3 DEF RTypeOK, Moves
  <2>2. Job'
    BY <1>1, <1>3, JobFields DEF RTypeOK, Job, Moves, Keeps
  <2>6. Numbered'
    BY <1>1, <1>3, ContentsFields DEF RTypeOK, Job, Numbered, Trees
  <2>3. OwnerIsInside' /\ InsideIsOwner'
    BY <1>1, <1>3 DEF RTypeOK, OwnerIsInside, InsideIsOwner, Moves
  <2>4. Progress'
    BY <1>1, <1>3, ContentsFields, NoneIsNoTree DEF RTypeOK, Job, InsideIsOwner, OwnerIsInside,
         Progress, IndexedIsFetchable, Moves, Keeps
  <2>5. NoVersionLost' /\ IndexedIsFetchable'
    BY <1>1, <1>3, ContentsFields DEF RTypeOK, Job, InsideIsOwner, Progress, NoVersionLost,
         IndexedIsFetchable
  <2> QED
    BY <2>1, <2>2, <2>3, <2>4, <2>5, <2>6
<1>4. CASE /\ Moves(p, "unlock")
           /\ reg' \in Contents /\ reg'.tarball = [reg.tarball EXCEPT ![pub[p].ver] = None]
                /\ reg'.digest = reg.digest /\ reg'.tree = reg.tree /\ reg'.index = reg.index
                     /\ reg'.global = reg.global
           /\ UNCHANGED <<work, history, lock, done, robbed, used>>
  <2>1. RTypeOK'
    BY <1>1, <1>4 DEF RTypeOK, Moves
  <2>2. Job'
    BY <1>1, <1>4, JobFields DEF RTypeOK, Job, Moves, Keeps
  <2>6. Numbered'
    BY <1>1, <1>4, ContentsFields DEF RTypeOK, Job, Numbered, Trees
  <2>3. OwnerIsInside' /\ InsideIsOwner'
    BY <1>1, <1>4 DEF RTypeOK, OwnerIsInside, InsideIsOwner, Moves
  <2>4. Progress'
    BY <1>1, <1>4, ContentsFields, NoneIsNoTree DEF RTypeOK, Job, InsideIsOwner, OwnerIsInside,
         Progress, IndexedIsFetchable, Moves, Keeps
  <2>5. NoVersionLost' /\ IndexedIsFetchable'
    BY <1>1, <1>4, ContentsFields DEF RTypeOK, Job, InsideIsOwner, Progress, NoVersionLost,
         IndexedIsFetchable
  <2> QED
    BY <2>1, <2>2, <2>3, <2>4, <2>5, <2>6
<1> QED
  BY <1>2, <1>3, <1>4

\* RenameTree keeps RInv.
LEMMA RenameTreeStep ==
  ASSUME RInv, NEW p \in Publishers, RenameTree(p)
  PROVE  RInv'
<1> USE RegistryAssumption DEF RegistryAssumption, RInv, Critical, Unpublished, Published
<1>1. pub[p].pc = "publish" /\ Keeps(p)
  BY GotoMoves DEF RenameTree, At, RTypeOK
<1>2. \/ /\ Moves(p, "index") /\ reg.tree[pub[p].ver] = None
         /\ reg' \in Contents /\ reg'.tarball = reg.tarball /\ reg'.digest = reg.digest
              /\ reg'.tree = [reg.tree EXCEPT ![pub[p].ver] = pub[p].tree]
                   /\ reg'.index = reg.index /\ reg'.global = reg.global
         /\ UNCHANGED <<work, history, lock, done, robbed, used>>
      \/ /\ Moves(p, "unlock")
         /\ reg' \in Contents /\ reg'.tarball = [reg.tarball EXCEPT ![pub[p].ver] = None]
              /\ reg'.digest = [reg.digest EXCEPT ![pub[p].ver] = None]
                   /\ reg'.tree = reg.tree /\ reg'.index = reg.index /\ reg'.global = reg.global
         /\ UNCHANGED <<work, history, lock, done, robbed, used>>
  <2>1. pub[p].ver \in Versions /\ pub[p].tree \in Trees /\ reg \in Contents
    BY <1>1 DEF Job, RTypeOK
  <2>2. CASE /\ reg.tree[pub[p].ver] = None /\ Goto(p, "index")
             /\ reg' = [reg EXCEPT !.tree[pub[p].ver] = pub[p].tree]
    BY <2>1, <2>2, Published1, GotoMoves DEF RenameTree
  <2>3. CASE /\ Goto(p, "unlock")
             /\ reg' = [reg EXCEPT !.digest[pub[p].ver] = None, !.tarball[pub[p].ver] = None]
    BY <2>1, <2>3, Published2, GotoMoves DEF RenameTree
  <2> QED
    BY <2>2, <2>3 DEF RenameTree
<1>3. CASE /\ Moves(p, "index") /\ reg.tree[pub[p].ver] = None
           /\ reg' \in Contents /\ reg'.tarball = reg.tarball /\ reg'.digest = reg.digest
                /\ reg'.tree = [reg.tree EXCEPT ![pub[p].ver] = pub[p].tree]
                     /\ reg'.index = reg.index /\ reg'.global = reg.global
           /\ UNCHANGED <<work, history, lock, done, robbed, used>>
  <2>1. RTypeOK'
    BY <1>1, <1>3 DEF RTypeOK, Moves
  <2>2. Job'
    BY <1>1, <1>3, JobFields DEF RTypeOK, Job, Moves, Keeps
  <2>6. Numbered'
    BY <1>1, <1>3, ContentsFields DEF RTypeOK, Job, Numbered, Trees
  <2>3. OwnerIsInside' /\ InsideIsOwner'
    BY <1>1, <1>3 DEF RTypeOK, OwnerIsInside, InsideIsOwner, Moves
  <2>4. Progress'
    BY <1>1, <1>3, ContentsFields, NoneIsNoTree DEF RTypeOK, Job, InsideIsOwner, OwnerIsInside,
         Progress, IndexedIsFetchable, Moves, Keeps
  <2>5. NoVersionLost' /\ IndexedIsFetchable'
    BY <1>1, <1>3, ContentsFields DEF RTypeOK, Job, InsideIsOwner, Progress, NoVersionLost,
         IndexedIsFetchable
  <2> QED
    BY <2>1, <2>2, <2>3, <2>4, <2>5, <2>6
<1>4. CASE /\ Moves(p, "unlock")
           /\ reg' \in Contents /\ reg'.tarball = [reg.tarball EXCEPT ![pub[p].ver] = None]
                /\ reg'.digest = [reg.digest EXCEPT ![pub[p].ver] = None]
                     /\ reg'.tree = reg.tree /\ reg'.index = reg.index /\ reg'.global = reg.global
           /\ UNCHANGED <<work, history, lock, done, robbed, used>>
  <2>1. RTypeOK'
    BY <1>1, <1>4 DEF RTypeOK, Moves
  <2>2. Job'
    BY <1>1, <1>4, JobFields DEF RTypeOK, Job, Moves, Keeps
  <2>6. Numbered'
    BY <1>1, <1>4, ContentsFields DEF RTypeOK, Job, Numbered, Trees
  <2>3. OwnerIsInside' /\ InsideIsOwner'
    BY <1>1, <1>4 DEF RTypeOK, OwnerIsInside, InsideIsOwner, Moves
  <2>4. Progress'
    BY <1>1, <1>4, ContentsFields, NoneIsNoTree DEF RTypeOK, Job, InsideIsOwner, OwnerIsInside,
         Progress, IndexedIsFetchable, Moves, Keeps
  <2>5. NoVersionLost' /\ IndexedIsFetchable'
    BY <1>1, <1>4, ContentsFields DEF RTypeOK, Job, InsideIsOwner, Progress, NoVersionLost,
         IndexedIsFetchable
  <2> QED
    BY <2>1, <2>2, <2>3, <2>4, <2>5, <2>6
<1> QED
  BY <1>2, <1>3, <1>4

\* WriteIndex keeps RInv: the copy it writes is the index it read plus its version.
LEMMA WriteIndexStep ==
  ASSUME RInv, NEW p \in Publishers, WriteIndex(p)
  PROVE  RInv'
<1> USE RegistryAssumption DEF RegistryAssumption, RInv, Critical, Unpublished, Published
<1>1. pub[p].pc \in {"write_index", "write_global"} /\ Keeps(p)
  BY GotoMoves DEF WriteIndex, At, RTypeOK
<1>2. \/ /\ pub[p].pc = "write_index" /\ Moves(p, "global")
         /\ reg' \in Contents /\ reg'.tarball = reg.tarball /\ reg'.digest = reg.digest
              /\ reg'.tree = reg.tree /\ reg'.index = pub[p].copy \cup {pub[p].ver}
                   /\ reg'.global = reg.global
         /\ UNCHANGED <<work, history, lock, done, robbed, used>>
      \/ /\ pub[p].pc = "write_global" /\ Moves(p, "release")
         /\ reg' \in Contents /\ reg'.tarball = reg.tarball /\ reg'.digest = reg.digest
              /\ reg'.tree = reg.tree /\ reg'.index = reg.index
                   /\ reg'.global = pub[p].copy \cup {pub[p].ver}
         /\ UNCHANGED <<work, history, lock, done, robbed, used>>
  BY GotoMoves, JobFields, ContentsFields DEF WriteIndex, At, RTypeOK, Job, Contents, Jobs
<1>3. CASE /\ pub[p].pc = "write_index" /\ Moves(p, "global")
           /\ reg' \in Contents /\ reg'.tarball = reg.tarball /\ reg'.digest = reg.digest
                /\ reg'.tree = reg.tree /\ reg'.index = pub[p].copy \cup {pub[p].ver}
                     /\ reg'.global = reg.global
           /\ UNCHANGED <<work, history, lock, done, robbed, used>>
  <2>1. RTypeOK'
    BY <1>1, <1>3 DEF RTypeOK, Moves
  <2>2. Job'
    BY <1>1, <1>3, JobFields DEF RTypeOK, Job, Moves, Keeps
  <2>6. Numbered'
    BY <1>1, <1>3, ContentsFields DEF RTypeOK, Job, Numbered, Trees
  <2>3. OwnerIsInside' /\ InsideIsOwner'
    BY <1>1, <1>3 DEF RTypeOK, OwnerIsInside, InsideIsOwner, Moves
  <2>4. Progress'
    BY <1>1, <1>3, ContentsFields, NoneIsNoTree DEF RTypeOK, Job, InsideIsOwner, OwnerIsInside,
         Progress, IndexedIsFetchable, Moves, Keeps
  <2>5. NoVersionLost' /\ IndexedIsFetchable'
    BY <1>1, <1>3, ContentsFields DEF RTypeOK, Job, InsideIsOwner, Progress, NoVersionLost,
         IndexedIsFetchable
  <2> QED
    BY <2>1, <2>2, <2>3, <2>4, <2>5, <2>6
<1>4. CASE /\ pub[p].pc = "write_global" /\ Moves(p, "release")
           /\ reg' \in Contents /\ reg'.tarball = reg.tarball /\ reg'.digest = reg.digest
                /\ reg'.tree = reg.tree /\ reg'.index = reg.index
                     /\ reg'.global = pub[p].copy \cup {pub[p].ver}
           /\ UNCHANGED <<work, history, lock, done, robbed, used>>
  <2>1. RTypeOK'
    BY <1>1, <1>4 DEF RTypeOK, Moves
  <2>2. Job'
    BY <1>1, <1>4, JobFields DEF RTypeOK, Job, Moves, Keeps
  <2>6. Numbered'
    BY <1>1, <1>4, ContentsFields DEF RTypeOK, Job, Numbered, Trees
  <2>3. OwnerIsInside' /\ InsideIsOwner'
    BY <1>1, <1>4 DEF RTypeOK, OwnerIsInside, InsideIsOwner, Moves
  <2>4. Progress'
    BY <1>1, <1>4, ContentsFields, NoneIsNoTree DEF RTypeOK, Job, InsideIsOwner, OwnerIsInside,
         Progress, IndexedIsFetchable, Moves, Keeps
  <2>5. NoVersionLost' /\ IndexedIsFetchable'
    BY <1>1, <1>4, ContentsFields DEF RTypeOK, Job, InsideIsOwner, Progress, NoVersionLost,
         IndexedIsFetchable
  <2> QED
    BY <2>1, <2>2, <2>3, <2>4, <2>5, <2>6
<1> QED
  BY <1>2, <1>3, <1>4

\* ReadIndex keeps RInv: under the lock the copy stays current.
LEMMA ReadIndexStep ==
  ASSUME RInv, NEW p \in Publishers, ReadIndex(p)
  PROVE  RInv'
<1> USE RegistryAssumption DEF RegistryAssumption, RInv, Critical, Unpublished, Published
<1>1. /\ pub'[p].ver = pub[p].ver /\ pub'[p].tree = pub[p].tree
      /\ \/ pub[p].pc = "index" /\ Moves(p, "write_index") /\ pub'[p].copy = reg.index
         \/ pub[p].pc = "global" /\ Moves(p, "write_global") /\ pub'[p].copy = reg.global
      /\ UNCHANGED <<work, history, lock, reg, done, robbed, used>>
  <2>1. CASE /\ At(p, "index")
             /\ pub' = [pub EXCEPT ![p].pc = "write_index", ![p].copy = reg.index]
    <3>1. "write_index" \in Critical /\ reg.index \in SUBSET Versions /\ RTypeOK
      BY ContentsFields DEF RTypeOK
    <3>2. /\ Moves(p, "write_index") /\ pub'[p].copy = reg.index
          /\ pub'[p].ver = pub[p].ver /\ pub'[p].tree = pub[p].tree
      BY <2>1, <3>1, ReadMoves
    <3> QED
      BY <2>1, <3>2 DEF ReadIndex, At
  <2>2. CASE /\ At(p, "global")
             /\ pub' = [pub EXCEPT ![p].pc = "write_global", ![p].copy = reg.global]
    <3>1. "write_global" \in Critical /\ reg.global \in SUBSET Versions /\ RTypeOK
      BY ContentsFields DEF RTypeOK
    <3>2. /\ Moves(p, "write_global") /\ pub'[p].copy = reg.global
          /\ pub'[p].ver = pub[p].ver /\ pub'[p].tree = pub[p].tree
      BY <2>2, <3>1, ReadMoves
    <3> QED
      BY <2>2, <3>2 DEF ReadIndex, At
  <2> QED
    BY <2>1, <2>2 DEF ReadIndex
<1>2. RTypeOK'
  BY <1>1 DEF RTypeOK, Job, Moves
<1>3. Job'
  BY <1>1, JobFields DEF RTypeOK, Job, Numbered, Trees, Moves, Keeps
<1>7. Numbered'
  BY <1>1, ContentsFields DEF RTypeOK, Job, Numbered, Trees
<1>4. OwnerIsInside' /\ InsideIsOwner'
  BY <1>1 DEF RTypeOK, OwnerIsInside, InsideIsOwner, Moves
<1>5. Progress'
  BY <1>1, ContentsFields DEF RTypeOK, Job, InsideIsOwner, OwnerIsInside, Progress,
       IndexedIsFetchable, Moves, Keeps
<1>6. NoVersionLost' /\ IndexedIsFetchable'
  BY <1>1, ContentsFields DEF RTypeOK, Job, InsideIsOwner, Progress, NoVersionLost,
       IndexedIsFetchable
<1> QED
  BY <1>2, <1>3, <1>4, <1>5, <1>6, <1>7

\* Fails keeps RInv.
LEMMA FailsStep ==
  ASSUME RInv, NEW p \in Publishers, Fails(p)
  PROVE  RInv'
<1> USE RegistryAssumption DEF RegistryAssumption, RInv, Critical, Unpublished, Published
<1>1. /\ pub[p].pc \in Critical \ {"exists", "digest", "publish", "unlock", "release"}
      /\ Moves(p, "unlock") /\ Keeps(p)
      /\ UNCHANGED <<work, history, lock, reg, done, robbed, used>>
  BY GotoMoves DEF Fails, At, RTypeOK
<1>2. RTypeOK'
  BY <1>1 DEF RTypeOK, Job, Moves
<1>3. Job'
  BY <1>1, JobFields DEF RTypeOK, Job, Numbered, Trees, Moves, Keeps
<1>7. Numbered'
  BY <1>1, ContentsFields DEF RTypeOK, Job, Numbered, Trees
<1>4. OwnerIsInside' /\ InsideIsOwner'
  BY <1>1 DEF RTypeOK, OwnerIsInside, InsideIsOwner, Moves
<1>5. Progress'
  BY <1>1, ContentsFields DEF RTypeOK, Job, InsideIsOwner, OwnerIsInside, Progress,
       IndexedIsFetchable, Moves, Keeps
<1>6. NoVersionLost' /\ IndexedIsFetchable'
  BY <1>1, ContentsFields DEF RTypeOK, Job, InsideIsOwner, Progress, NoVersionLost,
       IndexedIsFetchable
<1> QED
  BY <1>2, <1>3, <1>4, <1>5, <1>6, <1>7

\* Unlock keeps RInv.
LEMMA UnlockStep ==
  ASSUME RInv, NEW p \in Publishers, Unlock(p)
  PROVE  RInv'
<1> USE RegistryAssumption DEF RegistryAssumption, RInv, Critical, Unpublished, Published
<1>1. /\ pub[p].pc \in {"unlock", "release"} /\ Moves(p, "ready") /\ pub'[p].tree = None
      /\ lock' = NoLock /\ robbed' = (robbed \/ lock.owner \in Publishers \ {p})
      /\ done' = IF pub[p].pc = "release" THEN done \cup {pub[p].ver} ELSE done
      /\ UNCHANGED <<work, history, reg, used>>
  BY IdleJob DEF Unlock, RemoveLock, At, RTypeOK, Moves
<1>2. RTypeOK'
  BY <1>1 DEF RTypeOK, Job, Moves, NoLock
<1>3. Job'
  BY <1>1, JobFields DEF RTypeOK, Job, Numbered, Trees, Moves, Keeps, NoLock
<1>7. Numbered'
  BY <1>1, ContentsFields DEF RTypeOK, Job, Numbered, Trees, NoLock
<1>4. OwnerIsInside' /\ InsideIsOwner'
  BY <1>1 DEF RTypeOK, OwnerIsInside, InsideIsOwner, Moves, NoLock
<1>5. Progress'
  BY <1>1, ContentsFields DEF RTypeOK, Job, InsideIsOwner, OwnerIsInside, Progress,
       IndexedIsFetchable, Moves, Keeps, NoLock
<1>6. NoVersionLost' /\ IndexedIsFetchable'
  BY <1>1, ContentsFields DEF RTypeOK, Job, InsideIsOwner, Progress, NoVersionLost,
       IndexedIsFetchable, NoLock
<1> QED
  BY <1>2, <1>3, <1>4, <1>5, <1>6, <1>7

\* A crash anywhere in a publication keeps RInv.
LEMMA CrashPublisherStep ==
  ASSUME RInv, NEW p \in Publishers, CrashPublisher(p)
  PROVE  RInv'
<1> USE RegistryAssumption DEF RegistryAssumption, RInv, Critical, Unpublished, Published
<1>1. /\ pub[p].pc # "ready" /\ Moves(p, "ready") /\ pub'[p].tree = None
      /\ lock' = IF lock.owner = p THEN [lock EXCEPT !.owner = "crashed"] ELSE lock
      /\ used' = [used EXCEPT !.upsets = @ + 1]
      /\ UNCHANGED <<work, history, reg, done, robbed>>
  BY IdleJob DEF CrashPublisher, Upset, At, RTypeOK, Moves
<1>2. RTypeOK'
  BY <1>1 DEF RTypeOK, Job, Moves
<1>3. Job'
  BY <1>1, JobFields DEF RTypeOK, Job, Numbered, Trees, Moves, Keeps
<1>7. Numbered'
  BY <1>1, ContentsFields DEF RTypeOK, Job, Numbered, Trees
<1>4. OwnerIsInside' /\ InsideIsOwner'
  BY <1>1 DEF RTypeOK, OwnerIsInside, InsideIsOwner, Moves
<1>5. Progress'
  BY <1>1, ContentsFields DEF RTypeOK, Job, InsideIsOwner, OwnerIsInside, Progress,
       IndexedIsFetchable, Moves, Keeps
<1>6. NoVersionLost' /\ IndexedIsFetchable'
  BY <1>1, ContentsFields DEF RTypeOK, Job, InsideIsOwner, Progress, NoVersionLost,
       IndexedIsFetchable
<1> QED
  BY <1>2, <1>3, <1>4, <1>5, <1>6, <1>7

(* Nothing but the age of a dead publisher's lock changes. *)
LEMMA LockAgesStep ==
  ASSUME RInv, LockAges
  PROVE  RInv'
<1> USE DEF RInv
<1>1. /\ lock'.owner = lock.owner /\ lock' \in [owner : Publishers \cup {None, "crashed"},
           old : BOOLEAN]
      /\ UNCHANGED <<work, history, reg, pub, done, robbed, used>>
  BY DEF LockAges, RTypeOK
<1> QED
  BY <1>1 DEF RTypeOK, Numbered, Job, OwnerIsInside, InsideIsOwner, Progress, NoVersionLost,
              IndexedIsFetchable

(* A text that is written anew has the next number. *)
LEMMA NextText ==
  ASSUME NEW t \in Trees, NEW n \in Nat, \A g \in Files : t[g] <= n, NEW f \in Files
  PROVE  LET s == [t EXCEPT ![f] = n + 1] IN
         s \in Trees /\ \A g \in Files : t[g] <= s[g] /\ s[g] <= n + 1
BY DEF Trees

\* A change by hand uses up one of those allowed.
LEMMA UpsetCounts ==
  ASSUME used \in [commands : Nat, upsets : Nat], Upset
  PROVE  used' \in [commands : Nat, upsets : Nat] /\ used'.upsets = used.upsets + 1
BY DEF Upset

\* An edit of the working tree keeps RInv.
LEMMA EditWorkStep ==
  ASSUME RInv, NEW v \in Versions, NEW f \in Files, EditWork(v, f)
  PROVE  RInv'
<1> USE DEF RInv
<1> DEFINE n == used.upsets
           t == [work[v] EXCEPT ![f] = n + 1]
<1>1. /\ used' \in [commands : Nat, upsets : Nat] /\ used'.upsets = n + 1 /\ n \in Nat
      /\ UNCHANGED <<lock, reg, pub, done, robbed>>
  BY UpsetCounts DEF EditWork, registry, RTypeOK
<1>2. work' = [work EXCEPT ![v] = t]
  BY <1>1 DEF EditWork, RTypeOK
<1>3. t \in Trees /\ \A g \in Files : t[g] <= n + 1
  BY <1>1, NextText DEF RTypeOK, Numbered
<1>4. work' \in [Versions -> Trees] /\ work'[v] = t
      /\ \A w \in Versions \ {v} : work'[w] = work[w]
  BY <1>2, <1>3 DEF RTypeOK
<1>5. history' \in [Versions -> SUBSET Trees]
  <2>1. history' = [history EXCEPT ![v] = history[v] \cup {t}]
    BY <1>4 DEF EditWork
  <2>2. history[v] \cup {t} \in SUBSET Trees /\ history \in [Versions -> SUBSET Trees]
    BY <1>3 DEF RTypeOK
  <2> QED
    BY <2>1, <2>2
<1>6. RTypeOK'
  BY <1>1, <1>4, <1>5 DEF RTypeOK
<1>7. \A w \in Versions, g \in Files : work'[w][g] <= n + 1
  <2> SUFFICES ASSUME NEW w \in Versions, NEW g \in Files
               PROVE  work'[w][g] <= n + 1
    OBVIOUS
  <2>1. CASE w = v
    BY <2>1, <1>3, <1>4
  <2>2. CASE w # v
    BY <2>2, <1>1, <1>4 DEF RTypeOK, Numbered, Trees
  <2> QED
    BY <2>1, <2>2
<1>8. Numbered'
  BY <1>1, <1>7, ContentsFields DEF RTypeOK, Numbered, Trees
<1>9. Job'
  BY <1>1, JobFields DEF RTypeOK, Job, Trees
<1> QED
  BY <1>1, <1>6, <1>8, <1>9 DEF OwnerIsInside, InsideIsOwner, Progress, NoVersionLost,
       IndexedIsFetchable

(* A published tree that is changed by hand is still a published tree. *)
LEMMA ReplacedTree ==
  ASSUME RInv, NEW v \in Versions, NEW f \in Files, Replace(v, f)
  PROVE  LET n == used.upsets
             t == [reg.tree[v] EXCEPT ![f] = n + 1] IN
         /\ reg' \in Contents /\ reg'.tarball = reg.tarball /\ reg'.digest = reg.digest
         /\ reg'.index = reg.index /\ reg'.global = reg.global
         /\ reg'.tree[v] = t /\ \A w \in Versions \ {v} : reg'.tree[w] = reg.tree[w]
         /\ used' \in [commands : Nat, upsets : Nat] /\ used'.upsets = n + 1 /\ n \in Nat
         /\ reg.tree[v] \in Trees /\ t \in Trees
         /\ \A g \in Files : reg.tree[v][g] <= t[g] /\ t[g] <= n + 1
<1> USE DEF RInv
<1> DEFINE n == used.upsets
           t == [reg.tree[v] EXCEPT ![f] = n + 1]
<1>1. used' \in [commands : Nat, upsets : Nat] /\ used'.upsets = n + 1 /\ n \in Nat
  BY UpsetCounts DEF Replace, Meddle, RTypeOK
<1>2. reg \in Contents /\ reg.tree[v] \in Trees /\ reg.tree[v] # None
  BY ContentsFields DEF Replace, RTypeOK
<1>3. \A g \in Files : reg.tree[v][g] <= n
  BY <1>2 DEF Numbered
<1>4. t \in Trees /\ \A g \in Files : reg.tree[v][g] <= t[g] /\ t[g] <= n + 1
  BY <1>1, <1>2, <1>3, NextText
<1>5. reg' = [reg EXCEPT !.tree[v][f] = n + 1]
  BY <1>1 DEF Replace
<1>6. reg' = [reg EXCEPT !.tree[v] = t]
  BY <1>2, <1>5, ContentsFields DEF Contents
<1>7. /\ reg' \in Contents /\ reg'.tree = [reg.tree EXCEPT ![v] = t] /\ reg'.tarball = reg.tarball
      /\ reg'.digest = reg.digest /\ reg'.index = reg.index /\ reg'.global = reg.global
  BY <1>2, <1>4, <1>6, Published1
<1>8. reg'.tree[v] = t /\ \A w \in Versions \ {v} : reg'.tree[w] = reg.tree[w]
  BY <1>2, <1>7, ContentsFields
<1> QED
  BY <1>1, <1>2, <1>4, <1>7, <1>8

\* A change by hand of a published tree keeps RInv.
LEMMA ReplaceStep ==
  ASSUME RInv, NEW v \in Versions, NEW f \in Files, Replace(v, f)
  PROVE  RInv'
<1> USE DEF RInv
<1> DEFINE n == used.upsets
           t == [reg.tree[v] EXCEPT ![f] = n + 1]
<1>1. /\ reg' \in Contents /\ reg'.tarball = reg.tarball /\ reg'.digest = reg.digest
      /\ reg'.index = reg.index /\ reg'.global = reg.global
      /\ reg'.tree[v] = t /\ \A w \in Versions \ {v} : reg'.tree[w] = reg.tree[w]
      /\ used' \in [commands : Nat, upsets : Nat] /\ used'.upsets = n + 1 /\ n \in Nat
      /\ t \in Trees /\ \A g \in Files : t[g] <= n + 1
  BY ReplacedTree
<1>2. /\ reg.tree[v] # None /\ t # None
      /\ UNCHANGED <<work, history, lock, pub, done, robbed>>
  BY <1>1, NoneIsNoTree DEF Replace
<1> HIDE DEF t, n
<1>3. RTypeOK'
  BY <1>1, <1>2 DEF RTypeOK
<1>4. \A w \in Versions : reg'.tree[w] = None <=> reg.tree[w] = None
  BY <1>1, <1>2
<1>5. Progress' /\ NoVersionLost' /\ IndexedIsFetchable'
  <2>1. Progress'
    BY <1>1, <1>2, <1>4 DEF Progress, Job, RTypeOK, Unpublished, Published
  <2>2. NoVersionLost' /\ IndexedIsFetchable'
    BY <1>1, <1>2, <1>4, ContentsFields DEF RTypeOK, NoVersionLost, IndexedIsFetchable
  <2> QED
    BY <2>1, <2>2
<1>6. Job'
  BY <1>1, <1>2, JobFields DEF RTypeOK, Job, Trees, n
<1>7. Numbered'
  <2> SUFFICES ASSUME NEW w \in Versions, NEW g \in Files
               PROVE  /\ work[w][g] <= n + 1
                      /\ reg'.tree[w] # None => reg'.tree[w][g] <= n + 1
    BY <1>1, <1>2 DEF Numbered
  <2>1. work[w][g] <= n + 1
    BY <1>1 DEF Numbered, RTypeOK, Trees, n
  <2>2. CASE w = v
    BY <1>1, <2>1, <2>2
  <2>3. CASE w # v
    BY <1>1, <2>1, <2>3, ContentsFields DEF Numbered, RTypeOK, Trees, n
  <2> QED
    BY <2>2, <2>3
<1> QED
  BY <1>2, <1>3, <1>5, <1>6, <1>7 DEF OwnerIsInside, InsideIsOwner

(* The registry's invariant holds whoever takes a step. *)
LEMMA RegistryKeeps ==
  ASSUME RInv, RNext
  PROVE  RInv'
<1>1. ASSUME NEW p \in Publishers, Publish(p) PROVE RInv'
  BY <1>1, BeginStep, AcquireStep, SeeStaleStep, StealStep, GiveUpStep, CheckExistsStep,
     StageTreeStep, StageArchiveStep, RenameArchiveStep, RenameDigestStep, RenameTreeStep,
     ReadIndexStep, WriteIndexStep, FailsStep, UnlockStep, CrashPublisherStep DEF Publish
<1> QED
  BY <1>1, LockAgesStep, EditWorkStep DEF RNext

(* A client's step leaves the registry alone; it counts. *)
LEMMA OthersKeep ==
  ASSUME RInv, UNCHANGED <<work, history, registry>>, used' \in [commands : Nat, upsets : Nat],
         used'.upsets >= used.upsets
  PROVE  RInv'
<1> USE DEF RInv
<1>1. UNCHANGED <<work, history, lock, reg, pub, done, robbed>>
  BY DEF registry
<1>2. used.upsets \in Nat /\ used'.upsets \in Nat
  BY DEF RTypeOK
<1>3. RTypeOK'
  BY <1>1 DEF RTypeOK
<1>4. Numbered'
  BY <1>1, <1>2, ContentsFields DEF RTypeOK, Numbered, Trees
<1>5. Job'
  BY <1>1, <1>2, JobFields DEF RTypeOK, Job, Trees
<1> QED
  BY <1>1, <1>3, <1>4, <1>5 DEF OwnerIsInside, InsideIsOwner, Progress, NoVersionLost,
                                IndexedIsFetchable

-----------------------------------------------------------------------------
(* The cache. *)

(* What every step keeps of the origins: what they have been stays on      *)
(* record, and texts only grow.                                            *)
Grows ==
  /\ \A v \in Versions : history[v] \subseteq history'[v] /\ was[v] \subseteq was'[v]
  /\ \A v \in Versions, f \in Files : work[v][f] <= work'[v][f]
  /\ \A v \in Versions : reg.tree[v] # None =>
       reg'.tree[v] # None /\ \A f \in Files : reg.tree[v][f] <= reg'.tree[v][f]

\* The text of a file in a tree is a number.
LEMMA TreeNumbers ==
  ASSUME NEW t \in Trees, NEW f \in Files
  PROVE  t[f] \in Nat /\ t[f] <= t[f]
BY DEF Trees

(* A publisher adds a tree where there is none, and changes no other. *)
LEMMA PublishAdds ==
  ASSUME RInv, NEW p \in Publishers, Publish(p)
  PROVE  /\ UNCHANGED <<work, history>>
         /\ \/ reg'.tree = reg.tree
            \/ \E v \in Versions, t \in Trees :
                 reg.tree[v] = None /\ reg'.tree = [reg.tree EXCEPT ![v] = t]
<1> USE DEF RInv
<1>0. reg \in Contents
  BY DEF RTypeOK
<1>1. CASE RenameTree(p)
  <2>1. pub[p].ver \in Versions /\ pub[p].tree \in Trees
    BY <1>1 DEF RenameTree, At, Job, Unpublished
  <2>2. CASE /\ reg.tree[pub[p].ver] = None /\ reg' = [reg EXCEPT !.tree[pub[p].ver] = pub[p].tree]
    <3>1. reg'.tree = [reg.tree EXCEPT ![pub[p].ver] = pub[p].tree]
      BY <1>0, <2>1, <2>2, Published1
    <3> QED
      BY <1>1, <2>1, <2>2, <3>1 DEF RenameTree
  <2>3. CASE reg' = [reg EXCEPT !.digest[pub[p].ver] = None, !.tarball[pub[p].ver] = None]
    <3>1. reg'.tree = reg.tree
      BY <1>0, <2>1, <2>3, Published2
    <3> QED
      BY <1>1, <3>1 DEF RenameTree
  <2> QED
    BY <1>1, <2>2, <2>3 DEF RenameTree
<1>2. CASE RenameArchive(p)
  BY <1>0, <1>2 DEF RenameArchive, Contents
<1>3. CASE RenameDigest(p)
  BY <1>0, <1>3 DEF RenameDigest, Contents
<1>4. CASE WriteIndex(p)
  BY <1>0, <1>4 DEF WriteIndex, Contents
<1>5. CASE (\E v \in Versions : Begin(p, v)) \/ Acquire(p) \/ SeeStale(p) \/ Steal(p) \/ GiveUp(p)
  BY <1>5 DEF Begin, Acquire, SeeStale, Steal, GiveUp
<1>6. CASE CheckExists(p) \/ StageTree(p) \/ StageArchive(p) \/ ReadIndex(p) \/ Fails(p)
  BY <1>6 DEF CheckExists, StageTree, StageArchive, ReadIndex, Fails
<1>7. CASE Unlock(p) \/ CrashPublisher(p)
  BY <1>7 DEF Unlock, CrashPublisher
<1> QED
  BY <1>1, <1>2, <1>3, <1>4, <1>5, <1>6, <1>7 DEF Publish

(* A step of the registry's side leaves published trees as they are. *)
LEMMA RegistryGrows ==
  ASSUME RInv, RNext
  PROVE  /\ \A v \in Versions : reg.tree[v] # None => reg'.tree[v] = reg.tree[v]
         /\ \A v \in Versions : history[v] \subseteq history'[v]
         /\ \A v \in Versions, f \in Files : work[v][f] <= work'[v][f]
         /\ (\A v \in Versions : work[v] \in history[v]) => \A v \in Versions : work'[v] \in history'[v]
<1> USE DEF RInv
<1>0. /\ reg.tree \in [Versions -> Trees \cup {None}]
      /\ \A v \in Versions : work[v] \in Trees
  BY ContentsFields DEF RTypeOK
<1>1. ASSUME NEW p \in Publishers, Publish(p)
      PROVE  /\ UNCHANGED <<work, history>>
             /\ \A v \in Versions : reg.tree[v] # None => reg'.tree[v] = reg.tree[v]
  BY <1>0, <1>1, PublishAdds
<1>2. CASE \E p \in Publishers : Publish(p)
  BY <1>0, <1>1, <1>2, TreeNumbers
<1>3. CASE LockAges
  BY <1>0, <1>3, TreeNumbers DEF LockAges
<1>4. ASSUME NEW v \in Versions, NEW f \in Files, EditWork(v, f)
      PROVE  /\ UNCHANGED reg
             /\ \A w \in Versions : history[w] \subseteq history'[w]
             /\ \A w \in Versions, g \in Files : work[w][g] <= work'[w][g]
             /\ (\A w \in Versions : work[w] \in history[w]) => \A w \in Versions : work'[w] \in history'[w]
  <2> DEFINE n == used.upsets
             t == [work[v] EXCEPT ![f] = n + 1]
  <2>1. n \in Nat /\ used'.upsets = n + 1
    BY <1>4, UpsetCounts DEF EditWork, RTypeOK
  <2>2. work' = [work EXCEPT ![v] = t]
    BY <1>4, <2>1 DEF EditWork, RTypeOK
  <2>3. \A g \in Files : work[v][g] <= t[g]
    BY <1>0, <2>1, NextText DEF Numbered
  <2>4. work'[v] = t /\ \A w \in Versions \ {v} : work'[w] = work[w]
    BY <2>2 DEF RTypeOK
  <2>5. history' = [history EXCEPT ![v] = history[v] \cup {t}]
    BY <1>4, <2>4 DEF EditWork
  <2>6. history'[v] = history[v] \cup {t} /\ \A w \in Versions \ {v} : history'[w] = history[w]
    BY <2>5 DEF RTypeOK
  <2>7. UNCHANGED reg
    BY <1>4 DEF EditWork, registry
  <2>8. \A w \in Versions, g \in Files : work[w][g] <= work'[w][g]
    BY <1>0, <2>3, <2>4, TreeNumbers
  <2> HIDE DEF t
  <2> QED
    BY <2>4, <2>6, <2>7, <2>8
<1>5. CASE \E v \in Versions, f \in Files : EditWork(v, f)
  BY <1>4, <1>5
<1> QED
  BY <1>2, <1>3, <1>5 DEF RNext

(* The origin a client reads, as it is now: a tree on record. *)
LEMMA SourceTree ==
  ASSUME CInv, NEW c \in Clients, cl[c].pc \in {"digest", "target", "copy", "rename"}
  PROVE  \E S \in Trees : /\ S \in Truth(cl[c].origin, cl[c].ver)
                          /\ \A f \in Files : Source(c, f) = S[f]
<1>1. cl[c].ver \in Versions /\ cl[c].origin \in Origins
  BY DEF CInv, ClientOK, Command
<1>2. CASE cl[c].origin = "registry"
  <2>1. reg.tree[cl[c].ver] # None
    BY <1>2 DEF CInv, ClientOK, Command
  <2>2. reg.tree[cl[c].ver] \in Trees
    BY <1>1, <2>1, ContentsFields DEF CInv, TypeOK, RTypeOK
  <2>3. reg.tree[cl[c].ver] \in Truth(cl[c].origin, cl[c].ver)
    BY <1>1, <1>2, <2>1 DEF CInv, Remembered, Truth
  <2> QED
    BY <1>2, <2>2, <2>3 DEF Source
<1>3. CASE cl[c].origin = "path"
  <2>1. work[cl[c].ver] \in Trees
    BY <1>1 DEF CInv, TypeOK, RTypeOK
  <2>2. work[cl[c].ver] \in Truth(cl[c].origin, cl[c].ver)
    BY <1>1, <1>3 DEF CInv, Remembered, Truth
  <2> QED
    BY <1>3, <2>1, <2>2 DEF Source
<1> QED
  BY <1>1, <1>2, <1>3 DEF Origins

(* What has been on record are trees. *)
LEMMA TruthTrees ==
  ASSUME TypeOK, NEW o, NEW v \in Versions
  PROVE  Truth(o, v) \subseteq Trees
BY DEF TypeOK, RTypeOK, Truth

\* The fields of a command have their types.
LEMMA CommandsFields ==
  ASSUME NEW k \in Commands
  PROVE  /\ k.pc \in Places /\ k.cmd \in {"install", "lock", "restore", None}
         /\ k.ver \in Versions \cup {None} /\ k.origin \in Origins \cup {None}
         /\ k.expect \in Trees \cup {None} /\ k.digest \in Partial /\ k.staged \in Partial
         /\ k.got \in Trees \cup {None}
BY DEF Commands

(* The origins change, the clients do nothing: what a client has read lies *)
(* as far back as before, and what was on record is.                       *)
LEMMA OriginsMove ==
  ASSUME CInv, Grows, RTypeOK', Remembered', was' \in [Versions -> SUBSET Trees],
         meddled' \in BOOLEAN, UNCHANGED <<cache, plock, cl>>,
         ~meddled' => /\ ~meddled
                      /\ \A v \in Versions : reg.tree[v] # None => reg'.tree[v] = reg.tree[v]
  PROVE  CInv'
<1> USE DEF CInv
<1>1. TypeOK'
  BY DEF TypeOK
<1>3. EntriesTrue'
  <2> SUFFICES ASSUME NEW v \in Versions, cache[v] # None
               PROVE  cache[v].digest \in Truth(cache[v].origin, v)'
    BY DEF EntriesTrue
  <2>1. cache[v].digest \in Truth(cache[v].origin, v)
    BY DEF EntriesTrue
  <2> QED
    BY <2>1 DEF Grows, Truth
<1>4. LockIsRestorable'
  <2> SUFFICES ASSUME plock # None
               PROVE  /\ plock.origin = "registry" => plock.digest \in was'[plock.ver]
                      /\ ~meddled' =>
                           \/ plock.origin = "registry" /\ plock.digest = reg'.tree[plock.ver]
                           \/ /\ plock.asked = None /\ plock.origin = "path"
                              /\ plock.digest \in history'[plock.ver]
    BY DEF LockIsRestorable
  <2>1. plock.ver \in Versions /\ plock.digest \in Trees
    BY DEF TypeOK, Locked
  <2> QED
    BY <2>1, NoneIsNoTree DEF LockIsRestorable, Grows
<1>5. ASSUME NEW c \in Clients PROVE ClientOK(c)'
  <2> DEFINE k == cl[c]
  <2>0. cl'[c] = k /\ k \in Commands /\ ClientOK(c)
    BY DEF TypeOK
  <2>1. Command(c)'
    BY <2>0 DEF ClientOK, Command, Grows
  <2>2. Outcome(c)'
    <3>1. k.got # None => k.ver \in Versions /\ k.got \in Truth(k.origin, k.ver)'
      BY <2>0 DEF ClientOK, Outcome, Grows, Truth
    <3> QED
      BY <2>0, <3>1 DEF ClientOK, Outcome, Truth
  <2>3. ASSUME k.pc \in {"digest", "target", "copy", "rename"}
        PROVE  /\ k.ver \in Versions /\ k.origin \in Origins
               /\ \A f \in Files : /\ Source(c, f) \in Nat /\ Source(c, f)' \in Nat
                                   /\ Source(c, f) <= Source(c, f)'
    <3>1. k.ver \in Versions /\ k.origin \in Origins
      BY <2>0, <2>3 DEF ClientOK, Command
    <3>2. CASE k.origin = "registry"
      <4>1. reg.tree[k.ver] # None /\ reg'.tree[k.ver] # None
        BY <2>0, <2>3, <3>1, <3>2 DEF ClientOK, Command, Grows
      <4>2. reg.tree[k.ver] \in Trees /\ reg'.tree[k.ver] \in Trees
        BY <3>1, <4>1, ContentsFields DEF TypeOK, RTypeOK
      <4> QED
        BY <2>0, <3>1, <3>2, <4>1, <4>2, TreeNumbers DEF Source, Grows
    <3>3. CASE k.origin # "registry"
      <4>1. work[k.ver] \in Trees /\ work'[k.ver] \in Trees
        BY <3>1 DEF TypeOK, RTypeOK
      <4> QED
        BY <2>0, <3>1, <3>3, <4>1, TreeNumbers DEF Source, Grows
    <3> QED
      BY <3>1, <3>2, <3>3
  <2>4. k.pc = "digest" => \A f \in Files : k.digest[f] # None => k.digest[f] <= Source(c, f)'
    <3> SUFFICES ASSUME k.pc = "digest", NEW f \in Files, k.digest[f] # None
                 PROVE  k.digest[f] <= Source(c, f)'
      OBVIOUS
    <3>1. k.digest[f] \in Nat
      BY <2>0, CommandsFields DEF Partial
    <3>2. k.digest[f] <= Source(c, f)
      BY <2>0 DEF ClientOK, Readings
    <3> QED
      BY <2>3, <3>1, <3>2
  <2>5. k.pc \in {"target", "copy"} => \E T \in Truth(k.origin, k.ver)' : Between(c, T)'
    <3> SUFFICES ASSUME k.pc \in {"target", "copy"}
                 PROVE  \E T \in Truth(k.origin, k.ver)' : Between(c, T)'
      OBVIOUS
    <3>1. PICK T \in Truth(k.origin, k.ver) : Between(c, T)
      BY <2>0 DEF ClientOK, Readings
    <3>2. k.ver \in Versions
      BY <2>3
    <3>3. T \in Truth(k.origin, k.ver)' /\ T \in Trees
      BY <3>2, TruthTrees DEF Grows, Truth
    <3>4. ASSUME NEW f \in Files PROVE T[f] <= Source(c, f)'
      <4>1. T[f] <= Source(c, f) /\ T[f] \in Nat
        BY <3>1, <3>3, TreeNumbers DEF Between
      <4>2. Source(c, f) \in Nat /\ Source(c, f)' \in Nat /\ Source(c, f) <= Source(c, f)'
        BY <2>3
      <4> QED
        BY <4>1, <4>2
    <3>5. Between(c, T)'
      BY <2>0, <3>1, <3>4 DEF Between
    <3> QED
      BY <3>3, <3>5
  <2>6. k.pc = "rename" => k.staged = k.digest /\ k.digest \in Truth(k.origin, k.ver)'
    BY <2>0, <2>3 DEF ClientOK, Readings, Grows, Truth
  <2>7. Readings(c)'
    BY <2>0, <2>4, <2>5, <2>6 DEF Readings, Truth
  <2> QED
    BY <2>1, <2>2, <2>7 DEF ClientOK
<1> QED
  BY <1>1, <1>3, <1>4, <1>5

(* The registry's side takes a step. *)
LEMMA RegistryStepKeeps ==
  ASSUME RInv, RInv', CInv, RegistryStep
  PROVE  CInv'
<1>1. /\ \A v \in Versions : reg.tree[v] # None => reg'.tree[v] = reg.tree[v]
      /\ \A v \in Versions : history[v] \subseteq history'[v]
      /\ \A v \in Versions, f \in Files : work[v][f] <= work'[v][f]
      /\ (\A v \in Versions : work[v] \in history[v]) => \A v \in Versions : work'[v] \in history'[v]
  BY RegistryGrows DEF RegistryStep
<1>2. \A v \in Versions : /\ reg.tree[v] \in Trees \cup {None} /\ reg'.tree[v] \in Trees \cup {None}
                          /\ was[v] \subseteq Trees
  BY ContentsFields DEF RInv, RTypeOK, CInv, TypeOK
<1>3. was' = [v \in Versions |-> was[v] \cup ({reg'.tree[v]} \ {None})]
  BY DEF RegistryStep
<1>4. was' \in [Versions -> SUBSET Trees]
  BY <1>2, <1>3
<1>5. Grows
  <2>1. \A v \in Versions : was[v] \subseteq was'[v]
    BY <1>3
  <2>2. \A v \in Versions : reg.tree[v] # None =>
          reg'.tree[v] # None /\ \A f \in Files : reg.tree[v][f] <= reg'.tree[v][f]
    BY <1>1, <1>2, TreeNumbers
  <2> QED
    BY <1>1, <2>1, <2>2 DEF Grows
<1>6. Remembered'
  <2>1. \A v \in Versions : work'[v] \in history'[v]
    BY <1>1 DEF CInv, Remembered
  <2>2. \A v \in Versions : reg'.tree[v] # None => reg'.tree[v] \in was'[v]
    BY <1>3
  <2>3. ASSUME ~meddled, NEW v \in Versions PROVE was'[v] \subseteq {reg'.tree[v]}
    <3>1. was[v] \subseteq {reg.tree[v]}
      BY <2>3 DEF CInv, Remembered
    <3>2. reg.tree[v] = None => was[v] = {}
      BY <1>2, <3>1, NoneIsNoTree
    <3> QED
      BY <1>1, <1>3, <3>1, <3>2
  <2> QED
    BY <2>1, <2>2, <2>3 DEF Remembered, RegistryStep
<1> QED
  BY <1>1, <1>4, <1>5, <1>6, OriginsMove DEF RegistryStep, RInv, CInv, TypeOK

(* A published tree is changed by hand. *)
LEMMA ReplaceKeeps ==
  ASSUME RInv, RInv', CInv, NEW v \in Versions, NEW f \in Files, Replace(v, f)
  PROVE  CInv'
<1> DEFINE t == [reg.tree[v] EXCEPT ![f] = used.upsets + 1]
<1>1. /\ reg'.tree[v] = t /\ \A w \in Versions \ {v} : reg'.tree[w] = reg.tree[w]
      /\ reg.tree[v] \in Trees /\ t \in Trees
      /\ \A g \in Files : reg.tree[v][g] <= t[g]
  BY ReplacedTree
<1> HIDE DEF t
<1>2. /\ UNCHANGED <<work, history, cache, plock, cl>> /\ meddled'
      /\ was' = [was EXCEPT ![v] = was[v] \cup {t}]
  BY <1>1 DEF Replace, Meddle
<1>3. \A w \in Versions : was[w] \subseteq Trees /\ reg.tree[w] \in Trees \cup {None}
        /\ work[w] \in Trees
  BY ContentsFields DEF CInv, TypeOK, RTypeOK
<1>4. was' \in [Versions -> SUBSET Trees]
      /\ was'[v] = was[v] \cup {t} /\ \A w \in Versions \ {v} : was'[w] = was[w]
  <2>1. was \in [Versions -> SUBSET Trees] /\ was[v] \cup {t} \in SUBSET Trees
    BY <1>1, <1>3 DEF CInv, TypeOK
  <2> QED
    BY <1>2, <2>1
<1>5. Grows
  <2>1. \A w \in Versions : history[w] \subseteq history'[w] /\ was[w] \subseteq was'[w]
    BY <1>2, <1>4
  <2>2. \A w \in Versions, g \in Files : work[w][g] <= work'[w][g]
    BY <1>2, <1>3, TreeNumbers
  <2>3. ASSUME NEW w \in Versions, reg.tree[w] # None
        PROVE  reg'.tree[w] # None /\ \A g \in Files : reg.tree[w][g] <= reg'.tree[w][g]
    <3>1. CASE w = v
      BY <1>1, <3>1, NoneIsNoTree
    <3>2. CASE w # v
      BY <1>1, <1>3, <2>3, <3>2, TreeNumbers
    <3> QED
      BY <3>1, <3>2
  <2> QED
    BY <2>1, <2>2, <2>3 DEF Grows
<1>6. Remembered'
  BY <1>1, <1>2, <1>4 DEF CInv, Remembered
<1> QED
  BY <1>2, <1>4, <1>5, <1>6, OriginsMove DEF RInv

(* Somebody removes an entry or changes its files; its metadata stay. *)
LEMMA MeddlingKeeps ==
  ASSUME RInv, RInv', CInv, NEW v \in Versions, Purge(v) \/ \E f \in Files : Tamper(v, f)
  PROVE  CInv'
<1> USE DEF CInv
<1>1. UNCHANGED <<work, history, reg, plock, cl, was>> /\ meddled'
  BY DEF Purge, Tamper, Meddle, registry
<1>2. /\ cache' \in [Versions -> Entries \cup {None}]
      /\ \A w \in Versions : cache'[w] # None =>
           /\ cache[w] # None
           /\ cache'[w].digest = cache[w].digest /\ cache'[w].origin = cache[w].origin
  <2>1. CASE Purge(v)
    BY <2>1 DEF Purge, TypeOK
  <2>2. ASSUME NEW f \in Files, Tamper(v, f)
        PROVE  /\ cache' \in [Versions -> Entries \cup {None}] /\ cache[v] # None
               /\ cache'[v].digest = cache[v].digest /\ cache'[v].origin = cache[v].origin
               /\ \A w \in Versions \ {v} : cache'[w] = cache[w]
    <3>1. used'.upsets \in Nat
      BY DEF RInv, RTypeOK
    <3>2. cache[v] \in Entries /\ cache[v] # None
      BY <2>2 DEF Tamper, TypeOK
    <3>3. cache' = [cache EXCEPT ![v] = [cache[v] EXCEPT !.tree[f] = used'.upsets]]
      BY <2>2 DEF Tamper, TypeOK
    <3>4. /\ [cache[v] EXCEPT !.tree[f] = used'.upsets] \in Entries
          /\ [cache[v] EXCEPT !.tree[f] = used'.upsets].digest = cache[v].digest
          /\ [cache[v] EXCEPT !.tree[f] = used'.upsets].origin = cache[v].origin
      BY <3>1, <3>2 DEF Entries, Trees
    <3> QED
      BY <3>2, <3>3, <3>4 DEF TypeOK
  <2>3. CASE \E f \in Files : Tamper(v, f)
    BY <2>2, <2>3
  <2> QED
    BY <2>1, <2>3
<1>3. TypeOK'
  BY <1>1, <1>2 DEF TypeOK, RInv
<1>4. EntriesTrue'
  BY <1>1, <1>2 DEF EntriesTrue, Truth
<1>5. Remembered' /\ LockIsRestorable'
  BY <1>1 DEF Remembered, LockIsRestorable
<1>6. ASSUME NEW c \in Clients PROVE ClientOK(c)'
  <2>1. ClientOK(c)
    OBVIOUS
  <2>2. Command(c)' /\ Readings(c)'
    BY <1>1, <2>1 DEF ClientOK, Command, Readings, Truth, Between, Source
  <2>3. Outcome(c)'
    BY <1>1, <2>1 DEF ClientOK, Outcome, Truth
  <2> QED
    BY <2>2, <2>3 DEF ClientOK
<1> QED
  BY <1>3, <1>4, <1>5, <1>6

-----------------------------------------------------------------------------
(* The clients. *)

(* What a client's step leaves as it is: the origins, their history, and   *)
(* the other clients.                                                      *)
Alone(c) ==
  /\ UNCHANGED <<work, history, reg, was, meddled>>
  /\ cl' \in [Clients -> Commands] /\ \A d \in Clients \ {c} : cl'[d] = cl[d]

(* It is enough to look at the client itself, and at an entry or a         *)
(* lockfile that it writes.                                                *)
LEMMA ClientFrame ==
  ASSUME CInv, RTypeOK', NEW c \in Clients, Alone(c), ClientOK(c)',
         cache' \in [Versions -> Entries \cup {None}], EntriesTrue',
         \A v \in Versions : cache[v] # None => cache'[v] = cache[v],
         plock' \in Locked \cup {None}, LockIsRestorable'
  PROVE  CInv'
<1> USE DEF CInv
<1>1. TypeOK' /\ Remembered'
  BY DEF Alone, TypeOK, Remembered
<1>2. ASSUME NEW d \in Clients, d # c PROVE ClientOK(d)'
  <2>1. ClientOK(d) /\ cl'[d] = cl[d] /\ UNCHANGED <<work, history, reg, was, meddled>>
    BY <1>2 DEF Alone
  <2>2. Command(d)' /\ Readings(d)'
    BY <2>1 DEF ClientOK, Command, Readings, Truth, Between, Source
  <2>3. Outcome(d)'
    BY <2>1 DEF ClientOK, Outcome, Truth, Command
  <2> QED
    BY <2>2, <2>3 DEF ClientOK
<1> QED
  BY <1>1, <1>2

(* A client that writes neither cache nor lockfile. *)
LEMMA ReadersFrame ==
  ASSUME CInv, RTypeOK', NEW c \in Clients, Alone(c), ClientOK(c)', UNCHANGED <<cache, plock>>
  PROVE  CInv'
<1>1. EntriesTrue' /\ LockIsRestorable'
  BY DEF CInv, Alone, EntriesTrue, Truth, LockIsRestorable
<1> QED
  BY <1>1, ClientFrame DEF CInv, TypeOK

\* The reading that has seen no file yet.
LEMMA EmptyPartial == Empty \in Partial /\ \A f \in Files : Empty[f] = None
BY DEF Empty, Partial

\* The command of a client that has nothing to do.
LEMMA WaitingFields ==
  /\ Waiting \in Commands /\ Waiting.pc = "ready" /\ Waiting.cmd = None /\ Waiting.ver = None
  /\ Waiting.origin = None /\ Waiting.expect = None /\ Waiting.got = None
  /\ Waiting.digest = Empty /\ Waiting.staged = Empty
BY EmptyPartial DEF Waiting, Commands, Places

(* A client that has given up has nothing to answer for. *)
LEMMA EndOK ==
  ASSUME CInv, NEW c \in Clients, End(c), UNCHANGED <<work, history, reg, was, meddled>>
  PROVE  Alone(c) /\ ClientOK(c)'
<1>1. cl'[c] = Waiting
  BY DEF End, CInv, TypeOK
<1>2. Alone(c)
  BY WaitingFields DEF End, Alone, CInv, TypeOK
<1>3. Command(c)'
  BY <1>1, WaitingFields, CacheAssumption DEF Command, CacheAssumption
<1>4. Readings(c)' /\ Outcome(c)'
  BY <1>1, WaitingFields DEF Readings, Outcome
<1> QED
  BY <1>2, <1>3, <1>4 DEF ClientOK

(* A command that starts has read nothing. *)
LEMMA StartOK ==
  ASSUME CInv, NEW c \in Clients, NEW k \in Commands, cl' = [cl EXCEPT ![c] = k],
         UNCHANGED <<work, history, reg, was, meddled>>,
         k.pc = "look", k.ver \in Versions, k.origin \in Origins \/ k.cmd = "lock",
         k.digest = Empty,
         k.staged = Empty, k.got = None, k.cmd = "restore" => k.expect \in Trees,
         k.cmd = "lock" => k.origin \in {"registry", None}
  PROVE  Alone(c) /\ ClientOK(c)'
<1>1. cl'[c] = k /\ Alone(c)
  BY DEF Alone, CInv, TypeOK
<1>2. Command(c)' /\ Readings(c)' /\ Outcome(c)'
  BY <1>1 DEF Command, Readings, Outcome
<1> QED
  BY <1>1, <1>2 DEF ClientOK

\* The start of a command keeps CInv.
LEMMA StartKeeps ==
  ASSUME RInv', CInv, NEW c \in Clients,
         \/ \E v \in Versions : \/ \E o \in {"registry", None} : Lock(c, v, o)
                                \/ \E o \in Origins : Install(c, v, o)
         \/ Restore(c)
  PROVE  CInv'
<1>1. UNCHANGED <<work, history, reg, cache, plock, was, meddled>> /\ RTypeOK'
  BY DEF Lock, Install, Restore, Unstarted, registry, RInv
<1>2. ASSUME NEW v \in Versions, NEW o \in {"registry", None}, Lock(c, v, o)
      PROVE  Alone(c) /\ ClientOK(c)'
  <2> DEFINE k == [Waiting EXCEPT !.pc = "look", !.cmd = "lock", !.ver = v, !.origin = o]
  <2>1. /\ k \in Commands /\ k.pc = "look" /\ k.ver = v /\ k.origin = o /\ k.cmd = "lock"
        /\ k.digest = Empty /\ k.staged = Empty /\ k.got = None
    BY EmptyPartial DEF Waiting, Commands, Places, Origins
  <2>2. cl' = [cl EXCEPT ![c] = k]
    BY <1>2 DEF Lock
  <2> HIDE DEF k
  <2> QED
    BY <1>1, <2>1, <2>2, StartOK
<1>3. ASSUME NEW v \in Versions, NEW o \in Origins, Install(c, v, o) PROVE Alone(c) /\ ClientOK(c)'
  <2> DEFINE k == [Waiting EXCEPT !.pc = "look", !.cmd = "install", !.ver = v, !.origin = o]
  <2>1. /\ k \in Commands /\ k.pc = "look" /\ k.ver = v /\ k.origin = o /\ k.cmd = "install"
        /\ k.digest = Empty /\ k.staged = Empty /\ k.got = None
    BY EmptyPartial DEF Waiting, Commands, Places
  <2>2. cl' = [cl EXCEPT ![c] = k]
    BY <1>3 DEF Install
  <2> HIDE DEF k
  <2> QED
    BY <1>1, <2>1, <2>2, StartOK
<1>4. ASSUME Restore(c) PROVE Alone(c) /\ ClientOK(c)'
  <2> DEFINE k == [Waiting EXCEPT !.pc = "look", !.cmd = "restore", !.ver = plock.ver,
                                  !.origin = plock.origin, !.expect = plock.digest]
  <2>1. plock.ver \in Versions /\ plock.origin \in Origins /\ plock.digest \in Trees
    BY <1>4 DEF Restore, CInv, TypeOK, Locked
  <2>2. /\ k \in Commands /\ k.pc = "look" /\ k.ver = plock.ver /\ k.origin = plock.origin
        /\ k.cmd = "restore" /\ k.expect = plock.digest
        /\ k.digest = Empty /\ k.staged = Empty /\ k.got = None
    BY <2>1, EmptyPartial DEF Waiting, Commands, Places
  <2>3. cl' = [cl EXCEPT ![c] = k]
    BY <1>4 DEF Restore
  <2> HIDE DEF k
  <2> QED
    BY <1>1, <2>1, <2>2, <2>3, StartOK
<1> QED
  BY <1>1, <1>2, <1>3, <1>4, ReadersFrame

(* A client that moves on keeps everything but its place. *)
LEMMA CGotoJob ==
  ASSUME cl \in [Clients -> Commands], NEW c \in Clients, NEW l \in Places, CGoto(c, l)
  PROVE  /\ cl' \in [Clients -> Commands] /\ \A d \in Clients \ {c} : cl'[d] = cl[d]
         /\ cl'[c].pc = l /\ cl'[c].cmd = cl[c].cmd /\ cl'[c].ver = cl[c].ver
         /\ cl'[c].origin = cl[c].origin /\ cl'[c].expect = cl[c].expect /\ cl'[c].got = cl[c].got
         /\ cl'[c].digest = cl[c].digest /\ cl'[c].staged = cl[c].staged
<1>1. cl' = [cl EXCEPT ![c] = [cl[c] EXCEPT !.pc = l]] /\ cl[c] \in Commands
  BY DEF CGoto
<1>2. [cl[c] EXCEPT !.pc = l] \in Commands
  BY <1>1 DEF Commands
<1>3. cl' \in [Clients -> Commands] /\ \A d \in Clients \ {c} : cl'[d] = cl[d]
  BY <1>1, <1>2
<1>4. /\ cl'[c].pc = l /\ cl'[c].cmd = cl[c].cmd /\ cl'[c].ver = cl[c].ver
      /\ cl'[c].origin = cl[c].origin /\ cl'[c].expect = cl[c].expect /\ cl'[c].got = cl[c].got
      /\ cl'[c].digest = cl[c].digest /\ cl'[c].staged = cl[c].staged
  BY <1>1 DEF Commands
<1> QED
  BY <1>3, <1>4

\* A command that succeeds hands out its tree and keeps what it was asked for.
LEMMA SucceedJob ==
  ASSUME cl \in [Clients -> Commands], NEW c \in Clients, NEW t \in Trees, Succeed(c, t)
  PROVE  /\ cl' \in [Clients -> Commands] /\ \A d \in Clients \ {c} : cl'[d] = cl[d]
         /\ cl'[c].pc = "ready" /\ cl'[c].cmd = cl[c].cmd /\ cl'[c].ver = cl[c].ver
         /\ cl'[c].origin = cl[c].origin /\ cl'[c].expect = cl[c].expect /\ cl'[c].got = t
<1> DEFINE k == [cl[c] EXCEPT !.pc = "ready", !.digest = Empty, !.staged = Empty, !.got = t]
<1>1. cl' = [cl EXCEPT ![c] = k] /\ cl[c] \in Commands
  BY DEF Succeed
<1>2. k \in Commands
  BY <1>1, EmptyPartial DEF Commands, Places
<1>3. /\ k.pc = "ready" /\ k.cmd = cl[c].cmd /\ k.ver = cl[c].ver
      /\ k.origin = cl[c].origin /\ k.expect = cl[c].expect /\ k.got = t
  BY <1>1 DEF Commands
<1> HIDE DEF k
<1>4. cl' \in [Clients -> Commands] /\ cl'[c] = k /\ \A d \in Clients \ {c} : cl'[d] = cl[d]
  BY <1>1, <1>2
<1> QED
  BY <1>3, <1>4

(* A tree on record that is what a restore expects may be delivered. *)
LEMMA DeliverOK ==
  ASSUME CInv, NEW c \in Clients, NEW t \in Trees, Succeed(c, t),
         UNCHANGED <<work, history, reg, was, meddled>>, cl[c].ver \in Versions,
         t \in Truth(cl[c].origin, cl[c].ver), cl[c].cmd = "restore" => t = cl[c].expect
  PROVE  Alone(c) /\ ClientOK(c)'
<1>1. /\ cl' \in [Clients -> Commands] /\ \A d \in Clients \ {c} : cl'[d] = cl[d]
      /\ cl'[c].pc = "ready" /\ cl'[c].cmd = cl[c].cmd /\ cl'[c].ver = cl[c].ver
      /\ cl'[c].origin = cl[c].origin /\ cl'[c].expect = cl[c].expect /\ cl'[c].got = t
  BY SucceedJob DEF CInv, TypeOK
<1>2. Command(c)'
  BY <1>1 DEF CInv, ClientOK, Command
<1>3. Readings(c)' /\ Outcome(c)'
  BY <1>1 DEF Readings, Outcome, Truth
<1> QED
  BY <1>1, <1>2, <1>3 DEF Alone, ClientOK

(* `ori lock' may go on to record an entry of the registry. *)
LEMMA RecordOK ==
  ASSUME CInv, NEW c \in Clients, CGoto(c, "record"), cl[c].pc # "ready", cl[c].cmd = "lock",
         UNCHANGED <<work, history, reg, was, meddled>>,
         cache'[cl[c].ver] # None,
         cl[c].origin # None => cache'[cl[c].ver].origin = "registry"
  PROVE  Alone(c) /\ ClientOK(c)'
<1>1. /\ cl' \in [Clients -> Commands] /\ \A d \in Clients \ {c} : cl'[d] = cl[d]
      /\ cl'[c].pc = "record" /\ cl'[c].cmd = cl[c].cmd /\ cl'[c].ver = cl[c].ver
      /\ cl'[c].origin = cl[c].origin /\ cl'[c].expect = cl[c].expect /\ cl'[c].got = cl[c].got
  BY CGotoJob DEF CInv, TypeOK, Places
<1>2. Command(c)'
  BY <1>1 DEF CInv, ClientOK, Command
<1>3. Readings(c)' /\ Outcome(c)'
  BY <1>1 DEF CInv, ClientOK, Readings, Outcome, Truth
<1> QED
  BY <1>1, <1>2, <1>3 DEF Alone, ClientOK

(* An entry is served if it is valid: what it holds is then what it        *)
(* records, of the client's origin.                                        *)
LEMMA ServeOK ==
  ASSUME CInv, NEW c \in Clients, NEW expected, cl[c].pc # "ready", cache[cl[c].ver] # None,
         cl[c].cmd = "restore" => expected = cl[c].expect,
         UNCHANGED <<work, history, reg, was, meddled, cache>>, Serve(c, cl[c].ver, expected)
  PROVE  Alone(c) /\ ClientOK(c)'
<1> DEFINE e == cache[cl[c].ver]
<1>1. /\ cl[c].ver \in Versions /\ ClientOK(c)
      /\ cl[c].cmd # "lock" => cl[c].origin \in Origins
  BY DEF CInv, ClientOK, Command
<1>2. e \in Entries /\ e.tree \in Trees /\ e.digest \in Truth(e.origin, cl[c].ver)
  <2>1. e \in Entries
    BY <1>1 DEF CInv, TypeOK
  <2> QED
    BY <1>1, <2>1 DEF CInv, EntriesTrue, Entries
<1>3. CASE ~Valid(c, e, expected)
  BY <1>3, EndOK DEF Serve
<1>4. CASE Valid(c, e, expected)
  <2>1. /\ cl[c].origin # None => e.origin = cl[c].origin
        /\ e.digest = e.tree /\ (expected # None => e.tree = expected)
    BY <1>4 DEF Valid
  <2>2. CASE cl[c].cmd = "lock"
    <3>1. CGoto(c, "record")
      BY <1>4, <2>2 DEF Serve
    <3>2. cl[c].origin # None => e.origin = "registry"
      BY <1>1, <2>1, <2>2 DEF ClientOK, Command
    <3> QED
      BY <2>2, <3>1, <3>2, RecordOK
  <2>3. CASE cl[c].cmd # "lock"
    <3>1. Succeed(c, e.tree)
      BY <1>4, <2>3 DEF Serve
    <3>2. e.tree \in Truth(cl[c].origin, cl[c].ver)
      BY <1>1, <1>2, <2>1, <2>3, OriginIsSomething
    <3>3. cl[c].cmd = "restore" => e.tree = cl[c].expect
      BY <1>1, <2>1, NoneIsNoTree DEF ClientOK, Command
    <3> QED
      BY <1>1, <1>2, <3>1, <3>2, <3>3, DeliverOK
  <2> QED
    BY <2>2, <2>3
<1> QED
  BY <1>3, <1>4

(* What is wanted, when a restore wants something. *)
LEMMA WantedIsExpected ==
  ASSUME CInv, NEW c \in Clients, cl[c].pc \in {"target", "copy", "rename"}, cl[c].cmd = "restore"
  PROVE  cl[c].digest = cl[c].expect
BY NoneIsNoTree DEF CInv, ClientOK, Command, Wanted

\* Looking for a cache entry keeps CInv.
LEMMA LookKeeps ==
  ASSUME RInv', CInv, NEW c \in Clients, Look(c)
  PROVE  CInv'
<1>1. /\ UNCHANGED <<work, history, reg, was, meddled, cache, plock>> /\ RTypeOK'
      /\ cl[c].pc = "look"
  BY DEF Look, CAt, rvars, registry, RInv
<1>2. CASE cache[cl[c].ver] # None
  <2>1. Serve(c, cl[c].ver, cl[c].expect)
    BY <1>2 DEF Look
  <2> QED
    BY <1>1, <1>2, <2>1, ServeOK, ReadersFrame
<1>3. CASE cache[cl[c].ver] = None
  <2>1. /\ cl' \in [Clients -> Commands] /\ \A d \in Clients \ {c} : cl'[d] = cl[d]
        /\ cl'[c].pc = "source" /\ cl'[c].cmd = cl[c].cmd /\ cl'[c].ver = cl[c].ver
        /\ cl'[c].origin = cl[c].origin /\ cl'[c].expect = cl[c].expect /\ cl'[c].got = cl[c].got
        /\ cl'[c].digest = cl[c].digest /\ cl'[c].staged = cl[c].staged
    BY <1>3, CGotoJob DEF Look, CInv, TypeOK, Places
  <2>2. Command(c)'
    BY <1>1, <2>1 DEF CInv, ClientOK, Command
  <2>3. Readings(c)' /\ Outcome(c)'
    BY <1>1, <2>1 DEF CInv, ClientOK, Readings, Outcome, Truth
  <2> QED
    BY <1>1, <2>1, <2>2, <2>3, ReadersFrame DEF Alone, ClientOK
<1> QED
  BY <1>2, <1>3

\* Finding the source of a tree keeps CInv.
LEMMA FindSourceKeeps ==
  ASSUME RInv', CInv, NEW c \in Clients, FindSource(c)
  PROVE  CInv'
<1>1. /\ UNCHANGED <<work, history, reg, was, meddled, cache, plock>> /\ RTypeOK'
      /\ cl[c].pc = "source"
  BY DEF FindSource, CAt, rvars, registry, RInv
<1>2. CASE End(c)
  BY <1>1, <1>2, EndOK, ReadersFrame
<1>3. CASE /\ CGoto(c, "digest") /\ (cl[c].origin = "registry" => reg.tree[cl[c].ver] # None)
           /\ cl[c].origin = "registry" \/ cl[c].origin # None
  <2>1. /\ cl' \in [Clients -> Commands] /\ \A d \in Clients \ {c} : cl'[d] = cl[d]
        /\ cl'[c].pc = "digest" /\ cl'[c].cmd = cl[c].cmd /\ cl'[c].ver = cl[c].ver
        /\ cl'[c].origin = cl[c].origin /\ cl'[c].expect = cl[c].expect /\ cl'[c].got = cl[c].got
        /\ cl'[c].digest = cl[c].digest /\ cl'[c].staged = cl[c].staged
    BY <1>3, CGotoJob DEF CInv, TypeOK, Places
  <2>2. Command(c)'
    BY <1>1, <1>3, <2>1 DEF CInv, ClientOK, Command, Origins
  <2>3. \A f \in Files : cl[c].digest[f] = None
    BY <1>1, EmptyPartial DEF CInv, ClientOK, Command
  <2>4. Readings(c)' /\ Outcome(c)'
    BY <1>1, <2>1, <2>3 DEF CInv, ClientOK, Readings, Outcome, Truth
  <2> QED
    BY <1>1, <2>1, <2>2, <2>4, ReadersFrame DEF Alone, ClientOK
<1> QED
  BY <1>2, <1>3 DEF FindSource

\* The second look, after staging, keeps CInv.
LEMMA LookAgainKeeps ==
  ASSUME RInv', CInv, NEW c \in Clients, LookAgain(c)
  PROVE  CInv'
<1>1. /\ UNCHANGED <<work, history, reg, was, meddled, cache, plock>> /\ RTypeOK'
      /\ cl[c].pc = "target"
  BY DEF LookAgain, CAt, rvars, registry, RInv
<1>2. CASE cache[cl[c].ver] # None
  <2>1. Serve(c, cl[c].ver, cl[c].digest)
    BY <1>2 DEF LookAgain
  <2> QED
    BY <1>1, <1>2, <2>1, ServeOK, WantedIsExpected, ReadersFrame
<1>3. CASE cache[cl[c].ver] = None
  <2>1. /\ cl' \in [Clients -> Commands] /\ \A d \in Clients \ {c} : cl'[d] = cl[d]
        /\ cl'[c].pc = "copy" /\ cl'[c].cmd = cl[c].cmd /\ cl'[c].ver = cl[c].ver
        /\ cl'[c].origin = cl[c].origin /\ cl'[c].expect = cl[c].expect /\ cl'[c].got = cl[c].got
        /\ cl'[c].digest = cl[c].digest /\ cl'[c].staged = cl[c].staged
    BY <1>3, CGotoJob DEF LookAgain, CInv, TypeOK, Places
  <2>2. Command(c)'
    BY <1>1, <2>1 DEF CInv, ClientOK, Command
  <2>3. Readings(c)' /\ Outcome(c)'
    BY <1>1, <2>1 DEF CInv, ClientOK, Readings, Outcome, Truth, Between, Source
  <2> QED
    BY <1>1, <2>1, <2>2, <2>3, ReadersFrame DEF Alone, ClientOK
<1> QED
  BY <1>2, <1>3

(* A client that has read a file: the first reading is overtaken by the    *)
(* origin, and complete it is a tree.                                      *)
LEMMA DigestFileKeeps ==
  ASSUME RInv', CInv, NEW c \in Clients, NEW f \in Files, DigestFile(c, f)
  PROVE  CInv'
<1> DEFINE last == \A g \in Files \ {f} : cl[c].digest[g] # None
           read == [cl[c].digest EXCEPT ![f] = Source(c, f)]
           l == IF last THEN "target" ELSE "digest"
<1>1. /\ UNCHANGED <<work, history, reg, was, meddled, cache, plock>> /\ RTypeOK'
      /\ cl[c].pc = "digest" /\ cl[c].digest[f] = None
  BY DEF DigestFile, CAt, rvars, registry, RInv
<1>2. CASE End(c)
  BY <1>1, <1>2, EndOK, ReadersFrame
<1>3. CASE /\ cl' = [cl EXCEPT ![c].digest = read, ![c].pc = IF last THEN "target" ELSE @]
           /\ last => Wanted(cl[c].expect, read)
  <2>1. PICK S \in Trees : /\ S \in Truth(cl[c].origin, cl[c].ver)
                           /\ \A g \in Files : Source(c, g) = S[g]
    BY <1>1, SourceTree
  <2>2. cl[c] \in Commands /\ cl[c].digest \in Partial /\ ClientOK(c)
    BY CommandsFields DEF CInv, TypeOK
  <2>3. /\ read \in Partial /\ read[f] = S[f]
        /\ \A g \in Files \ {f} : read[g] = cl[c].digest[g]
    BY <2>1, <2>2, TreeNumbers DEF Partial
  <2>4. \A g \in Files : read[g] # None => read[g] <= S[g]
    BY <1>1, <2>1, <2>2, <2>3, TreeNumbers DEF ClientOK, Readings
  <2>5. last => read \in Trees
    BY <2>1, <2>3, TreeNumbers DEF Partial, Trees
  <2>6. cl' = [cl EXCEPT ![c] = [cl[c] EXCEPT !.digest = read, !.pc = l]] /\ l \in Places
    BY <1>1, <1>3 DEF CInv, TypeOK, Places
  <2>7. last => Wanted(cl[c].expect, read)
    BY <1>3
  <2> HIDE DEF read, l
  <2>8. [cl[c] EXCEPT !.digest = read, !.pc = l] \in Commands
    BY <2>2, <2>3, <2>6 DEF Commands
  <2>9. Alone(c)
    BY <1>1, <2>6, <2>8 DEF CInv, TypeOK, Alone
  <2>10. /\ cl'[c].pc = l /\ cl'[c].cmd = cl[c].cmd /\ cl'[c].ver = cl[c].ver
         /\ cl'[c].origin = cl[c].origin /\ cl'[c].expect = cl[c].expect /\ cl'[c].got = cl[c].got
         /\ cl'[c].digest = read /\ cl'[c].staged = cl[c].staged
    BY <2>2, <2>6 DEF Commands, CInv, TypeOK
  <2>11. (l = "target" /\ read \in Trees /\ Wanted(cl[c].expect, read)) \/ l = "digest"
    BY <2>5, <2>7 DEF l
  <2>12. Command(c)'
    BY <1>1, <2>2, <2>10, <2>11 DEF ClientOK, Command
  <2>13. \A g \in Files : Source(c, g)' = S[g]
    BY <1>1, <2>1, <2>10 DEF Source
  <2>14. Outcome(c)'
    BY <1>1, <2>2, <2>10, <2>11 DEF ClientOK, Outcome, Truth
  <2>15. CASE l = "digest"
    <3>1. Readings(c)'
      BY <2>4, <2>10, <2>13, <2>15 DEF Readings
    <3> QED
      BY <1>1, <2>9, <2>12, <2>14, <3>1, ReadersFrame DEF ClientOK
  <2>16. CASE l = "target" /\ read \in Trees
    <3>1. \A g \in Files : cl[c].staged[g] = None
      BY <1>1, <2>2, EmptyPartial DEF ClientOK, Command
    <3>2. Between(c, S)'
      BY <2>1, <2>4, <2>10, <2>13, <2>16, <3>1, TreeNumbers, NoneIsNoTree, RegistryAssumption
         DEF Between, RegistryAssumption
    <3>3. S \in Truth(cl[c].origin, cl[c].ver)'
      BY <1>1, <2>1, <2>10 DEF Truth
    <3>4. Readings(c)'
      BY <2>10, <2>16, <3>2, <3>3 DEF Readings
    <3> QED
      BY <1>1, <2>9, <2>12, <2>14, <3>4, ReadersFrame DEF ClientOK
  <2> QED
    BY <2>11, <2>15, <2>16
<1> QED
  BY <1>2, <1>3 DEF DigestFile

(* The second reading is no older than the tree in between; if it is equal *)
(* to the first one, both are that tree.                                   *)
LEMMA CopyFileKeeps ==
  ASSUME RInv', CInv, NEW c \in Clients, NEW f \in Files, CopyFile(c, f)
  PROVE  CInv'
<1> DEFINE last == \A g \in Files \ {f} : cl[c].staged[g] # None
           read == [cl[c].staged EXCEPT ![f] = Source(c, f)]
           l == IF last THEN "rename" ELSE "copy"
<1>1. /\ UNCHANGED <<work, history, reg, was, meddled, cache, plock>> /\ RTypeOK'
      /\ cl[c].pc = "copy" /\ cl[c].staged[f] = None
  BY DEF CopyFile, CAt, rvars, registry, RInv
<1>2. CASE End(c)
  BY <1>1, <1>2, EndOK, ReadersFrame
<1>3. CASE /\ cl' = [cl EXCEPT ![c].staged = read, ![c].pc = IF last THEN "rename" ELSE @]
           /\ last => Same(read, cl[c].digest)
  <2>1. PICK S \in Trees : \A g \in Files : Source(c, g) = S[g]
    BY <1>1, SourceTree
  <2>2. cl[c] \in Commands /\ cl[c].staged \in Partial /\ ClientOK(c)
    BY CommandsFields DEF CInv, TypeOK
  <2>3. /\ read \in Partial /\ read[f] = S[f]
        /\ \A g \in Files \ {f} : read[g] = cl[c].staged[g]
    BY <2>1, <2>2, TreeNumbers DEF Partial
  <2>4. PICK T \in Truth(cl[c].origin, cl[c].ver) : Between(c, T)
    BY <1>1, <2>2 DEF ClientOK, Readings
  <2>5. T \in Trees /\ cl[c].digest \in Trees /\ cl[c].ver \in Versions
    BY <1>1, <2>2, TruthTrees DEF CInv, ClientOK, Command
  <2>6. \A g \in Files : read[g] # None => T[g] <= read[g]
    BY <2>1, <2>3, <2>4 DEF Between
  <2>7. last => read = cl[c].digest
    BY <1>3 DEF Same
  <2>8. cl' = [cl EXCEPT ![c] = [cl[c] EXCEPT !.staged = read, !.pc = l]] /\ l \in Places
    BY <1>1, <1>3 DEF CInv, TypeOK, Places
  <2>9. (l = "rename" /\ read = cl[c].digest) \/ l = "copy"
    BY <2>7
  <2> HIDE DEF read, l
  <2>10. [cl[c] EXCEPT !.staged = read, !.pc = l] \in Commands
    BY <2>2, <2>3, <2>8 DEF Commands
  <2>11. Alone(c)
    BY <1>1, <2>8, <2>10 DEF CInv, TypeOK, Alone
  <2>12. /\ cl'[c].pc = l /\ cl'[c].cmd = cl[c].cmd /\ cl'[c].ver = cl[c].ver
         /\ cl'[c].origin = cl[c].origin /\ cl'[c].expect = cl[c].expect /\ cl'[c].got = cl[c].got
         /\ cl'[c].digest = cl[c].digest /\ cl'[c].staged = read
    BY <2>2, <2>8 DEF Commands, CInv, TypeOK
  <2>13. Command(c)'
    BY <1>1, <2>2, <2>9, <2>12 DEF ClientOK, Command
  <2>14. \A g \in Files : Source(c, g)' = Source(c, g)
    BY <1>1, <2>12 DEF Source
  <2>15. Outcome(c)'
    BY <1>1, <2>2, <2>9, <2>12 DEF ClientOK, Outcome, Truth
  <2>16. CASE l = "copy"
    <3>1. Between(c, T)'
      BY <2>4, <2>6, <2>12, <2>14 DEF Between
    <3>2. T \in Truth(cl[c].origin, cl[c].ver)'
      BY <1>1, <2>4, <2>12 DEF Truth
    <3>3. Readings(c)'
      BY <2>12, <2>16, <3>1, <3>2 DEF Readings
    <3> QED
      BY <1>1, <2>11, <2>13, <2>15, <3>3, ReadersFrame DEF ClientOK
  <2>17. CASE l = "rename" /\ read = cl[c].digest
    <3>1. \A g \in Files : read[g] \in Nat /\ T[g] \in Nat /\ read[g] <= T[g] /\ T[g] <= read[g]
      BY <2>4, <2>5, <2>6, <2>17, TreeNumbers, RegistryAssumption DEF Between, RegistryAssumption
    <3>2. \A g \in Files : read[g] = T[g]
      BY <3>1
    <3>3. read = T
      BY <2>5, <2>17, <3>2 DEF Trees
    <3>4. read \in Truth(cl[c].origin, cl[c].ver)'
      BY <1>1, <2>4, <2>12, <3>3 DEF Truth
    <3>5. Readings(c)'
      BY <2>12, <2>17, <3>4 DEF Readings
    <3> QED
      BY <1>1, <2>11, <2>13, <2>15, <3>5, ReadersFrame DEF ClientOK
  <2> QED
    BY <2>9, <2>16, <2>17
<1> QED
  BY <1>2, <1>3 DEF CopyFile

\* Renaming the staged tree into the cache keeps CInv.
LEMMA RenameEntryKeeps ==
  ASSUME RInv', CInv, NEW c \in Clients, RenameEntry(c)
  PROVE  CInv'
<1> DEFINE v == cl[c].ver
           e == [tree |-> cl[c].staged, origin |-> cl[c].origin, digest |-> cl[c].digest]
<1>1. /\ UNCHANGED <<work, history, reg, was, meddled, plock>> /\ RTypeOK'
      /\ cl[c].pc = "rename"
  BY DEF RenameEntry, CAt, rvars, registry, RInv
<1>2. CASE cache[v] # None
  <2>1. Serve(c, v, cl[c].digest) /\ UNCHANGED cache
    BY <1>2 DEF RenameEntry
  <2> QED
    BY <1>1, <1>2, <2>1, ServeOK, WantedIsExpected, ReadersFrame
<1>3. CASE cache[v] = None
  <2>1. /\ cache' = [cache EXCEPT ![v] = e]
        /\ IF cl[c].cmd = "lock" THEN CGoto(c, "record") ELSE Succeed(c, e.tree)
    BY <1>3 DEF RenameEntry
  <2>2. /\ v \in Versions /\ cl[c].origin \in Origins /\ cl[c].digest \in Trees
        /\ cl[c].staged = cl[c].digest /\ cl[c].digest \in Truth(cl[c].origin, v)
        /\ cl[c].cmd = "lock" => cl[c].origin = "registry"
    BY <1>1, OriginIsSomething DEF CInv, ClientOK, Command, Readings
  <2>3. /\ e \in Entries /\ e # None /\ e.origin = cl[c].origin /\ e.digest = cl[c].digest
        /\ e.tree = cl[c].digest
    BY <2>2, CacheAssumption DEF Entries, CacheAssumption
  <2> HIDE DEF e
  <2>4. /\ cache' \in [Versions -> Entries \cup {None}] /\ cache'[v] = e
        /\ \A w \in Versions \ {v} : cache'[w] = cache[w]
    BY <2>1, <2>2, <2>3 DEF CInv, TypeOK
  <2>5. EntriesTrue'
    <3> SUFFICES ASSUME NEW w \in Versions, cache'[w] # None
                 PROVE  cache'[w].digest \in Truth(cache'[w].origin, w)
      BY <1>1 DEF EntriesTrue, Truth
    <3>1. CASE w = v
      BY <2>2, <2>3, <2>4, <3>1
    <3>2. CASE w # v
      BY <2>4, <3>2 DEF CInv, EntriesTrue
    <3> QED
      BY <3>1, <3>2
  <2>6. LockIsRestorable' /\ plock' \in Locked \cup {None}
    BY <1>1 DEF CInv, TypeOK, LockIsRestorable
  <2>7. Alone(c) /\ ClientOK(c)'
    <3>1. CASE cl[c].cmd = "lock"
      BY <1>1, <2>1, <2>2, <2>3, <2>4, <3>1, RecordOK
    <3>2. CASE cl[c].cmd # "lock"
      BY <1>1, <2>1, <2>2, <2>3, <3>2, DeliverOK, WantedIsExpected
    <3> QED
      BY <3>1, <3>2
  <2> QED
    BY <1>1, <1>3, <2>4, <2>5, <2>6, <2>7, ClientFrame
<1> QED
  BY <1>2, <1>3

\* Writing ori.lock keeps CInv.
LEMMA RecordKeeps ==
  ASSUME RInv', CInv, NEW c \in Clients, Record(c)
  PROVE  CInv'
<1> DEFINE v == cl[c].ver
           e == [ver |-> v, origin |-> cache[v].origin, digest |-> cache[v].digest,
                 asked |-> cl[c].origin]
<1>1. /\ UNCHANGED <<work, history, reg, was, meddled, cache>> /\ RTypeOK'
      /\ cl[c].pc = "record" /\ End(c)
      /\ plock' = IF cache[v] = None THEN plock ELSE e
  BY DEF Record, CAt, rvars, registry, RInv
<1>2. Alone(c) /\ ClientOK(c)'
  BY <1>1, EndOK
<1>3. CASE cache[v] = None
  BY <1>1, <1>2, <1>3, ReadersFrame
<1>4. CASE cache[v] # None
  <2>1. /\ v \in Versions /\ cache[v] \in Entries /\ cache[v].digest \in Truth(cache[v].origin, v)
        /\ ~meddled /\ cl[c].origin # None => cache[v].origin = "registry"
        /\ cl[c].origin \in {"registry", None}
    BY <1>1, <1>4 DEF CInv, TypeOK, ClientOK, Command, Outcome, EntriesTrue
  <2>2. /\ e \in Locked /\ e.ver = v /\ e.origin = cache[v].origin /\ e.digest = cache[v].digest
        /\ e.asked = cl[c].origin /\ e.origin \in Origins
    BY <2>1 DEF Entries, Locked
  <2> HIDE DEF e
  <2>3. e.origin = "registry" => e.digest \in was[v]
    BY <2>1, <2>2 DEF Truth
  <2>4. ~meddled => \/ e.origin = "registry" /\ e.digest = reg.tree[v]
                    \/ e.asked = None /\ e.origin = "path" /\ e.digest \in history[v]
    BY <2>1, <2>2, <2>3 DEF CInv, Remembered, Origins, Truth
  <2>5. LockIsRestorable'
    BY <1>1, <1>4, <2>2, <2>3, <2>4 DEF LockIsRestorable
  <2>6. EntriesTrue'
    BY <1>1 DEF CInv, EntriesTrue, Truth
  <2> QED
    BY <1>1, <1>2, <1>4, <2>2, <2>5, <2>6, ClientFrame DEF CInv, TypeOK
<1> QED
  BY <1>3, <1>4

\* A crash of a command keeps CInv.
LEMMA CrashClientKeeps ==
  ASSUME RInv', CInv, NEW c \in Clients, CrashClient(c)
  PROVE  CInv'
<1>1. UNCHANGED <<work, history, reg, was, meddled, cache, plock>> /\ RTypeOK' /\ End(c)
  BY DEF CrashClient, Unstarted, registry, RInv
<1> QED
  BY <1>1, EndOK, ReadersFrame

-----------------------------------------------------------------------------
(* The whole. *)

\* Both invariants hold initially.
LEMMA Starts ==
  ASSUME Init
  PROVE  RInv /\ CInv
<1> USE DEF Init, RInit
<1>1. /\ work \in [Versions -> Trees] /\ history \in [Versions -> SUBSET Trees]
      /\ \A v \in Versions : work[v] \in history[v] /\ \A f \in Files : work[v][f] = 0
  BY DEF Trees
<1>2. /\ reg \in Contents /\ reg.index = {} /\ reg.global = {}
      /\ \A v \in Versions : reg.tree[v] = None
  BY DEF Contents
<1>3. /\ lock \in [owner : Publishers \cup {None, "crashed"}, old : BOOLEAN] /\ lock.owner = None
      /\ used \in [commands : Nat, upsets : Nat] /\ used.upsets = 0
  BY DEF NoLock
<1>4. pub \in [Publishers -> Jobs] /\ \A p \in Publishers : pub[p].pc = "ready"
        /\ pub[p].tree = None
  BY IdleJob
<1>5. RTypeOK
  BY <1>1, <1>2, <1>3, <1>4 DEF RTypeOK
<1>6. Numbered /\ Job
  BY <1>1, <1>2, <1>3, <1>4 DEF Numbered, Job, Unpublished
<1>7. OwnerIsInside /\ InsideIsOwner
  BY <1>3, <1>4, RegistryAssumption DEF OwnerIsInside, InsideIsOwner, Critical, RegistryAssumption
<1>8. Progress
  BY <1>4 DEF Progress, Unpublished, Published
<1>9. NoVersionLost /\ IndexedIsFetchable
  BY <1>2 DEF NoVersionLost, IndexedIsFetchable
<1>10. RInv
  BY <1>5, <1>6, <1>7, <1>8, <1>9 DEF RInv
<1>11. TypeOK
  BY <1>5, WaitingFields DEF TypeOK
<1>12. Remembered /\ EntriesTrue /\ LockIsRestorable
  BY <1>1, <1>2 DEF Remembered, EntriesTrue, LockIsRestorable
<1>13. ASSUME NEW c \in Clients PROVE ClientOK(c)
  <2>1. cl[c] = Waiting
    OBVIOUS
  <2>2. Command(c)
    BY <2>1, WaitingFields, CacheAssumption DEF Command, CacheAssumption
  <2>3. Readings(c) /\ Outcome(c)
    BY <2>1, WaitingFields DEF Readings, Outcome
  <2> QED
    BY <2>2, <2>3 DEF ClientOK
<1> QED
  BY <1>10, <1>11, <1>12, <1>13 DEF CInv

(* A client's step, and meddling with the cache, keep the registry's invariant. *)
LEMMA RegistryAlways ==
  ASSUME RInv, [Next]_vars
  PROVE  RInv'
<1>0. used \in [commands : Nat, upsets : Nat]
  BY DEF RInv, RTypeOK
<1>1. ASSUME UNCHANGED <<work, history, registry>>, UNCHANGED used \/ Upset \/ StartCommand
      PROVE  RInv'
  <2>1. used' \in [commands : Nat, upsets : Nat] /\ used'.upsets >= used.upsets
    BY <1>0, <1>1 DEF Upset, StartCommand
  <2> QED
    BY <1>1, <2>1, OthersKeep
<1>2. ASSUME NEW c \in Clients, Client(c)
      PROVE  UNCHANGED <<work, history, registry>> /\ (UNCHANGED used \/ Upset \/ StartCommand)
  BY <1>2 DEF Client, Lock, Install, Restore, Unstarted, Look, FindSource, LookAgain, RenameEntry,
              Record, DigestFile, CopyFile, CrashClient, rvars
<1>3. ASSUME NEW v \in Versions, Purge(v) \/ \E f \in Files : Tamper(v, f)
      PROVE  UNCHANGED <<work, history, registry>> /\ Upset
  BY <1>3 DEF Purge, Tamper, Meddle
<1>4. CASE UNCHANGED vars
  BY <1>1, <1>4 DEF vars, rvars
<1> QED
  BY <1>1, <1>2, <1>3, <1>4, RegistryKeeps, ReplaceStep DEF Next, RegistryStep

\* CInv is inductive relative to RInv.
LEMMA CacheAlways ==
  ASSUME RInv, RInv', CInv, [Next]_vars
  PROVE  CInv'
<1>1. ASSUME NEW c \in Clients, Client(c) PROVE CInv'
  BY <1>1, StartKeeps, LookKeeps, FindSourceKeeps, LookAgainKeeps, RenameEntryKeeps, RecordKeeps,
     DigestFileKeeps, CopyFileKeeps, CrashClientKeeps DEF Client
<1>2. CASE UNCHANGED vars
  <2>1. UNCHANGED <<work, history, lock, reg, pub, done, robbed, used, cache, plock, cl, was,
          meddled>>
    BY <1>2 DEF vars, rvars, registry, packages
  <2>2. TypeOK' /\ Remembered' /\ EntriesTrue' /\ LockIsRestorable'
    BY <2>1 DEF CInv, TypeOK, RTypeOK, Remembered, EntriesTrue, Truth, LockIsRestorable
  <2>3. ASSUME NEW c \in Clients PROVE ClientOK(c)'
    BY <2>1 DEF CInv, ClientOK, Command, Readings, Outcome, Truth, Between, Source
  <2> QED
    BY <2>2, <2>3 DEF CInv
<1> QED
  BY <1>1, <1>2, RegistryStepKeeps, ReplaceKeeps, MeddlingKeeps DEF Next

\* RInv and CInv hold in every reachable state.
LEMMA Invariants == Spec => [](RInv /\ CInv)
<1>1. Init => RInv /\ CInv
  BY Starts
<1>2. RInv /\ CInv /\ [Next]_vars => (RInv /\ CInv)'
  BY RegistryAlways, CacheAlways
<1> QED
  BY <1>1, <1>2, PTL DEF Spec

(* Nothing a process does to the registry or the cache, interleaved in any *)
(* way with the others, with crashes and with changes by hand, gives a     *)
(* file, a lock or a local variable of package.rs a value of another kind. *)
THEOREM PackagesTypeCorrect == Spec => []TypeOK
<1>1. CInv => TypeOK
  BY DEF CInv
<1> QED
  BY <1>1, Invariants, PTL

(* As long as no publisher's lock is robbed, a version whose publication   *)
(* run_publish_package has reported stays in both indexes.                 *)
THEOREM PublicationIsDurable == Spec => []NoVersionLost
<1>1. RInv => NoVersionLost
  BY DEF RInv
<1> QED
  BY <1>1, Invariants, PTL

(* Under the same condition, what an index lists can be fetched, as a tree *)
(* and as an archive with its digest.                                      *)
THEOREM IndexesAreSound == Spec => []IndexedIsFetchable
<1>1. RInv => IndexedIsFetchable
  BY DEF RInv
<1> QED
  BY <1>1, Invariants, PTL

(* publish_cache_entry hashes a tree, copies it and hashes the copy: what a  *)
(* successful command hands on is what its origin was at one moment, though  *)
(* no lock keeps the origin from changing under either reading.              *)
THEOREM CommandsServeSnapshots == Spec => []ServedIsSnapshot
<1>1. CInv => ServedIsSnapshot
  BY DEF CInv, ClientOK, Outcome, ServedIsSnapshot, Truth
<1> QED
  BY <1>1, Invariants, PTL

(* restore_locked_dependencies delivers what the lockfile records, or fails. *)
THEOREM RestoresReproduce == Spec => []RestoreIsReproducible
<1>1. CInv => RestoreIsReproducible
  BY DEF CInv, ClientOK, Outcome, RestoreIsReproducible
<1> QED
  BY <1>1, Invariants, PTL

(* What collect_locked_dependencies writes into ori.lock is a tree of its    *)
(* registry, and still the published one unless somebody meddles, or a tree  *)
(* that the checkout had if ORI_REGISTRY was not set.                        *)
THEOREM LocksRestore == Spec => []LockIsRestorable
<1>1. CInv => LockIsRestorable
  BY DEF CInv
<1> QED
  BY <1>1, Invariants, PTL

=============================================================================

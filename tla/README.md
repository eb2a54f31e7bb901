# A TLA+ verification of amber-store-core

amber-store-core is a content-addressed object store: immutable objects, named by
their hash, form Merkle trees (files, directories, xattrs); *references* name the
roots somebody still wants; a concurrent mark-and-sweep collector deletes the
rest. This directory holds TLA+ models of the parts where concurrency, I/O
failures and crashes meet and of the path of a tree into the store and out of it,
TLC runs that check them on small instances, and TLAPS proofs, for every instance,
about the collector, the write path on disk, the lifetime of segments, the inbox, the
parallel writer with the build and the packs that feed it, the tree builders, and
restore.

`PROJECT.json` maps every definition to the lines of the code it models, and lists
runs, mutants, findings, hazards and theorems.

## 1. Inventory

| Part | State | Operations | Interacts with | What is hard | What makes it correct |
|---|---|---|---|---|---|
| collector (`gc/collector.go`, `cycle.go`) | `cycleMu`, `refLock`, cancel function | `Run`/`cycle`, `PrepareRef`, `Wipe`, `Close`, `Status`, `Why` | packstore (mark set, barrier, Compact), refstore | a mark that runs while objects are written and references put | an accepted reference never dangles; cycles end; garbage goes |
| write barrier (`packstore/barrier.go`) | `capturing`, `grey` | `BeginBarrier`, `observe`, `ObserveKeys`, `takeGrey`, `AbortBarrier` | every writer; Compact | observe, `Has` and append are three steps | what was observed under the barrier survives the sweep |
| mark set (`packstore/markset.go`) | bits over a snapshot of segments | `NewMarkSet`, `Mark`, `Contains` | reads mmaps with no pin | the snapshot is taken after the lock is released | all reachable keys have a bit |
| compaction (`packstore/compact.go`) | victims, copies in flight | `Liveness`, `Compact` | append path, probe list | copy, fsync, detach, unlink can each fail or be cut by a crash | no live record is lost |
| append path, seal, recovery (`packstore/packstore.go`, `recover.go`) | active segment, probe list, sticky `failed`, files | `Put`, `WriteBatch`, `Wipe`, `Open`, `Close` | file system | fsync failures, torn writes, crash between any two calls | acknowledged objects are durable; the store always opens |
| parallel writer (`packstore/parallel.go`, `prepare.go`) | channel, seen set, error group, context | `WriteParallel` | ingest or inbox as producer, append path, barrier | errors cancel siblings blocked on channels; dedup hits on another run's unsynced records | success means all of the input is durable; a failure leaves a durable prefix and its cause |
| segment footer (`packstore/footer.go`) | fanout, index, filter | build, parse, search | seal, reads | binary layout | found iff present |
| segment lifetime (`packstore/gc.go`, `verify.go`) | probe list, `scrubN` | `Verify`, `ScanIndex`, `Record`, `Remove`, `Segments` | everything that unmaps | lock-free mmap walks against munmap | no read after munmap, one munmap per mapping |
| inbox (`inbox/`) | queue, per-root counts, directory | `Stage`, `Commit`, `Discard`, `WaitFor`, workers, `Close`, recovery | packstore | two commits of one body; lost wakeups; crashes | no committed pack is lost; `WaitFor` is a barrier |
| reference store (`refstore/`) | name -> record (embedded database) | `Put`, `Get`, `Delete`, `All`, `Wipe` | collector, commands | - | single atomic operations |
| reference commands (`cmd/amber-store/ref.go`) | - | `putRef`, `rmRef` | collector, refstore | the order prepare, put, commit | reference accepted only over a complete tree |
| tree walks (`fstree/checkcomplete.go`, `reachable.go`, `children.go`) | visited set | `CheckComplete`, `ReachableKeys` | packstore reads | walking while objects move | visits exactly the closure |
| parallel build (`ingest/parallel.go`, `ingest.go`) | pool, wait groups, channel, `*root` | `Objects`, `Dir` | driver, `WriteParallel` | recursion on a bounded pool; a consumer that stops early | children before parents; always ends; no goroutine stays |
| tree builders (`fstree/index_builder.go`, `dir_builder.go`, `chunkers/item.go`, `ingest/driver.go`) | open runs per level | `AddEntry`, `AddChild`, `Finish`, `buildEntry`, `buildFile` | emit sink | runs that end exactly at a cut point, lone items below the top | a closed tree of bounded objects, whatever the cut points |
| tree reads (`fstree/lookup.go`, `list.go`, `collect.go`, `content.go`, `spec.go`, `ls.go`) | - | lookups, pages, walks | packstore reads | boundaries between leaves, names that do not exist | find exactly the source |
| pack stream and records (`amberpack/`) | position | `Writer`, `Reader` | inbox, packstore | truncation that looks like an end | a cut or damaged pack yields an error |
| export, extract, restore (`tarexport/`, `tarextract/`, `restore.go`) | pipe, deferred directories, the destination | `restore` | tree reads, file system | metadata that later calls disturb; errors across the pipe | success means the tree was recreated, and nothing else touched |
| ignore files, scan, other commands, progress, benchmark | - | matching, I/O, printing | - | - | - |

Goroutines of several kinds share a packstore: uploads, reference PUTs, a
collector cycle, inbox workers, scrubs, and the maintenance calls. The locks are
`refLock` (PUTs shared, a cycle's root snapshot and sweep exclusive), `cycleMu`
(one cycle, or `Wipe`), `appendMu` (all that writes or removes segments), `mu`
(the probe list), and `scrubMu` with a condition variable.

## 2. Modules

| Module | Models |
|---|---|
| `GC` | one collector cycle against uploads, reference PUTs and deletes |
| `LiveStore` | the abstract specification: what the store promises its users |
| `GCProofs` | theorems about `GC` |
| `PackStore` | the write path on a file system with failures, kills and power losses |
| `PackStoreProofs` | theorems about `PackStore` |
| `SegmentLifetime` | who reads, detaches and unmaps sealed segments |
| `SegmentLifetimeProofs` | theorems about `SegmentLifetime` |
| `Inbox` | the inbox with clients, workers, crashes and recovery |
| `InboxProofs` | theorems about `Inbox` |
| `Ingest` | the parallel tree build and its hand-over channel |
| `PackStream` | the writer and reader of a wire pack |
| `WriteParallel` | the parallel writer, composed with `Ingest` and `PackStream` as producers |
| `IngestProofs`, `WriteParallelProofs` | lemmas about the build, theorems about the run |
| `TreeWrite` | the abstract specification of one ingest or upload |
| `TreeBuilder` | the builders of directory and file trees |
| `TarRestore` | export, pipe and extraction of the restore command |
| `RoundTrip` | a source tree built with `TreeBuilder` and restored with `TarRestore` |
| `RoundTripProofs` | theorems about `RoundTrip` |
| `FsTree` | lookups, listings and paths in a built tree |
| `RoundTripReads` | what the reads of `FsTree` answer about the trees of `RoundTrip` |
| `NaturalsLemmas` | what several proofs use of the naturals |
| `MCGC`, `MCPackStore`, `MCSegmentLifetime`, `MCInbox`, `MCWriteParallel`, `MCRoundTrip` | instances for TLC |

A definition whose comment begins with "Mutant:" is not part of a specification:
it is a plausible wrong version of the definition after it, which TLC must reject
(section 4).

### GC

State: sealed segments as sets of keys (`seg`), those past the grace period
(`old`), the active index, the references, the barrier (`capturing`, `grey`), and
the local state of each upload (`wpc`, `wkey`), each PUT (`ppc`, `proot` and the
breadth-first walk `pfront`, `pnext`, `pseen`) and the cycle (`gpc`, mark set
`snap`/`marked`, stack `work`, and the sweep's `eligible`, `kept`, `victims`,
`pending`). `wphase` and `confirmed` are history variables.

An upload takes three steps per object without a lock between them: `observe`,
`HasHit`/`HasMiss`, `append`. A PUT takes the shared lock (`PrepareRef`), looks up
one key per step (`CheckFound`, `CheckMissing`), hands the closure to the barrier
(`ObserveKeys`), stores the record (`PutRef`) and releases (`Commit`). The cycle is
`Run`, `BeginBarrier`, `Roots`, `NewMarkSet` (after the lock is released), one
`Mark` per popped key, `LockSweep`, `Compact`, one `copyLive` per record and
`removeVictims`; every step that can fail or be cancelled has a failing twin.

Abstractions: a record weighs 1; crashes are in `PackStore`; a segment id is a
slot that is reused after removal (the code counts up). `RefLockBusy` models Go's
RWMutex, which admits no reader once a writer waits. In the code the mark reads a
key's payload after marking it; the model does both in one step, which is sound
because only this cycle removes objects.

### LiveStore

Objects are stored and may be reaped, references accepted and dropped. `Accept`
needs the complete tree; `Reap` takes only objects no reference reaches.
`GC!Live` maps `stored` to the keys of all segments and `Reach` to the closure.

### PackStore

Each file has records, a durable subset (`synced`), records whose dirty pages a
failed fsync dropped (`dropped`), a footer that is absent, cached, dropped or
durable, and possibly bytes of a failed write behind its end (`junk`). The
directory is what the process sees (`dir`) together with every state a power loss
may leave (`dirStates`). `appendLocked`, `syncActive` and `sealActiveLocked` are a
chain of steps under `appendMu` (`mpc`), each of which can fail; `Return` gives the
result to the caller. Around it are `WriteBatch`, `Put`, `Compact`, `Wipe`, `Close`,
`Kill`, `PowerLoss` and `Open` with `recoverActive`.

Assumptions about the file system: directory operations reach the disk in order;
a failed fsync may drop dirty pages, which later fsyncs do not write; a power loss
keeps any subset of what is not durable. Further:

- `ReopenDirty = FALSE` in the passing run: the store is not reopened over a page
  cache that holds something no fsync has made or will make durable (`MayOpen`,
  `CacheClean`). The code opens there all the same: `AckedStored`, `OpenNeverCorrupt`
  and `SealedDurable` are claims about stores that are not reopened like that, and all
  three fail without it (finding 1).
- Unlinking an active segment's file succeeds. Were it to fail in `createActive`
  or `Wipe`, the code goes on, the next append creates a second `.seg.active`, and
  `load` refuses the directory from then on. Unlinking a sealed file may fail.
- No write overlaps `Compact`, as `Compact` demands of its caller. The collector
  does let writes overlap; `GC` models that.
- An acknowledgement counts (`acked`) when `WriteBatch` returned, or `Put` wrote the
  record itself. `Put` documents that a dedup hit does not fsync.
- Victims are any sealed segments with dead records; `GC` has the selection line.
- `stray` (history) holds the files that a failed call left behind: a victim that
  `removeVictims` could not unlink, and all that a `Wipe` which returned an error left.
  They are outside the store until the next `Open` finds them again. `WipeErases` is
  about every other file.

### SegmentLifetime

The probe list `sealed`, the mappings `mapped`, `scrubN`, and for each caller that
takes segments out (`Remove`, `Wipe`, `Close`, and the cycle's sweep) its control
state and the segments it owns. All of them do the same: take `appendMu`, ask for
`mu` (`pc = "lock"`, new readers wait), `Detach`, `waitScrubs` (asleep on the
condition variable until the last `endScrub`), `Unmap` one by one, return. The
cycle's mark and copy read mmaps with neither lock nor pin, as does `Status`.
Contracts of the callers: the collector is closed before the store, and `Remove`
is not called under a mark.

### Inbox

The directory (`dir`, `dirStates` as in `PackStore`), the queue, the counts per root,
the condition variable as processes that are asleep until a broadcast, two kinds
of processes (clients: `Stage`, the four steps of `Commit`, `WaitFor`; workers:
`Take`, `OpenEntry`, `WriteEntry`, `RemoveEntry`, `quarantine`, `Finish`), `Close`,
`Kill`, `PowerLoss`, and `recover` with `recoverQuarantine` for an entry it cannot
read. An entry is named after its body, so two clients
may commit the same file under different roots. The packstore is external: a
write that succeeds is durable.

### Ingest, PackStream, WriteParallel, TreeWrite

`Ingest`: each path of the source has one build call with a control state `bpc`; a
directory's loop offloads an entry when the pool `sem` has a slot and else builds it
inline, waits (`Joined`), and emits its own objects. The loop after `wg.Wait` tests
`errs[i]` entry by entry while it adds them, so that a directory with a failed entry
emits the leaves and index nodes over the entries before it, then returns that error
(`Refused`, `EntryFailed`). `built` is the channel of `objects`, `stop` its context.
Which objects a node emits, and by the addition of which entry, are constants here
(`Objs`, `Upto`); `TreeBuilder` says how they come about.

`PackStream`: a pack is a sequence of units, what arrives is any prefix of it or the
pack with one unit damaged; the reader takes one unit per step.

`WriteParallel`: `dpc` is the distributor, `wpc` the workers, `ch` the channel between
them, `egErr` the error group. A worker takes an object, claims its key in `seen`, asks
`Has`, prepares, appends and fsyncs after `BatchSize` records, each as a step of its
own; any of them may fail, which cancels the run first and reports to the group
later. The store is `stored`, `durable` and `failed` (what `PackStore` works out in
detail); another run appends to it, a full segment is sealed by an append, and
`CloseStore` may come at any time. The call returns after `GroupEnded` and
`FinalSync`. History: `mine`, `faults`.

`TreeWrite` says the same call needs no goroutines: objects become durable, and it
may succeed only with an intact input all of whose objects are durable.
`WriteParallel!TW` maps `wanted` to the objects of the tree or the pack and `intact`
to no read having failed, or the stream being whole.

### TreeBuilder, TarRestore, RoundTrip, FsTree

A key is identified with the object it is the hash of, a name with a number, a chunk
with a value. Whether the hash of an item ends a run is a free choice, made when the
item is first hashed and kept in `cut`, so that one run covers every placement of cut
points. `call` is the pending recursive `ib.add`; `fin` the level `Finish` has reached.

`TarRestore` has the exporter's stack of entries, directories and chunks (`work`), the
synchronous pipe, and `Extract` with the file system below the destination (`fs`). The
kernel's part is external: creating an object changes its directory's mtime and needs
write permission unless run by root, `chown` clears setuid, a name below a symlink is
created elsewhere (`escaped`). Paths are sequences of names; the destination is the
argument as given, a sequence of parts, because `safeJoin` compares it unclean.

`RoundTrip` builds the nodes of a source one by one, children first, then runs
restore on the result. It is sequential up to there: the schedules of the build are
in `Ingest`. A scenario fixes the source, what is below the destination before, who
restores, and the destination. `ScenarioAssumption` says of it that both are trees (a
path leads through directories), that files consist of chunks, and that directories
which are there before belong to whoever restores, who may write and search them, and
have no extended attributes. Files of every other kind may be in the way.

`FsTree` has the reads as recursive operators over whole trees; `RoundTripReads` asks
them about every tree that `RoundTrip` builds.

## 3. What the runs check

| Run | Instance | Properties and what they show |
|---|---|---|
| `gc_safety` | a tree of two objects whose leaf can be a root too, 1 name, 2 uploads, 3 slots, all failures | `NoDanglingRef`: every object of every accepted reference is readable. `MarkNeverMissing`: `markFrom` never meets its "missing from store" error. `BarrierKeepsWrites`: a key observed under the barrier and reported stored survives that sweep. `LiveSpec`: the collector implements `LiveStore` |
| `gc_liveness` | 2 slots, 1 upload, no failures | `CycleEnds`: PUTs cannot hold a cycle off the lock. `GarbageReclaimed`: a segment of garbage only, exactly at the line, is deleted |
| `packstore` | 2 keys, 2 writers, 2 files of 2 records | All of a store that is not reopened over a dirty page cache. `AckedStored`: acknowledged objects are found by every later session. `OpenNeverCorrupt`: failures and crashes leave no directory that `Open` refuses. `SealedDurable`: a published segment is whole on disk. `WipeErases`: a successful `Wipe` is durable and complete, even after a seal that failed half way |
| `packstore_reopen` (violation) | the same, `ReopenDirty` | `AckedStored`: see findings |
| `lifetime` | 2 segments, 2 scrubs, 1 reader, 2 callers, the cycle | `ReadsMapped`: nothing is unmapped under its reader. `MappedOnce`: every mapping has one owner. `CloseReturns`: `Close` ends |
| `lifetime_status` (violation) | | `StatusReadsMapped`: see findings |
| `inbox` | 1 body, 2 roots, 2 clients, 2 workers | `NoPackLost`: a committed pack is stored, set aside, or in the inbox. `GroupsExact`: the counts equal the queued and running items. `BarrierHolds`: after a `Commit` that added the entry, `WaitFor` means it was processed |
| `inbox_liveness` | 1 root | `WaitForEnds`, `CloseEnds`: no lost wakeup, no count left behind |
| `inbox_duplicate` (violation) | | `BarrierCoversEveryCommit`: see findings |
| `write_parallel` | a tree of 5 nodes: a root with a leaf for each of its two entries, two equal attribute sets, files without content; or 4 packs with any truncation or damage; 2 workers, pool, channels of 1, batches of 2, all failures | `TreeWriteSpec`: the call implements `TreeWrite`. `ChildrenFirst`: under every schedule of the pool and every failure, a leaf or index node comes after all objects of the entries under it. `PrefixDurable`: what a failed run appended is durable. `NothingLeftRunning`: no goroutine outlives the call. `CauseReported`: the error is one that happened, never the cancellation. `StatsExact`: every object is counted once. `RunEnds`: the call returns |
| `roundtrip` | directories of 0 to 12 entries and files of 0 to 12 chunks with `MaxRun` 8, and a tree with every kind of entry; restored by root and not, into 5 destinations, all failures | `EmittedClosed`, `NoDegenerateNode`: the tree is closed and its runs bounded. `LookupsExact`, `PagesExact`: every lookup, also of absent names, and every page from every start. `RestoreExact`: success means the tree is there. `ExportErrorSurfaces`, `DestinationRespected`, `NoSpuriousFailure`, `RestoreEnds` |
| `restore_dest` (violation) | the same, destination `./dest`, `dest/` | `NoSpuriousFailure`: see findings |

Deadlock is checked in every run.

**Bounds.** In `GC`, `Slot` bounds the segments that exist at once and `Reserve`
keeps slots free for the sweep's copies, so that a full store is not mistaken for a
stuck sweep: two segments can exist while one is rewritten. Two objects suffice for
a tree with a child that other references share; two uploads for one that relies on
what the other wrote. `GCProofs` removes these bounds for safety. In `PackStore`,
`File` bounds the files ever created: a seal followed by a second active file, or a
victim and its copy; creating one more fails as an I/O error would. In `Inbox`,
`MaxWork` stops new uploads while an item is queued; one body with two clients is
what makes commits collide, and two workers on it race for the file. In
`SegmentLifetime` two segments let two calls own different segments; three
segments have been checked as well (2 million states).

In `MCWriteParallel` one slot makes both ways of building an entry happen at two
levels, the second entry of the root can fail before or after the leaf over the first is
emitted, channels of one block both sides, and two workers with a repeated key race in
`seen`; the code's capacities (twice the workers or jobs) block later and no
differently. In `MCRoundTrip`, `Bits = 1` gives runs of 2 to 8, so that 12 items reach
three levels of the index when cut often and a run closed by `MaxRun` when never cut.
Names are even, so that the odd numbers are absent names between them. Directories of
the mixed tree are writable, read-only or not searchable.

**Symmetry** is used in runs without liveness properties, over slots, keys, writers,
clients, workers and roots, which the specifications treat alike.

**Fairness.** Weak fairness of the steps of a goroutine that can run: the cycle, a
PUT that holds the lock, an inbox worker, a woken `WaitFor`, a reader, a scrub, and
a call that holds its locks. For `GC` also that time passes (`Age`) and that the
background loop starts cycles (`Run`). Nothing is assumed of clients: uploads, PUTs
and commits may stop anywhere between calls. Acquiring `refLock` exclusively needs
no strong fairness because a waiting writer keeps new readers out. In
`WriteParallel` every build call, the distributor, each worker and the caller are
fair, failures, the other run and `CloseStore` are not; in `RoundTrip` the build, the
export goroutine and the extractor.

## 4. Mutants

For every property of a passing run `PROJECT.json` names a mutant: the definition it
replaces and the wrong version, for example not handing a PUT's closure to the
barrier (`ObserveNothing`), an exclusive garbage line (`selectVictimsAbove`), a
failed fsync that does not poison the write path (`PoisonForgotten`), a rename
before the footer's fsync (`FooterNotSynced`), an unregistered scrub
(`VerifyUnregistered`), a decrement without broadcast (`FinishSilently`), a final
fsync only when something was stored (`FinalSyncOfAppends`), a blocking send on the
pool (`InlineNever`), a separator compared strictly (`ChildAfter`), the owner set after
the mode (`applyMetaChownLast`). TLC finds each of them violating its property.

## 5. Findings

1. `packstore_reopen`: `recoverActive` resumes a leftover `.seg.active` without an
   fsync of the directory or the file. If the process died between creating the file
   and the directory fsync, a later power loss removes the file with everything
   acknowledged in it.

   Of the same family, and without a run of its own: `OpenNeverCorrupt` is violated in
   this instance too. A process is killed between writing the footer and its fsync;
   `Open` finds a complete footer (in the page cache), takes it for a seal that crashed
   before its rename, renames the file and fsyncs the directory but not the file
   (`packstore.go:244-252`); a power loss keeps the durable name and drops the footer; the
   next `Open` meets a `.seg` without a footer and returns `ErrCorrupt`, and so does every
   one after it. With `INVARIANT OpenNeverCorrupt` in `MCPackStore_reopen.cfg` TLC finds
   these steps in a behaviour of 14 states: `Put` of one record, `Compact`, `WriteFooter`,
   `Kill`, `OpenRenames`, `PowerLoss`, `Open`. A reopen over pages that a failed fsync
   dropped is a third case.
2. `lifetime_status`: `Status` marks over unpinned mmaps outside the cycle slot; a
   sweep or a wipe unmaps them under it.
3. `inbox_duplicate`: `Commit` makes the file visible before it counts it. A second
   `Commit` of the same body returns at once, and its `WaitFor` finds a count of zero.
4. `restore_dest`: `safeJoin` compares the cleaned path of an entry with the destination
   as it was given. `./dest`, the form the repository's README uses, `dest/` and `.` are
   no prefix of any cleaned path, and restore refuses the first entry.

Observations from reading and modelling that have no run of their own:

- `Compact` drops the grey set before it selects victims while uploads go on, so a
  dedup hit that lands during the sweep can be reaped. The design document describes
  only hits before the barrier as exposed. A later reference PUT notices (its walk
  fails), so no reference dangles: `NoDanglingRef` covers this interleaving.
- `Collector.Wipe` does not take `refLock`: a PUT whose walk ended before the objects
  were wiped can store its reference after the references were.
- `Inbox.Commit` after `Close` is accepted, and its `WaitFor` never ends. The safety run
  includes such commits, the liveness run excludes them (`LateCommit`).
- `PrepareRef` checks that objects are visible, never that they are durable.
- `Extract` applies the metadata of directories parents first. Run by another user than
  root, a directory its owner may not search hides its subdirectories from the rest of
  that pass, and restore fails (`Unsearchable` in `RoundTrip`).
- Run by another user than root, the extended attributes of a read-only file are
  skipped, because the mode is set before them.
- When `Extract` fails `runRestore` returns without closing the reading end, and the
  export goroutine stays blocked on the pipe until the process exits.

## 6. Proofs

Every theorem holds for all values of the constants that satisfy the module's named
assumptions; TLC evaluates the same assumptions in its runs. The inductive invariants
were first checked by TLC as invariants of the component's run, except for the parts
of `RoundTripProofs` that say that something exists (see there).

### Collector: `GCProofs`

For every set of keys, every child relation (cycles included), any number of names,
uploads and segments, every segment size and garbage line, with or without failures:

| Theorem | Statement |
|---|---|
| `TypeCorrect` | `Spec => []TypeOK` |
| `Invariance` | `Spec => []IndInv` |
| `NoDangling` | `Spec => []NoDanglingRef` |
| `MarkMeetsNoHole` | `Spec => []MarkNeverMissing` |
| `BarrierHolds` | `Spec => []BarrierKeepsWrites` |
| `Implements` | `Spec => LiveSpec` |

Assumptions: `NoRoot` and `NoKey` are not keys, `Children` maps keys to sets of keys,
the bounds are numbers (`KeyAssumption`, `ChildrenAssumption`, `BoundAssumption`).

`NoDanglingRef` is not inductive: that a sweep keeps a referenced tree depends on
what the mark, the barrier and the PUT's walk have established earlier. `IndInv`
adds

- `LockInv`, `CaptureInv`: no PUT is under way in an exclusive phase; the barrier
  captures exactly from `BeginBarrier` to `takeGrey`;
- `PutInv`: what a PUT has visited and is not about to look up is stored with its
  children visited; a finished walk under a marking cycle is grey. It survives
  because a PUT holds the shared lock, so no sweep runs meanwhile;
- `MarkInv`: marked keys have their children marked or on the stack, and the closure
  of the stack is stored and in the snapshot;
- `RootInv`: every referenced tree is entirely grey, or its root is marked or on the
  stack. This covers references accepted after the root snapshot;
- `SweepInv`: a live record of a victim has a survivor or is still to be copied;
- `BarrierInv`: what an upload observed under the barrier is grey, then kept.

At the removal the lemmas meet: `LiveCovers` (the closure of each reference lies in
marked and kept keys, by leastness of the closure, `ClosureLeast`) and
`CopyComplete` (with nothing pending every stored live key has a survivor).
`LiveStep` shows that every step is a step of `LiveStore` or leaves it unchanged.

### Write path: `PackStoreProofs`

For any number of keys, writers and files and every segment size:

| Theorem | Statement |
|---|---|
| `PackInvariant` | `~ReopenDirty => (Spec => []IndInv)` |
| `PackTypeCorrect` | `~ReopenDirty => (Spec => []TypeOK)` |
| `AckedAlwaysStored` | `~ReopenDirty => (Spec => []AckedStored)` |
| `NeverCorrupt` | `~ReopenDirty => (Spec => []OpenNeverCorrupt)` |
| `SealedAlwaysDurable` | `~ReopenDirty => (Spec => []SealedDurable)` |
| `WipeErasesAll` | `~ReopenDirty => (Spec => WipeErases)` |

`~ReopenDirty` says that `Open` meets a clean page cache (`CacheClean`), the case after
every power loss and after the `Close` of a store on which no call has failed. It is not
the case after every kill, and none of these theorems is claimed there: the run
`packstore_reopen` shows `AckedStored` failing, and finding 1 says how `OpenNeverCorrupt`
does. `PackAssumption` says that ids are positive, a segment holds a
record at least, `NoKey` is no key, and the names of lock holders are distinct.

That acknowledged objects are found is not inductive, because between two sessions
nothing is published at all. The invariant that carries it over is `AckedDurable`:
every acknowledged record lies in the durable prefix (`Solid`) of a file that exists in
every directory a power loss may leave (`Safe`), and that the next session will publish.
The rest says why each step keeps this:

- `Holder`, `Idle`: who holds `appendMu`, at which of its own steps, with which
  arguments, and that nothing runs on a store that is down or has failed;
- `Directories`: in every directory that a power loss may uncover there is one active
  file at most and a durable footer in each sealed one (so `load` accepts it);
- `Pages`: durable and dropped records are disjoint, and a durable footer follows an
  fsync that reached all records that were not dropped;
- `ActiveFile`, `SealedNamed`, `Recorded`: the active file's name, footer and pages at
  each step of the seal, and the record of the call in it;
- `YieldedStored`: a batch's earlier keys are still stored when its last fsync
  acknowledges them all, also those that a seal or another writer has moved on;
- `Victims`, `Copied`: up to the detach an acknowledged record of a victim has a
  survivor or is queued; after the fsync the survivors have it durably;
- `Attached`: every file on disk is published, in the making, in `Wipe`'s or
  `Compact`'s hands, or left by a failed call. `WipeErasesAll` follows from it.

`LeftValue` is about recovery: whatever subset of the unsynced pages a power loss keeps,
`scanActive` resumes with at least the durable prefix. Proving `WipeErases` for all
instances showed that its history variable was too generous (it excused a file as soon
as its own removal had failed, although `Wipe` then returns an error anyway); now only
calls that have returned an error excuse a file.

### Segment lifetime: `SegmentLifetimeProofs`

For any number of segments, scrubs and callers: `LifetimeTypeCorrect` (`[]TypeOK`),
`NoReadAfterUnmap` (`[]ReadsMapped`) and `OneOwnerPerMapping` (`[]MappedOnce`).
`LifetimeAssumption`: scrubs are finitely many, and the cycle is none of the other
callers. `ReadsMapped` needs `ScrubsCounted` (`scrubN` is the number of walks, and only
walks have pins), `UnpinnedUnmap` (once a caller has seen the counter at zero after its
detach, no pin is on what it owns), `ClosedDrains` and `CycleAlone` (while the cycle reads
without a pin nobody waits for `mu`, so that nobody can detach its snapshot).

### Inbox: `InboxProofs`

For any number of bodies, roots, clients and workers: `InboxTypeCorrect` (`[]TypeOK`),
`NoPackEverLost` (`[]NoPackLost`), `GroupsAlwaysExact` (`[]GroupsExact`) and
`WaitForIsABarrier` (`BarrierHolds`, an action property). `InboxAssumption`: bodies and
workers are finitely many (the counts are cardinalities), clients are not workers.
`NoPackLost` needs `CoveredOnDisk`: every directory a power loss may leave accounts for
every committed pack, from the step after `syncDir` on, and a worker removes a file only
after the store has its pack. `WaitForIsABarrier` needs `AddedPending`: what a client's
own `Commit` queued is settled, queued or in a worker's hands under its root, so a count
of zero means settled.

### Parallel writer: `WriteParallelProofs`, `IngestProofs`

For every source tree, every set of packs, any number of workers and pool slots, any
channel and batch sizes: `RunTypeCorrect` (`[]TypeOK`), `ChildrenAlwaysFirst`
(`[]ChildrenFirst`), `PrefixAlwaysDurable` (`[]PrefixDurable`), `NothingEverLeftRunning`
(`[]NothingLeftRunning`), `CauseAlwaysReported` (`[]CauseReported`), `StatsAlwaysExact`
(`[]StatsExact`) and `ImplementsTreeWrite` (`TreeWriteSpec`, the refinement). Assumptions: the source is a tree
(`TreeAssumption`: a node is an entry of one directory, once, and everything hangs on
the root), directories and the root emit an object at least, a directory emits in the order
of its entries and its last object after all of them (`UptoAssumption`), there is a
worker, and capacities are positive.

`CallTree` and `CallResults` (in `Ingest`) describe the tree of build calls: a directory
stays in its loop while an entry is being built, emits only after the join, and the calls
for all entries under the last object it has emitted have succeeded. `Published`, `ReaderInv` and `EndsClean` say what a producer
leaves when it ends; `ErrorsReach` that an error is in the group or on its way, and that
cancellation has one as its cause; `NothingDropped` that, without a failure, each object
emitted is in a channel, in somebody's hands, or claimed in `seen`, and each claimed key is
stored or in its claimer's hands. With `SyncedAtEnd` this gives the refinement: at a
success nothing is in flight, so all of the input is stored, and the last fsync made it
durable.

`StatsExact` needs `CountInv`: without a failure the objects handed out, told apart by
the node and the position they were emitted at, are as many as those in the channels, in
the hands of the distributor and the workers, and counted (`AllCounted`); and the objects
counted as stored, with those in the hands of a worker that claimed their key, are no
more than the keys claimed (`ClaimsCounted`).

### Build and restore: `RoundTripProofs`

For every source tree and every content of the destination that `ScenarioAssumption`
admits, every parameter of the item chunker, every outcome of its hashes, run by root or
not, with or without failures:

| Theorem | Statement |
|---|---|
| `BuildInvariance` | `Spec => []BuildInv` |
| `EmittedAlwaysClosed` | `Spec => []EmittedClosed` |
| `NeverDegenerate` | `Spec => []NoDegenerateNode` |
| `MeaningInvariance` | `Spec => []MeaningInv` |
| `RestoreInvariance` | `Spec => []RestoreInv` |
| `AlwaysRestoresExactly` | `Spec => []RestoreExact` |
| `ErrorAlwaysSurfaces` | `Spec => []ExportErrorSurfaces` |
| `DestinationAlwaysRespected` | `Spec => []DestinationRespected` |
| `TypeCorrectness` | `Spec => []TypeOK` |
| `FailsOnlyForAReason` | `CleanDestinations` implies `Spec => []NoSpuriousFailure` |

The builders. `BuildInv` says that no run is ever full (`Bounded`), that a call of `add`
waits only above empty levels and `Finish` has left nothing behind it (`Settled`), that
attribute sets precede the entries that name them (`Spilt`), that every object's
children precede it (`Closed`), and that the last object emitted is the last item held
(`Tip`), which is why the key `Finish` returns is the last one emitted.

What a tree stands for. The content of a key is a recursion over a tree of any depth.
`MeaningInv` states it without one: there is a function `f` that gives each key a
sequence of entries or chunks and satisfies the recursion equation at every key
(`Denotes`); the key of each finished node stands for the content of that node
(`Knows`); and in the builder at work the concatenation of what its levels stand for,
the highest first, followed by the items it has yet to get, is the content of its node
(`Holds`). A new object extends `f` by one key. However the cut points fell, no entry is
thus lost, repeated or moved by a run that is closed, promoted or finished.

The restore. `RestoreInv` has three parts:

- `ExtractInv`: what is below the destination is what was there or a node of the tree,
  in the state the calls so far have left it in (`Placed`); every header in `dirs` is of
  a directory that is there (`Deferred`); the pipe and its two ends agree about who has
  failed or ended (`Units`, `Ends`);
- `Exports`: the exporter's stack stands for what has not been sent. Its contents
  yield the rest `D` of the file at hand, and every node that is not sent is on the
  stack, in the directory being read, or below a node that is not sent (`Owes`). With
  an empty stack nothing can be left out, because a shortest path left out has a parent
  that was not;
- `Live`: while the command runs, parents were seen before children (`Sent`), the file
  being copied, the unit in the pipe and `D` together are its data (`Streamed`), and
  each node seen is there, a directory possibly still without its metadata (`Arrived`).

At the trailer everything has been sent, and the last pass over `dirs` turns `Arrived`
into `RestoreExact`. `DestinationRespected` and `ExportErrorSurfaces` are read off
`Placed` and `Ends`.

`CleanDestinations` says that `filepath.Join` leaves the destination as it was given.
It holds of the destinations of the run `roundtrip` and fails for those of
`restore_dest`, which shows that `NoSpuriousFailure` needs it. No other theorem does.

TLC checked `BuildInv` and `ExtractInv` on the instance of `roundtrip`. `MeaningInv`,
`Exports` and `Live` begin with an existential quantifier over functions or sequences
that TLC cannot enumerate; here the proof is the only check.

### How induction over data is avoided

The library's induction theorems take an operator as a parameter, which the provers at
hand cannot instantiate. Where a recursive function or a fold has to be reasoned about
(`Kept` in `PackStore`, the fold that frames a pack in `PackStream`, the concatenation of a
sequence of sequences), the proofs use the least counterexample: `LeastNat` gives the
least index at which the statement fails, and the recursion contradicts it. That the
function exists is proved the same way (`KeptExists`, `IterExists`).
Properties of whole trees use leastness of a closed set in place of induction
(`ClosureLeast` in `GCProofs`, the third conjunct of `TreeAssumption`), or a function
that satisfies the recursion equation and grows with the tree (`Denotes`).

### Only model-checked

- `CycleEnds`, `GarbageReclaimed`, `CloseReturns`, `WaitForEnds`, `CloseEnds`, `RunEnds`,
  `RestoreEnds`: liveness needs fairness and `ENABLED`, outside the prover's fragment.
- `LookupsExact` and `PagesExact` of `RoundTripReads`: lookups and listings recurse over
  trees of any depth with `RECURSIVE` operators, for which the prover has no induction.

## 7. Not modelled

- Byte formats: footer layout with its fanout search and filter, CBOR, compression,
  CRC, reference records, keys. A torn or corrupt record is a lost one in `PackStore`
  and junk in `PackStream`.
- `WithSync(false)`, which promises no durability.
- Copy throttle, free-space probe (a cycle's line is any of `Lines`), `Why`, and the
  in-flight write tokens, which no code in the repository reads.
- `Collector.Wipe` against reference PUTs; its munmap side is in `SegmentLifetime`.
- The byte chunker (a file is the chunks it yields), `Scan` (it counts files with the
  same fan-out as the build and writes nothing), `Missing` (a read-only loop over `Has`).
- Ignore files: pattern matching. Progress, rendering, flags and the benchmark.
- Unsafe entry names (`..`, `/`, absolute paths), which `safeJoin` and the exporter
  refuse: the names of a tree that was read from a directory are none of these.
- Encoding and decoding errors of trees: the builders make no undecodable object, and
  packs of other origin are checked by `CheckComplete` before they are referenced.
- The embedded database under `refstore`: its operations are atomic steps.

## 8. Status and plan

All models that were planned are there, and every safety invariant and action property
that a passing run checks is proved for all instances, `LookupsExact` and `PagesExact`
excepted. What a next step would take up, in order:

1. `LookupsExact` and `PagesExact`: `MeaningInv` already says which entries a key stands
   for, in order. What is missing are the separators (an item's `sep` is the last name
   below its child) as a further part of `Denotes`, and the reads as recursive functions
   over the levels of a tree.
2. A composition of `GC` with `PackStore`, for a reference accepted over objects that are
   visible and not yet durable.

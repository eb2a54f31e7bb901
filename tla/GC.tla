--------------------------------- MODULE GC ---------------------------------
(***************************************************************************)
(* The mark-and-sweep collector of package gc over the segments of a       *)
(* packstore: one cycle (gc/cycle.go) against object writes, reference     *)
(* PUTs and reference deletes that run concurrently with it.               *)
(*                                                                         *)
(* Objects are keys of a Merkle DAG given by Children.  A segment is its   *)
(* set of keys: record bytes, checksums and file names are abstracted      *)
(* (every record weighs the same), so are fsync and crashes, which         *)
(* PackStore models.  Segment ids are slots: the code never reuses an id,  *)
(* the model reuses the slot of a segment that has been removed.           *)
(*                                                                         *)
(* appendMu is implicit: an append is one step, and uploads do not append  *)
(* while the collector is inside Compact, which holds appendMu throughout. *)
(***************************************************************************)
EXTENDS Naturals, FiniteSets

CONSTANTS
  Key,          \* object keys
  Children,     \* Children[k]: the keys the payload of k names
  Name,         \* reference names; calls for one name are serialized
  Uploader,     \* concurrent Put / WriteBatch / WriteParallel writers
  Slot,         \* identities of sealed segments
  SegmentSize,  \* records after which the active segment is sealed
  Reserve,      \* slots uploads leave free for the sweep's copies (a bound)
  Lines,        \* garbage lines of a cycle, percent of dead records
  Faults,       \* whether I/O errors and cancellations happen
  NoRoot, NoKey \* "no reference stored under this name", "no key"

ASSUME KeyAssumption ==
  /\ NoRoot \notin Key
  /\ NoKey \notin Key
ASSUME ChildrenAssumption == Children \in [Key -> SUBSET Key]
ASSUME BoundAssumption ==
  /\ SegmentSize \in Nat \ {0}
  /\ Reserve \in Nat
  /\ Lines \subseteq Nat
  /\ Faults \in BOOLEAN

VARIABLES
  seg,        \* [Slot -> SUBSET Key]: sealed segments, {} when the slot is free
  old,        \* slots whose seal time is more than the grace period ago
  active,     \* keys of the active segment's index
  refs,       \* [Name -> Key \cup {NoRoot}]: the refstore
  capturing,  \* the write barrier's flag
  grey,       \* the write barrier's grey set
  wpc, wkey,  \* uploads: control state and the key in hand
  ppc,        \* reference PUTs: control state
  proot,      \* the root the PUT names
  pfront,     \* CheckComplete: keys of this level still to look up
  pnext,      \* CheckComplete: the next level
  pseen,      \* CheckComplete: the visited keys
  gpc,        \* the cycle: control state
  line,       \* the garbage line of this cycle
  snap,       \* MarkSet: the keys of the snapshot it was built over
  marked,     \* MarkSet: the marked keys
  work,       \* keys the mark still has to pop (roots and DFS stack)
  eligible,   \* the slots before Compact's horizon
  kept,       \* the grey set Compact took
  victims,    \* the slots being compacted
  pending,    \* copyLive: <<victim, key>> candidates not yet handled
  wphase,     \* history: the phase of the cycle in which the upload observed its key
  confirmed   \* history: <<key, phase>> of the writes completed since BeginBarrier

storeVars == <<seg, old, active>>
barrierVars == <<capturing, grey>>
uploadVars == <<wpc, wkey>>
putVars == <<ppc, proot, pfront, pnext, pseen>>
historyVars == <<wphase, confirmed>>
markVars == <<snap, marked, work>>
sweepVars == <<eligible, kept, victims, pending>>
cycleVars == <<gpc, line, markVars, sweepVars>>
vars == <<storeVars, refs, barrierVars, uploadVars, putVars, cycleVars, historyVars>>

----------------------------------------------------------------------------
(* The Merkle DAG.                                                         *)

\* A set of keys closed under the child relation.
Closed(S) == \A k \in S : Children[k] \subseteq S

\* The keys reachable from k: those in every closed set that contains k.
Closure == [k \in Key |->
  {x \in Key : \A S \in SUBSET Key : (k \in S /\ Closed(S)) => x \in S}]

----------------------------------------------------------------------------
(* The object store.                                                       *)

\* What Has and Get find: the active index, then the sealed segments.
Stored == active \cup UNION {seg[s] : s \in Slot}

Free == {s \in Slot : seg[s] = {}}

\* appendLocked of k followed by the rotation: k joins the active index unless
\* it is there already, and a full active segment becomes a sealed one.
\* createActive and sealActiveLocked leave what is stored alone.
appendLocked(k) ==
  IF k \in active \/ Cardinality(active \cup {k}) < SegmentSize
  THEN active' = active \cup {k} /\ UNCHANGED <<seg, old>>
  ELSE \E s \in Free : /\ seg' = [seg EXCEPT ![s] = active \cup {k}]
                       /\ active' = {}
                       /\ UNCHANGED old

\* The passing of time: the grace period of a sealed segment runs out.
Age(s) ==
  /\ seg[s] # {}
  /\ s \notin old
  /\ old' = old \cup {s}
  /\ UNCHANGED <<seg, active, refs, barrierVars, uploadVars, putVars, cycleVars, historyVars>>

----------------------------------------------------------------------------
(* Writers: Put, WriteBatch and runWriter do the same three steps for each  *)
(* object: observe the key, ask Has, and append what is absent.  Between    *)
(* the steps they hold no lock.                                             *)

\* Compact holds appendMu.
Compacting == gpc = "copy"

\* The phase of the cycle an observation falls in: the barrier captures from
\* BeginBarrier to takeGrey, the rest of Compact is the sweep.
Phase ==
  IF gpc \in {"snapshot", "newset", "mark", "lockSweep", "sweep"} THEN "barrier"
  ELSE IF gpc = "copy" THEN "sweep" ELSE "none"

\* The write of k is over: from here the caller counts on k being stored.
Confirm(w) ==
  confirmed' = IF wphase[w] = "none" THEN confirmed
               ELSE confirmed \cup {<<wkey[w], wphase[w]>>}

\* Mutant: only the keys that will be written are observed, not the dedup hits.
observeMissesOnly(w, k) ==
  /\ wpc[w] = "idle"
  /\ grey' = IF capturing /\ k \notin Stored THEN grey \cup {k} ELSE grey
  /\ wpc' = [wpc EXCEPT ![w] = "has"]
  /\ wkey' = [wkey EXCEPT ![w] = k]
  /\ wphase' = [wphase EXCEPT ![w] = Phase]
  /\ UNCHANGED <<storeVars, refs, capturing, putVars, cycleVars, confirmed>>

observe(w, k) ==
  /\ wpc[w] = "idle"
  /\ grey' = IF capturing THEN grey \cup {k} ELSE grey
  /\ wpc' = [wpc EXCEPT ![w] = "has"]
  /\ wkey' = [wkey EXCEPT ![w] = k]
  /\ wphase' = [wphase EXCEPT ![w] = Phase]
  /\ UNCHANGED <<storeVars, refs, capturing, putVars, cycleVars, confirmed>>

\* A dedup hit: the object is there, nothing is written.
HasHit(w) ==
  /\ wpc[w] = "has"
  /\ wkey[w] \in Stored
  /\ wpc' = [wpc EXCEPT ![w] = "idle"]
  /\ wkey' = [wkey EXCEPT ![w] = NoKey]
  /\ wphase' = [wphase EXCEPT ![w] = "none"]
  /\ Confirm(w)
  /\ UNCHANGED <<storeVars, refs, barrierVars, putVars, cycleVars>>

\* Mutant: the key in hand is dropped before the append.
HasMissDropsKey(w) ==
  /\ wpc[w] = "has"
  /\ wkey[w] \notin Stored
  /\ wpc' = [wpc EXCEPT ![w] = "append"]
  /\ wkey' = [wkey EXCEPT ![w] = NoKey]
  /\ UNCHANGED <<storeVars, refs, barrierVars, putVars, cycleVars, historyVars>>

HasMiss(w) ==
  /\ wpc[w] = "has"
  /\ wkey[w] \notin Stored
  /\ wpc' = [wpc EXCEPT ![w] = "append"]
  /\ UNCHANGED <<storeVars, refs, barrierVars, wkey, putVars, cycleVars, historyVars>>

append(w) ==
  /\ wpc[w] = "append"
  /\ ~Compacting
  /\ Cardinality(Free) > Reserve
  /\ appendLocked(wkey[w])
  /\ wpc' = [wpc EXCEPT ![w] = "idle"]
  /\ wkey' = [wkey EXCEPT ![w] = NoKey]
  /\ wphase' = [wphase EXCEPT ![w] = "none"]
  /\ Confirm(w)
  /\ UNCHANGED <<refs, barrierVars, putVars, cycleVars>>

\* prepare or append fails: WriteBatch and WriteParallel return the error.
WriteFails(w) ==
  /\ Faults
  /\ wpc[w] = "append"
  /\ wpc' = [wpc EXCEPT ![w] = "idle"]
  /\ wkey' = [wkey EXCEPT ![w] = NoKey]
  /\ wphase' = [wphase EXCEPT ![w] = "none"]
  /\ UNCHANGED <<storeVars, refs, barrierVars, putVars, cycleVars, confirmed>>

----------------------------------------------------------------------------
(* Reference PUTs (putRef, PrepareRef) and deletes (rmRef).                *)

\* Holders of the shared reference lock.
Sharing == {n \in Name : ppc[n] # "idle"}

\* Mutant: a reader-preferring lock.
RefLockHeld == gpc \in {"snapshot", "sweep", "copy"}

\* The cycle holds the reference lock or waits for it: a Go RWMutex admits
\* no new reader once a writer waits.
RefLockBusy == gpc \in {"lockSnap", "snapshot", "lockSweep", "sweep", "copy"}

PrepareRef(n, r) ==
  /\ ppc[n] = "idle"
  /\ ~RefLockBusy
  /\ ppc' = [ppc EXCEPT ![n] = "walk"]
  /\ proot' = [proot EXCEPT ![n] = r]
  /\ pfront' = [pfront EXCEPT ![n] = {r}]
  /\ pnext' = [pnext EXCEPT ![n] = {}]
  /\ pseen' = [pseen EXCEPT ![n] = {r}]
  /\ UNCHANGED <<storeVars, refs, barrierVars, uploadVars, cycleVars, historyVars>>

\* The PUT is over, its shared lock released and its locals dropped.
Release(n) ==
  /\ ppc' = [ppc EXCEPT ![n] = "idle"]
  /\ proot' = [proot EXCEPT ![n] = NoRoot]
  /\ pfront' = [pfront EXCEPT ![n] = {}]
  /\ pnext' = [pnext EXCEPT ![n] = {}]
  /\ pseen' = [pseen EXCEPT ![n] = {}]

\* One lookup of CheckComplete's breadth-first walk that finds its object.
CheckFound(n, k) ==
  /\ ppc[n] = "walk"
  /\ k \in pfront[n]
  /\ k \in Stored
  /\ LET next == pnext[n] \cup (Children[k] \ pseen[n])
         last == pfront[n] = {k}
     IN  /\ pseen' = [pseen EXCEPT ![n] = @ \cup Children[k]]
         /\ pfront' = [pfront EXCEPT ![n] = IF last THEN next ELSE @ \ {k}]
         /\ pnext' = [pnext EXCEPT ![n] = IF last THEN {} ELSE next]
  /\ UNCHANGED <<storeVars, refs, barrierVars, uploadVars, ppc, proot, cycleVars, historyVars>>

\* A missing object aborts the PUT, the caller's 404; so does a failed read.
CheckMissing(n, k) ==
  /\ ppc[n] = "walk"
  /\ k \in pfront[n]
  /\ k \notin Stored \/ Faults
  /\ Release(n)
  /\ UNCHANGED <<storeVars, refs, barrierVars, uploadVars, cycleVars, historyVars>>

\* Mutant: the walked closure is not handed to the barrier.
ObserveNothing(n) ==
  /\ ppc[n] = "walk"
  /\ pfront[n] = {}
  /\ ppc' = [ppc EXCEPT ![n] = "put"]
  /\ UNCHANGED <<storeVars, refs, barrierVars, uploadVars, proot, pfront, pnext, pseen,
                 cycleVars, historyVars>>

\* The walk is complete: its keys go to the barrier.
ObserveKeys(n) ==
  /\ ppc[n] = "walk"
  /\ pfront[n] = {}
  /\ grey' = IF capturing THEN grey \cup pseen[n] ELSE grey
  /\ ppc' = [ppc EXCEPT ![n] = "put"]
  /\ UNCHANGED <<storeVars, refs, capturing, uploadVars, proot, pfront, pnext, pseen,
                 cycleVars, historyVars>>

\* refs.Put: the reference is accepted.
PutRef(n) ==
  /\ ppc[n] = "put"
  /\ refs' = [refs EXCEPT ![n] = proot[n]]
  /\ ppc' = [ppc EXCEPT ![n] = "commit"]
  /\ UNCHANGED <<storeVars, barrierVars, uploadVars, proot, pfront, pnext, pseen,
                 cycleVars, historyVars>>

\* refs.Put failed: putRef calls abort.
PutFails(n) ==
  /\ Faults
  /\ ppc[n] = "put"
  /\ Release(n)
  /\ UNCHANGED <<storeVars, refs, barrierVars, uploadVars, cycleVars, historyVars>>

Commit(n) ==
  /\ ppc[n] = "commit"
  /\ Release(n)
  /\ UNCHANGED <<storeVars, refs, barrierVars, uploadVars, cycleVars, historyVars>>

\* rmRef takes no lock of the collector.
rmRef(n) ==
  /\ ppc[n] = "idle"
  /\ refs[n] # NoRoot
  /\ refs' = [refs EXCEPT ![n] = NoRoot]
  /\ UNCHANGED <<storeVars, barrierVars, uploadVars, putVars, cycleVars, historyVars>>

----------------------------------------------------------------------------
(* The cycle.                                                              *)

\* Run: TryLock on cycleMu succeeds (an overlapping Run returns at once).
Run(l) ==
  /\ gpc = "idle"
  /\ gpc' = "lockSnap"
  /\ line' = l
  /\ UNCHANGED <<storeVars, refs, barrierVars, uploadVars, putVars,
                 markVars, sweepVars, historyVars>>

\* refLock.Lock, then BeginBarrier.
BeginBarrier ==
  /\ gpc = "lockSnap"
  /\ Sharing = {}
  /\ capturing' = TRUE
  /\ grey' = {}
  /\ gpc' = "snapshot"
  /\ wphase' = [w \in Uploader |-> "none"]
  /\ confirmed' = {}
  /\ UNCHANGED <<storeVars, refs, uploadVars, putVars, line, markVars, sweepVars>>

\* The cycle returns: locks released, locals dropped.
EndCycle ==
  /\ gpc' = "idle"
  /\ line' = 0
  /\ snap' = {} /\ marked' = {} /\ work' = {}
  /\ eligible' = {} /\ kept' = {} /\ victims' = {} /\ pending' = {}
  /\ UNCHANGED historyVars

\* AbortBarrier on an error path, and the return.
AbortCycle ==
  /\ capturing' = FALSE
  /\ grey' = {}
  /\ EndCycle

\* roots() under the lock, then Unlock.
Roots ==
  /\ gpc = "snapshot"
  /\ work' = {refs[n] : n \in Name} \ {NoRoot}
  /\ gpc' = "newset"
  /\ UNCHANGED <<storeVars, refs, barrierVars, uploadVars, putVars, line,
                 snap, marked, sweepVars, historyVars>>

RootsFail ==
  /\ Faults
  /\ gpc = "snapshot"
  /\ AbortCycle
  /\ UNCHANGED <<storeVars, refs, uploadVars, putVars>>

\* Mutant: the mark set forgets the active segment.
NewMarkSetSealedOnly ==
  /\ gpc = "newset"
  /\ snap' = UNION {seg[s] : s \in Slot}
  /\ gpc' = "mark"
  /\ UNCHANGED <<storeVars, refs, barrierVars, uploadVars, putVars, line,
                 marked, work, sweepVars, historyVars>>

\* markLive starts: the snapshot of the sealed segments and the active index.
NewMarkSet ==
  /\ gpc = "newset"
  /\ snap' = Stored
  /\ gpc' = "mark"
  /\ UNCHANGED <<storeVars, refs, barrierVars, uploadVars, putVars, line,
                 marked, work, sweepVars, historyVars>>

\* What markFrom needs of a key it pops: a bit in the mark set and, unless the
\* key is a leaf (a blob or an xattr set, never read), the payload in the store.
Readable(k) == k \in snap /\ (Children[k] # {} => k \in Stored)

\* markFrom pops a key.
Mark(k) ==
  /\ gpc = "mark"
  /\ k \in work
  /\ Readable(k)
  /\ marked' = marked \cup {k}
  /\ work' = IF k \in marked THEN work \ {k} ELSE (work \ {k}) \cup (Children[k] \ marked')
  /\ UNCHANGED <<storeVars, refs, barrierVars, uploadVars, putVars, gpc, line,
                 snap, sweepVars, historyVars>>

\* markFrom fails: the object is missing or unreadable, or the context has been
\* cancelled (by Close or Wipe).
MarkFails ==
  /\ gpc = "mark"
  /\ \/ Faults
     \/ \E k \in work : ~Readable(k)
  /\ AbortCycle
  /\ UNCHANGED <<storeVars, refs, uploadVars, putVars>>

MarkDone ==
  /\ gpc = "mark"
  /\ work = {}
  /\ gpc' = "lockSweep"
  /\ UNCHANGED <<storeVars, refs, barrierVars, uploadVars, putVars, line,
                 markVars, sweepVars, historyVars>>

\* refLock.Lock for the sweep, the context check, and the horizon.
LockSweep ==
  /\ gpc = "lockSweep"
  /\ Sharing = {}
  /\ eligible' = old
  /\ gpc' = "sweep"
  /\ UNCHANGED <<storeVars, refs, barrierVars, uploadVars, putVars, line,
                 markVars, kept, victims, pending, historyVars>>

\* The context was cancelled meanwhile: no sweep.
LockSweepCancelled ==
  /\ Faults
  /\ gpc = "lockSweep"
  /\ Sharing = {}
  /\ AbortCycle
  /\ UNCHANGED <<storeVars, refs, uploadVars, putVars>>

\* Mutant: the line is exclusive.
selectVictimsAbove(live) ==
  {s \in eligible :
     LET dead == seg[s] \ live
     IN  /\ dead # {}
         /\ Cardinality(dead) * 100 > line * Cardinality(seg[s])}

\* selectVictims: the eligible sealed segments whose dead share reaches the line.
selectVictims(live) ==
  {s \in eligible :
     LET dead == seg[s] \ live
     IN  /\ dead # {}
         /\ Cardinality(dead) * 100 >= line * Cardinality(seg[s])}

\* The keys Compact finds outside the victims: survivorHas.
Survivors(V) == active \cup UNION {seg[s] : s \in Slot \ V}

\* Compact up to the copy: takeGrey, seal the active segment, select.  The
\* segment sealed here is younger than the horizon.
Compact ==
  /\ gpc = "sweep"
  /\ capturing' = FALSE
  /\ grey' = {}
  /\ kept' = grey
  /\ IF active = {}
     THEN UNCHANGED <<seg, active>>
     ELSE \E s \in Free : seg' = [seg EXCEPT ![s] = active] /\ active' = {}
  /\ LET live == marked \cup grey
         V == selectVictims(live)
     IN  /\ victims' = V
         /\ pending' = {p \in V \X Key :
                          /\ p[2] \in seg[p[1]]
                          /\ p[2] \in live
                          /\ p[2] \notin Survivors(V)}
  /\ gpc' = "copy"
  /\ UNCHANGED <<old, refs, uploadVars, putVars, line, markVars, eligible, historyVars>>

\* Compact returns before it copies: the store is closed or its write path
\* has failed.
CompactRefused ==
  /\ Faults
  /\ gpc = "sweep"
  /\ AbortCycle
  /\ UNCHANGED <<storeVars, refs, uploadVars, putVars>>

\* copyLive handles one candidate.  A candidate a previous copy has meanwhile
\* made redundant is skipped, or appended again when survivorHas was asked
\* before that copy landed.
copyLive(p) ==
  /\ gpc = "copy"
  /\ p \in pending
  /\ pending' = pending \ {p}
  /\ \/ p[2] \in Survivors(victims) /\ UNCHANGED storeVars
     \/ appendLocked(p[2])
  /\ UNCHANGED <<refs, barrierVars, uploadVars, putVars, gpc, line, markVars,
                 eligible, kept, victims, historyVars>>

\* A record fails verification, an append or the fsync fails: the victims stay.
CopyFails ==
  /\ Faults
  /\ gpc = "copy"
  /\ victims # {}
  /\ EndCycle
  /\ UNCHANGED <<storeVars, refs, barrierVars, uploadVars, putVars>>

\* Mutant: the victims go while candidates are still to be copied.
removeVictimsEarly ==
  /\ gpc = "copy"
  /\ seg' = [s \in Slot |-> IF s \in victims THEN {} ELSE seg[s]]
  /\ old' = old \ victims
  /\ EndCycle
  /\ UNCHANGED <<active, refs, barrierVars, uploadVars, putVars>>

\* All candidates are copied and synced: the victims are detached and deleted.
removeVictims ==
  /\ gpc = "copy"
  /\ pending = {}
  /\ seg' = [s \in Slot |-> IF s \in victims THEN {} ELSE seg[s]]
  /\ old' = old \ victims
  /\ EndCycle
  /\ UNCHANGED <<active, refs, barrierVars, uploadVars, putVars>>

----------------------------------------------------------------------------
Init ==
  /\ seg = [s \in Slot |-> {}]
  /\ old = {}
  /\ active = {}
  /\ refs = [n \in Name |-> NoRoot]
  /\ capturing = FALSE
  /\ grey = {}
  /\ wpc = [w \in Uploader |-> "idle"]
  /\ wkey = [w \in Uploader |-> NoKey]
  /\ ppc = [n \in Name |-> "idle"]
  /\ proot = [n \in Name |-> NoRoot]
  /\ pfront = [n \in Name |-> {}]
  /\ pnext = [n \in Name |-> {}]
  /\ pseen = [n \in Name |-> {}]
  /\ gpc = "idle"
  /\ line = 0
  /\ snap = {} /\ marked = {} /\ work = {}
  /\ eligible = {} /\ kept = {} /\ victims = {} /\ pending = {}
  /\ wphase = [w \in Uploader |-> "none"]
  /\ confirmed = {}

Upload(w) ==
  \/ \E k \in Key : observe(w, k)
  \/ HasHit(w)
  \/ HasMiss(w)
  \/ append(w)
  \/ WriteFails(w)

\* The steps of a PUT that holds the shared lock.
PutStep(n) ==
  \/ \E k \in Key : CheckFound(n, k)
  \/ \E k \in Key : CheckMissing(n, k)
  \/ ObserveKeys(n)
  \/ PutRef(n)
  \/ PutFails(n)
  \/ Commit(n)

\* The steps of a cycle that has started.
CycleStep ==
  \/ BeginBarrier
  \/ Roots
  \/ RootsFail
  \/ NewMarkSet
  \/ \E k \in Key : Mark(k)
  \/ MarkFails
  \/ MarkDone
  \/ LockSweep
  \/ LockSweepCancelled
  \/ Compact
  \/ CompactRefused
  \/ \E p \in Slot \X Key : copyLive(p)
  \/ CopyFails
  \/ removeVictims

Next ==
  \/ \E s \in Slot : Age(s)
  \/ \E w \in Uploader : Upload(w)
  \/ \E n \in Name, r \in Key : PrepareRef(n, r)
  \/ \E n \in Name : PutStep(n)
  \/ \E n \in Name : rmRef(n)
  \/ \E l \in Lines : Run(l)
  \/ CycleStep

Spec == Init /\ [][Next]_vars

----------------------------------------------------------------------------
(* Correctness.                                                            *)

\* Every variable has its type.
TypeOK ==
  /\ seg \in [Slot -> SUBSET Key]
  /\ old \subseteq Slot
  /\ active \subseteq Key
  /\ refs \in [Name -> Key \cup {NoRoot}]
  /\ capturing \in BOOLEAN
  /\ grey \subseteq Key
  /\ wpc \in [Uploader -> {"idle", "has", "append"}]
  /\ wkey \in [Uploader -> Key \cup {NoKey}]
  /\ \A w \in Uploader : wpc[w] # "idle" => wkey[w] \in Key
  /\ ppc \in [Name -> {"idle", "walk", "put", "commit"}]
  /\ proot \in [Name -> Key \cup {NoRoot}]
  /\ \A n \in Name : ppc[n] # "idle" => proot[n] \in Key
  /\ pfront \in [Name -> SUBSET Key]
  /\ pnext \in [Name -> SUBSET Key]
  /\ pseen \in [Name -> SUBSET Key]
  /\ gpc \in {"idle", "lockSnap", "snapshot", "newset", "mark", "lockSweep", "sweep", "copy"}
  /\ line \in Nat
  /\ snap \subseteq Key /\ marked \subseteq Key /\ work \subseteq Key
  /\ eligible \subseteq Slot /\ kept \subseteq Key /\ victims \subseteq Slot
  /\ pending \subseteq Slot \X Key
  /\ wphase \in [Uploader -> {"none", "barrier", "sweep"}]
  /\ confirmed \subseteq Key \X {"barrier", "sweep"}

\* An accepted reference never dangles: whatever a cycle, the uploads and the
\* other PUTs do, every object of every referenced tree can be read.
NoDanglingRef ==
  \A n \in Name : refs[n] # NoRoot => Closure[refs[n]] \subseteq Stored

\* The mark never meets the "object missing from store" error of markFrom: all
\* that is still to be popped is in the mark set's snapshot, taken after the
\* reference lock was given back, and in the store, even when the reference
\* that led there has been deleted meanwhile.
MarkNeverMissing ==
  gpc = "mark" => work \subseteq snap \cap Stored

\* The write barrier: a key that a write observed between BeginBarrier and
\* takeGrey and then reported stored, written or dedup-hit, is not lost to that
\* cycle's sweep, even when no reference reaches it yet.
BarrierKeepsWrites ==
  \A k \in Key : <<k, "barrier">> \in confirmed => k \in Stored

\* The collector implements LiveStore: it reaps only what no reference reaches
\* and accepts only complete trees.
Live == INSTANCE LiveStore WITH stored <- Stored, Reach <- Closure
LiveSpec == Live!Spec

\* Under a scheduler that runs every goroutine, with the background loop
\* starting cycles and time passing.
Fairness ==
  /\ WF_vars(CycleStep)
  /\ \A n \in Name : WF_vars(PutStep(n))
  /\ \A s \in Slot : WF_vars(Age(s))
  /\ WF_vars(\E l \in Lines : Run(l))

FairSpec == Spec /\ Fairness

\* A cycle always ends: reference PUTs that keep coming cannot hold it off the
\* reference lock, and the mark and the copy finish.
CycleEnds == (gpc # "idle") ~> (gpc = "idle")

\* The keys someone may still want: reachable from a reference, being walked by
\* a PUT, in an upload's hands, or grey.
Wanted ==
  LET named == {n \in Name : refs[n] # NoRoot}
  IN  UNION ({Closure[refs[n]] : n \in named} \cup {pseen[n] : n \in Name})
      \cup {wkey[w] : w \in Uploader} \cup grey \cup kept

\* A sealed segment that holds only garbage is deleted, unless one of its keys
\* comes back to life.
GarbageReclaimed ==
  \A s \in Slot :
    (seg[s] # {}) ~> (seg[s] = {} \/ seg[s] \cap Wanted # {})

----------------------------------------------------------------------------
(* The inductive invariant that GCProofs proves the safety properties from. *)

\* The phases in which the barrier captures, those after the roots snapshot,
\* and those in which the cycle holds the reference lock exclusively.
Capture == {"snapshot", "newset", "mark", "lockSweep", "sweep"}
Rooted == {"newset", "mark", "lockSweep", "sweep", "copy"}
Exclusive == {"snapshot", "sweep", "copy"}

LockInv == gpc \in Exclusive => \A n \in Name : ppc[n] = "idle"

CaptureInv == capturing <=> gpc \in Capture

\* A PUT: what it has visited and is not about to look up is stored, with its
\* children visited too; and a finished walk in a marking cycle is grey.
PutInv ==
  \A n \in Name : ppc[n] # "idle" =>
    /\ proot[n] \in pseen[n]
    /\ pfront[n] \cup pnext[n] \subseteq pseen[n]
    /\ \A k \in pseen[n] \ (pfront[n] \cup pnext[n]) :
         k \in Stored /\ Children[k] \subseteq pseen[n]
    /\ pfront[n] = {} => pnext[n] = {}
    /\ ppc[n] # "walk" => pfront[n] = {}
    /\ ppc[n] # "walk" /\ gpc \in Rooted => pseen[n] \subseteq grey

\* The marked set is closed up to the work left, and the work can be done.
MarkInv ==
  /\ gpc \notin Rooted => marked = {}
  /\ gpc = "newset" => marked = {}
  /\ gpc \in {"lockSweep", "sweep", "copy"} => work = {}
  /\ \A k \in marked : Children[k] \subseteq marked \cup work
  /\ \A k \in work : Closure[k] \subseteq Stored
  /\ gpc = "mark" => \A k \in work : Closure[k] \subseteq snap

\* Every referenced tree is grey, or its root is marked or will be.
RootInv ==
  gpc \in Rooted =>
    \A n \in Name : refs[n] # NoRoot =>
      \/ Closure[refs[n]] \subseteq (IF gpc = "copy" THEN kept ELSE grey)
      \/ refs[n] \in marked \cup work

\* A live record of a victim has a survivor or is still to be copied.
SweepInv ==
  gpc = "copy" =>
    \A v \in victims :
      /\ seg[v] # {}
      /\ \A k \in seg[v] :
           k \in marked \cup kept => k \in Survivors(victims) \/ <<v, k>> \in pending

\* What an upload observed under the barrier is grey, then kept.
BarrierInv ==
  /\ \A w \in Uploader : wpc[w] # "idle" /\ wphase[w] = "barrier" =>
       /\ gpc \in Capture => wkey[w] \in grey
       /\ gpc = "copy" => wkey[w] \in kept
  /\ \A k \in Key : <<k, "barrier">> \in confirmed =>
       /\ k \in Stored
       /\ gpc \in Capture => k \in grey
       /\ gpc = "copy" => k \in kept

IndInv ==
  /\ TypeOK
  /\ NoDanglingRef
  /\ LockInv
  /\ CaptureInv
  /\ PutInv
  /\ MarkInv
  /\ RootInv
  /\ SweepInv
  /\ BarrierInv
=============================================================================

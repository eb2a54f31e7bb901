--------------------------- MODULE SegmentLifetime ---------------------------
(***************************************************************************)
(* Who may read the mmap of a sealed segment, and when it is unmapped:     *)
(* package packstore's probe list, its scrub counter, and the calls that   *)
(* take segments out of the store (Remove, Compact, Wipe, Close), with the *)
(* collector's mark, which reads the mmaps without a pin.  Reading an      *)
(* unmapped segment kills the process, so the order of detach, wait and    *)
(* munmap is all that matters here; contents and files are in GC and       *)
(* PackStore.                                                              *)
(*                                                                         *)
(* Two contracts of the callers are part of the model: the collector is    *)
(* closed before its store, and Remove is not called under a mark (both    *)
(* belong to a collector, of which a store has one).                       *)
(***************************************************************************)
EXTENDS Naturals, FiniteSets

CONSTANTS
  Segment,    \* segments that may ever be sealed (a bound)
  Scrubber,   \* callers of Verify, ScanIndex and Record
  Reader,     \* callers of Get, Has and the other reads under mu.RLock
  Op,         \* callers of Remove, Wipe and Close
  Cycle       \* the collector's cycle

ASSUME LifetimeAssumption ==
  /\ Cycle \notin Op
  /\ "free" \notin Op \cup {Cycle}
  /\ IsFiniteSet(Scrubber)

VARIABLES
  fresh,      \* segments not sealed yet
  sealed,     \* the probe list
  mapped,     \* segments whose mmap exists
  closed,     \* the store is closed
  collector,  \* whether the collector is open
  readers,    \* readers that hold mu shared
  appendMu,   \* the holder of appendMu, or "free"
  cycleMu,    \* the holder of the collector's cycle slot, or "free"
  scrubN,     \* the scrubs in flight
  spc, pins,  \* each scrub: control state, the segments it has yet to walk
  pc, call,   \* each Op and the cycle: control state, the call it is in
  owned,      \* the segments that call takes out of the store
  snap,       \* the segments of the cycle's MarkSet
  stpc, stsnap \* Status: whether it marks, and the segments of its MarkSet

lockVars == <<appendMu, cycleMu>>
storeVars == <<fresh, sealed, mapped, closed, collector>>
scrubVars == <<scrubN, spc, pins>>
callVars == <<pc, call, owned>>
markVars == <<snap, stpc, stsnap>>
vars == <<storeVars, readers, lockVars, scrubVars, callVars, markVars>>

Taker == Op \cup {Cycle}

----------------------------------------------------------------------------
(* The locks.                                                              *)

\* A section under mu.RLock may begin: no writer holds mu or waits for it.
\* Sections under mu.Lock are single steps.
MayRLock == \A t \in Taker : pc[t] # "lock"

\* mu.Lock is granted once the readers have left.
MayLock(t) == pc[t] = "lock" /\ readers = {}

\* A seal (rotation, or the ones inside Compact) publishes a mapped segment.
Seal(g) ==
  /\ ~closed
  /\ g \in fresh
  /\ appendMu = "free" \/ (appendMu = Cycle /\ pc[Cycle] = "copy")
  /\ readers = {}
  /\ fresh' = fresh \ {g}
  /\ sealed' = sealed \cup {g}
  /\ mapped' = mapped \cup {g}
  /\ UNCHANGED <<closed, collector, readers, lockVars, scrubVars, callVars, markVars>>

----------------------------------------------------------------------------
(* Readers hold mu shared for the whole of their probe.                    *)

ReadBegin(r) ==
  /\ r \notin readers
  /\ MayRLock
  /\ ~closed
  /\ readers' = readers \cup {r}
  /\ UNCHANGED <<storeVars, lockVars, scrubVars, callVars, markVars>>

ReadEnd(r) ==
  /\ r \in readers
  /\ readers' = readers \ {r}
  /\ UNCHANGED <<storeVars, lockVars, scrubVars, callVars, markVars>>

----------------------------------------------------------------------------
(* Scrubs register under mu.RLock and then walk without a lock.            *)

beginScrub(s, gs) ==
  /\ spc[s] = "idle"
  /\ MayRLock
  /\ ~closed
  /\ scrubN' = scrubN + 1
  /\ spc' = [spc EXCEPT ![s] = "walk"]
  /\ pins' = [pins EXCEPT ![s] = gs]
  /\ UNCHANGED <<storeVars, readers, lockVars, callVars, markVars>>

\* Mutant: the walk is not registered.
VerifyUnregistered(s) ==
  /\ spc[s] = "idle"
  /\ MayRLock
  /\ ~closed
  /\ spc' = [spc EXCEPT ![s] = "walk"]
  /\ pins' = [pins EXCEPT ![s] = sealed]
  /\ UNCHANGED <<storeVars, readers, lockVars, scrubN, callVars, markVars>>

Verify(s) == beginScrub(s, sealed)

\* ScanIndex and Record: one segment, or ErrUnknownSegment.
pinSegment(s, g) == g \in sealed /\ beginScrub(s, {g})

\* One segment is done.
Walk(s, g) ==
  /\ g \in pins[s]
  /\ pins' = [pins EXCEPT ![s] = @ \ {g}]
  /\ UNCHANGED <<storeVars, readers, lockVars, scrubN, spc, callVars, markVars>>

\* Mutant: nobody is woken.
endScrubSilently(s) ==
  /\ spc[s] = "walk"
  /\ scrubN' = scrubN - 1
  /\ spc' = [spc EXCEPT ![s] = "idle"]
  /\ pins' = [pins EXCEPT ![s] = {}]
  /\ UNCHANGED <<storeVars, readers, lockVars, callVars, markVars>>

\* The walk is over, has found corruption, or was cancelled; the last one out
\* wakes the waiters.
endScrub(s) ==
  /\ spc[s] = "walk"
  /\ scrubN' = scrubN - 1
  /\ spc' = [spc EXCEPT ![s] = "idle"]
  /\ pins' = [pins EXCEPT ![s] = {}]
  /\ pc' = IF scrubN' = 0
           THEN [t \in Taker |-> IF pc[t] = "asleep" THEN "wait" ELSE pc[t]]
           ELSE pc
  /\ UNCHANGED <<storeVars, readers, lockVars, call, owned, markVars>>

----------------------------------------------------------------------------
(* Taking segments out: lock, detach, wait for the scrubs, unmap, return.  *)

Call(o, c, gs) ==
  /\ o \in Op
  /\ pc[o] = "idle"
  /\ appendMu = "free"
  /\ appendMu' = o
  /\ pc' = [pc EXCEPT ![o] = "lock"]
  /\ call' = [call EXCEPT ![o] = c]
  /\ owned' = [owned EXCEPT ![o] = gs]
  /\ UNCHANGED <<storeVars, readers, scrubVars, markVars>>

Remove(o, g) ==
  /\ pc[Cycle] # "mark"
  /\ Call(o, "remove", {g})
  /\ UNCHANGED cycleMu

\* Collector.Wipe waits out the cycle and holds its slot.
Wipe(o) ==
  /\ collector
  /\ cycleMu = "free"
  /\ cycleMu' = o
  /\ Call(o, "wipe", {})

\* After Collector.Close.
Close(o) ==
  /\ ~collector
  /\ Call(o, "close", {})
  /\ UNCHANGED cycleMu

\* What t gives back when its call returns.
Unlock(t) ==
  /\ appendMu' = IF appendMu = t THEN "free" ELSE appendMu
  /\ cycleMu' = IF cycleMu = t THEN "free" ELSE cycleMu

Return(t) ==
  /\ pc' = [pc EXCEPT ![t] = "idle"]
  /\ call' = [call EXCEPT ![t] = "none"]
  /\ owned' = [owned EXCEPT ![t] = {}]
  /\ snap' = IF t = Cycle THEN {} ELSE snap
  /\ Unlock(t)
  /\ UNCHANGED <<stpc, stsnap>>

\* The segments a call takes out, once it holds mu.
Taken(t) == IF call[t] \in {"wipe", "close"} THEN sealed ELSE owned[t] \cap sealed

\* ErrClosed, ErrUnknownSegment, or a second Close.
Refused(t) ==
  /\ MayLock(t)
  /\ closed \/ (call[t] = "remove" /\ Taken(t) = {})
  /\ Return(t)
  /\ UNCHANGED <<storeVars, readers, scrubVars>>

\* Mutant: Wipe leaves the list to the readers that come.
DetachAllButWiped(t) ==
  /\ MayLock(t)
  /\ ~closed
  /\ call[t] = "remove" => Taken(t) # {}
  /\ owned' = [owned EXCEPT ![t] = Taken(t)]
  /\ closed' = (call[t] = "close")
  /\ sealed' = IF call[t] \in {"close", "wipe"} THEN sealed ELSE sealed \ Taken(t)
  /\ appendMu' = IF call[t] = "remove" THEN "free" ELSE appendMu
  /\ pc' = [pc EXCEPT ![t] = "wait"]
  /\ UNCHANGED <<fresh, mapped, collector, readers, cycleMu, scrubVars, call, markVars>>

\* Under mu.Lock: the segments leave the probe list; Close leaves them there
\* and sets closed instead.  Remove gives appendMu back before it waits.
Detach(t) ==
  /\ MayLock(t)
  /\ ~closed
  /\ call[t] = "remove" => Taken(t) # {}
  /\ owned' = [owned EXCEPT ![t] = Taken(t)]
  /\ closed' = (call[t] = "close")
  /\ sealed' = IF call[t] = "close" THEN sealed ELSE sealed \ Taken(t)
  /\ appendMu' = IF call[t] = "remove" THEN "free" ELSE appendMu
  /\ pc' = [pc EXCEPT ![t] = "wait"]
  /\ UNCHANGED <<fresh, mapped, collector, readers, cycleMu, scrubVars, call, markVars>>

waitScrubs(t) ==
  /\ pc[t] = "wait"
  /\ pc' = [pc EXCEPT ![t] = IF scrubN > 0 THEN "asleep" ELSE "unmap"]
  /\ UNCHANGED <<storeVars, readers, lockVars, scrubVars, call, owned, markVars>>

\* seg.close() and the unlink of one segment; errors are only reported.
Unmap(t, g) ==
  /\ pc[t] = "unmap"
  /\ g \in owned[t]
  /\ mapped' = mapped \ {g}
  /\ owned' = [owned EXCEPT ![t] = @ \ {g}]
  /\ UNCHANGED <<fresh, sealed, closed, collector, readers, lockVars, scrubVars, pc, call,
                 markVars>>

UnmapDone(t) ==
  /\ pc[t] = "unmap"
  /\ owned[t] = {}
  /\ sealed' = IF call[t] = "close" THEN {} ELSE sealed
  /\ Return(t)
  /\ UNCHANGED <<fresh, mapped, closed, collector, readers, scrubVars>>

----------------------------------------------------------------------------
(* The collector.                                                          *)

\* A cycle: the mark over a snapshot of the segments.  No Remove waits for mu.
markLive ==
  /\ collector
  /\ cycleMu = "free"
  /\ MayRLock
  /\ cycleMu' = Cycle
  /\ pc' = [pc EXCEPT ![Cycle] = "mark"]
  /\ call' = [call EXCEPT ![Cycle] = "compact"]
  /\ snap' = sealed
  /\ UNCHANGED <<storeVars, readers, appendMu, scrubVars, owned, stpc, stsnap>>

\* The mark or the copy fails or is cancelled, or there is no victim.
CycleFails ==
  /\ pc[Cycle] \in {"mark", "copy"}
  /\ Return(Cycle)
  /\ UNCHANGED <<storeVars, readers, scrubVars>>

\* Compact: appendMu, and the victims, read without mu or a pin while copied.
Compact(V) ==
  /\ pc[Cycle] = "mark"
  /\ appendMu = "free"
  /\ V # {}
  /\ V \subseteq sealed
  /\ appendMu' = Cycle
  /\ pc' = [pc EXCEPT ![Cycle] = "copy"]
  /\ owned' = [owned EXCEPT ![Cycle] = V]
  /\ UNCHANGED <<storeVars, readers, cycleMu, scrubVars, call, markVars>>

\* All live records are copied: removeVictims asks for mu.
copyLive ==
  /\ pc[Cycle] = "copy"
  /\ pc' = [pc EXCEPT ![Cycle] = "lock"]
  /\ snap' = {}
  /\ UNCHANGED <<storeVars, readers, lockVars, scrubVars, call, owned, stpc, stsnap>>

CloseCollector ==
  /\ collector
  /\ cycleMu = "free"
  /\ collector' = FALSE
  /\ UNCHANGED <<fresh, sealed, mapped, closed, readers, lockVars, scrubVars, callVars, markVars>>

\* Status marks over a snapshot of its own, outside the cycle slot.
Status ==
  /\ collector
  /\ stpc = "idle"
  /\ MayRLock
  /\ stpc' = "mark"
  /\ stsnap' = sealed
  /\ UNCHANGED <<storeVars, readers, lockVars, scrubVars, callVars, snap>>

StatusEnds ==
  /\ stpc = "mark"
  /\ stpc' = "idle"
  /\ stsnap' = {}
  /\ UNCHANGED <<storeVars, readers, lockVars, scrubVars, callVars, snap>>

----------------------------------------------------------------------------
Init ==
  /\ fresh = Segment /\ sealed = {} /\ mapped = {}
  /\ closed = FALSE /\ collector = TRUE
  /\ readers = {}
  /\ appendMu = "free" /\ cycleMu = "free"
  /\ scrubN = 0
  /\ spc = [s \in Scrubber |-> "idle"] /\ pins = [s \in Scrubber |-> {}]
  /\ pc = [t \in Taker |-> "idle"] /\ call = [t \in Taker |-> "none"]
  /\ owned = [t \in Taker |-> {}]
  /\ snap = {}
  /\ stpc = "idle" /\ stsnap = {}

\* The steps of a registered scrub.
ScrubStep(s) == (\E g \in Segment : Walk(s, g)) \/ endScrub(s)

\* The steps of a call that holds its locks.
TakeStep(t) ==
  \/ Refused(t) \/ Detach(t) \/ waitScrubs(t) \/ UnmapDone(t)
  \/ \E g \in Segment : Unmap(t, g)

CycleStep ==
  \/ markLive \/ CycleFails \/ copyLive \/ CloseCollector
  \/ \E V \in SUBSET Segment : Compact(V)

Next ==
  \/ \E g \in Segment : Seal(g)
  \/ \E r \in Reader : ReadBegin(r) \/ ReadEnd(r)
  \/ \E s \in Scrubber : Verify(s) \/ (\E g \in Segment : pinSegment(s, g)) \/ ScrubStep(s)
  \/ \E o \in Op : Wipe(o) \/ Close(o) \/ (\E g \in Segment : Remove(o, g))
  \/ \E t \in Taker : TakeStep(t)
  \/ CycleStep
  \/ Status \/ StatusEnds

Spec == Init /\ [][Next]_vars

\* The scheduler runs every goroutine: reads and scrubs end, and a call that has
\* its locks goes on.
FairSpec ==
  /\ Spec
  /\ \A r \in Reader : WF_vars(ReadEnd(r))
  /\ \A s \in Scrubber : WF_vars(ScrubStep(s))
  /\ \A t \in Taker : WF_vars(TakeStep(t))

----------------------------------------------------------------------------
(* Properties.                                                             *)

\* Every variable has its type.
TypeOK ==
  /\ fresh \subseteq Segment /\ sealed \subseteq Segment /\ mapped \subseteq Segment
  /\ closed \in BOOLEAN /\ collector \in BOOLEAN
  /\ readers \subseteq Reader
  /\ appendMu \in Taker \cup {"free"} /\ cycleMu \in Taker \cup {"free"}
  /\ scrubN \in Nat
  /\ spc \in [Scrubber -> {"idle", "walk"}] /\ pins \in [Scrubber -> SUBSET Segment]
  /\ pc \in [Taker -> {"idle", "mark", "copy", "lock", "wait", "asleep", "unmap"}]
  /\ call \in [Taker -> {"none", "compact", "remove", "wipe", "close"}]
  /\ owned \in [Taker -> SUBSET Segment]
  /\ snap \subseteq Segment
  /\ stpc \in {"idle", "mark"} /\ stsnap \subseteq Segment

\* Nothing is unmapped under its reader: a probe holds mu, a scrub is counted,
\* and the mark and the copy are kept apart from every other call that unmaps.
ReadsMapped ==
  /\ readers # {} => sealed \subseteq mapped
  /\ \A s \in Scrubber : pins[s] \subseteq mapped
  /\ snap \subseteq mapped
  /\ pc[Cycle] = "copy" => owned[Cycle] \subseteq mapped

\* The calls that hold detached segments.
Removing == {t \in Taker : pc[t] \in {"wait", "asleep", "unmap"}}

\* A mapping has one owner: no two calls unmap the same segment, none unmaps
\* one that is still probed, and no mapping is lost.
MappedOnce ==
  /\ \A t \in Removing : owned[t] \subseteq mapped
  /\ \A t, u \in Removing : t # u => owned[t] \cap owned[u] = {}
  /\ ~closed => \A t \in Removing : owned[t] \cap sealed = {}
  /\ mapped \subseteq sealed \cup UNION {owned[t] : t \in Removing}

----------------------------------------------------------------------------
(* The inductive invariant of the two.                                     *)

Walking == {s \in Scrubber : spc[s] = "walk"}

\* The counter counts the walks, and only a counted walk has pins.
ScrubsCounted ==
  /\ scrubN = Cardinality(Walking)
  /\ \A s \in Scrubber : pins[s] # {} => spc[s] = "walk"

\* The counter was zero after the detach: what a call unmaps nobody walks.
UnpinnedUnmap ==
  \A t \in Taker, s \in Scrubber : pc[t] = "unmap" => pins[s] \cap owned[t] = {}

\* What can be probed is mapped until closed is set, and what is not sealed yet
\* is not mapped.
ProbesMapped ==
  /\ ~closed => sealed \subseteq mapped
  /\ fresh \cap mapped = {}

\* Closed: no reader, and only the calls that were in flight hold mappings.
\* Close comes after the collector has gone.
ClosedDrains ==
  /\ closed => /\ readers = {}
               /\ mapped \subseteq UNION {owned[t] : t \in Removing}
  /\ collector => ~closed /\ \A t \in Taker : call[t] # "close"
  /\ \A t \in Removing : call[t] = "close" => closed

\* The mark and the copy run while no call waits for mu, so that none can take
\* a segment of their snapshot; the copy has appendMu besides.
CycleAlone ==
  /\ pc[Cycle] # "idle" => cycleMu = Cycle
  /\ pc[Cycle] \notin {"mark", "copy"} => snap = {}
  /\ pc[Cycle] \in {"mark", "copy"} =>
       /\ collector
       /\ MayRLock
       /\ \A t \in Removing : owned[t] \cap snap = {}
  /\ pc[Cycle] = "copy" => appendMu = Cycle /\ owned[Cycle] \subseteq sealed

IndInv ==
  /\ TypeOK
  /\ ReadsMapped /\ MappedOnce
  /\ ScrubsCounted /\ UnpinnedUnmap /\ ProbesMapped /\ ClosedDrains /\ CycleAlone

\* Close ends: once closed is set no scrub begins, and the last one wakes it.
CloseReturns == \A o \in Op : (call[o] = "close") ~> (call[o] = "none")

\* What status.go says of the advisory mark, that churn can only skew its
\* numbers: it never reads an unmapped segment.
StatusReadsMapped == stsnap \subseteq mapped
=============================================================================

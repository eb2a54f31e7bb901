----------------------- MODULE SegmentLifetimeProofs -----------------------
(***************************************************************************)
(* Machine-checked proofs about SegmentLifetime, for any number of         *)
(* segments, readers and callers, and any finite set of scrubs.            *)
(***************************************************************************)
EXTENDS SegmentLifetime, FiniteSetTheorems, TLAPS

\* The scrub counter is zero exactly when nobody walks, and then there is no pin.
LEMMA WalkingCounted ==
  ASSUME TypeOK, ScrubsCounted
  PROVE  /\ IsFiniteSet(Walking)
         /\ scrubN = 0 <=> Walking = {}
         /\ scrubN = 0 => \A s \in Scrubber : pins[s] = {}
<1>1. IsFiniteSet(Walking)
  BY LifetimeAssumption, FS_Subset DEF Walking
<1>2. scrubN = 0 <=> Walking = {}
  BY <1>1, FS_EmptySet DEF ScrubsCounted
<1> QED
  BY <1>1, <1>2 DEF ScrubsCounted, Walking

\* The initial states satisfy the invariant.
LEMMA LifetimeInit == Init => IndInv
<1> SUFFICES ASSUME Init PROVE IndInv
  OBVIOUS
<1> USE LifetimeAssumption DEF Init, Taker
<1>1. TypeOK
  <2>1. closed \in BOOLEAN /\ collector \in BOOLEAN
    BY Zenon
  <2> QED
    BY <2>1 DEF TypeOK
<1>2. ScrubsCounted
  <2>1. Walking = {}
    BY DEF Walking
  <2> QED
    BY <2>1, FS_EmptySet DEF ScrubsCounted
<1>3. ReadsMapped /\ MappedOnce /\ UnpinnedUnmap /\ ProbesMapped /\ ClosedDrains
  BY DEF ReadsMapped, MappedOnce, Removing, UnpinnedUnmap, ProbesMapped, ClosedDrains
<1>4. CycleAlone
  BY DEF CycleAlone
<1> QED
  BY <1>1, <1>2, <1>3, <1>4 DEF IndInv

\* A scrub begins: its segments are probed ones, so they are mapped and no call
\* has detached them.
LEMMA BeginScrubStep ==
  ASSUME IndInv, NEW s \in Scrubber, NEW gs \in SUBSET sealed, beginScrub(s, gs)
  PROVE  IndInv'
<1> USE LifetimeAssumption DEF IndInv, beginScrub, Taker, storeVars, lockVars, callVars,
        markVars
<1>1. TypeOK' /\ ReadsMapped' /\ MappedOnce'
  BY DEF TypeOK, ReadsMapped, MappedOnce, Removing, ProbesMapped
<1>2. ScrubsCounted'
  <2>1. s \notin Walking /\ Walking' = Walking \cup {s}
    BY DEF TypeOK, Walking
  <2>2. Cardinality(Walking') = Cardinality(Walking) + 1
    BY <2>1, WalkingCounted, FS_AddElement
  <2> QED
    BY <2>2 DEF ScrubsCounted, TypeOK
<1>3. UnpinnedUnmap' /\ ProbesMapped' /\ ClosedDrains' /\ CycleAlone'
  BY DEF TypeOK, UnpinnedUnmap, MappedOnce, Removing, ProbesMapped, ClosedDrains, CycleAlone,
     MayRLock
<1> QED
  BY <1>1, <1>2, <1>3

\* A scrub ends: the counter goes down with the walks, and those it wakes hold
\* what they held.
LEMMA EndScrubStep ==
  ASSUME IndInv, NEW s \in Scrubber, endScrub(s)
  PROVE  IndInv'
<1> USE LifetimeAssumption DEF IndInv, endScrub, Taker, storeVars, lockVars, markVars
<1>1. /\ Walking' = Walking \ {s}
      /\ Cardinality(Walking') = scrubN - 1
      /\ scrubN - 1 \in Nat
  <2>1. s \in Walking /\ Walking' = Walking \ {s}
    BY DEF TypeOK, Walking
  <2>2. IsFiniteSet(Walking') /\ Cardinality(Walking') = Cardinality(Walking) - 1
    BY <2>1, WalkingCounted, FS_RemoveElement
  <2> QED
    BY <2>1, <2>2, FS_CardinalityType DEF ScrubsCounted
<1>2. /\ pc' \in [Taker -> {"idle", "mark", "copy", "lock", "wait", "asleep", "unmap"}]
      /\ \A t \in Taker : pc'[t] = pc[t] \/ (pc[t] = "asleep" /\ pc'[t] = "wait")
  BY DEF TypeOK
<1>3. TypeOK' /\ ScrubsCounted'
  BY <1>1, <1>2 DEF TypeOK, ScrubsCounted
<1>4. Removing' = Removing
  BY <1>2 DEF Removing, TypeOK
<1>5. ReadsMapped' /\ MappedOnce' /\ UnpinnedUnmap' /\ ProbesMapped' /\ ClosedDrains'
  BY <1>2, <1>4 DEF TypeOK, ReadsMapped, MappedOnce, UnpinnedUnmap, ProbesMapped, ClosedDrains
<1>6. CycleAlone'
  BY <1>2, <1>4 DEF TypeOK, CycleAlone, MayRLock
<1> QED
  BY <1>3, <1>5, <1>6

\* A call detaches its segments under mu: they were probed, so no other call has
\* them, and no mark is under way.
LEMMA DetachStep ==
  ASSUME IndInv, NEW t \in Taker, Detach(t)
  PROVE  IndInv'
<1> USE LifetimeAssumption DEF IndInv, Taker, lockVars, scrubVars, markVars
<1>1. /\ Taken(t) \subseteq sealed
      /\ owned' = [owned EXCEPT ![t] = Taken(t)]
      /\ pc' = [pc EXCEPT ![t] = "wait"]
      /\ pc[t] = "lock" /\ ~closed /\ readers = {}
  BY DEF Detach, Taken, MayLock
<1>2. Removing' = Removing \cup {t} /\ t \notin Removing
  BY <1>1 DEF Removing, TypeOK
<1>3. /\ owned'[t] = Taken(t)
      /\ \A u \in Taker : u # t => owned'[u] = owned[u] /\ pc'[u] = pc[u]
  BY <1>1 DEF TypeOK
<1>4. TypeOK' /\ ScrubsCounted' /\ ProbesMapped'
  BY DEF Detach, Taken, TypeOK, ScrubsCounted, Walking, ProbesMapped
<1>5. MappedOnce'
  <2>1. \A u \in Removing' : owned'[u] \subseteq mapped'
    BY <1>1, <1>2, <1>3 DEF Detach, MappedOnce, ProbesMapped, Removing
  <2>2. \A u, v \in Removing' : u # v => owned'[u] \cap owned'[v] = {}
    BY <1>1, <1>2, <1>3 DEF MappedOnce, Removing
  <2>3. ~closed' => \A u \in Removing' : owned'[u] \cap sealed' = {}
    <3>1. ~closed' => sealed' = sealed \ Taken(t)
      BY DEF Detach
    <3>2. \A u \in Removing : u # t /\ owned[u] \cap sealed = {}
      BY <1>1, <1>2 DEF MappedOnce
    <3> QED
      BY <1>2, <1>3, <3>1, <3>2 DEF Removing
  <2>4. mapped' \subseteq sealed' \cup UNION {owned'[u] : u \in Removing'}
    BY <1>1, <1>2, <1>3 DEF Detach, MappedOnce, Removing
  <2> QED
    BY <2>1, <2>2, <2>3, <2>4 DEF MappedOnce
<1>6. ClosedDrains'
  <2>1. closed' => mapped' \subseteq UNION {owned'[u] : u \in Removing'}
    <3> SUFFICES ASSUME closed', NEW g \in mapped PROVE \E u \in Removing' : g \in owned'[u]
      BY DEF Detach
    <3>1. Taken(t) = sealed
      BY DEF Detach, Taken
    <3>2. g \in sealed \/ \E u \in Removing : g \in owned[u]
      BY DEF MappedOnce
    <3> QED
      BY <1>2, <1>3, <3>1, <3>2 DEF Removing
  <2> QED
    BY <1>1, <1>2, <1>3, <2>1 DEF Detach, ClosedDrains, TypeOK, Removing
<1>7. CycleAlone' /\ ReadsMapped'
  BY <1>1, <1>2, <1>3 DEF Detach, CycleAlone, MayRLock, ReadsMapped, TypeOK
<1>8. UnpinnedUnmap'
  BY <1>1, <1>3 DEF Detach, UnpinnedUnmap, TypeOK
<1> QED
  BY <1>4, <1>5, <1>6, <1>7, <1>8

\* A call that finds the counter at zero may unmap: nobody walks, and who walks
\* later does not find its segments.
LEMMA WaitScrubsStep ==
  ASSUME IndInv, NEW t \in Taker, waitScrubs(t)
  PROVE  IndInv'
<1> USE LifetimeAssumption DEF IndInv, waitScrubs, Taker, storeVars, lockVars, scrubVars,
        markVars
<1>1. Removing' = Removing
  BY DEF TypeOK, Removing
<1>2. TypeOK' /\ ScrubsCounted' /\ ProbesMapped' /\ ClosedDrains' /\ MappedOnce'
  BY <1>1 DEF TypeOK, ScrubsCounted, Walking, ProbesMapped, ClosedDrains, MappedOnce
<1>3. UnpinnedUnmap'
  <2>1. CASE scrubN > 0
    BY <2>1 DEF UnpinnedUnmap, TypeOK
  <2>2. CASE scrubN = 0
    <3>1. \A s \in Scrubber : pins[s] = {}
      BY <2>2, WalkingCounted
    <3> QED
      BY <3>1 DEF UnpinnedUnmap
  <2> QED
    BY <2>1, <2>2 DEF TypeOK
<1>4. CycleAlone' /\ ReadsMapped'
  BY <1>1 DEF CycleAlone, MayRLock, ReadsMapped, TypeOK
<1> QED
  BY <1>2, <1>3, <1>4

\* One segment is unmapped: it is neither walked, nor probed, nor in the
\* snapshot of a mark, nor another call's.
LEMMA UnmapStep ==
  ASSUME IndInv, NEW t \in Taker, NEW g \in Segment, Unmap(t, g)
  PROVE  IndInv'
<1> USE LifetimeAssumption DEF IndInv, Unmap, Taker, lockVars, scrubVars, markVars
<1>1. t \in Removing /\ Removing' = Removing
  BY DEF Removing
<1>2. TypeOK' /\ ScrubsCounted' /\ UnpinnedUnmap'
  BY DEF TypeOK, ScrubsCounted, Walking, UnpinnedUnmap
<1>3. MappedOnce' /\ ProbesMapped'
  BY <1>1 DEF TypeOK, Removing, MappedOnce, ProbesMapped
<1>4. ClosedDrains'
  BY <1>1 DEF TypeOK, Removing, MappedOnce, ClosedDrains
<1>5. CycleAlone' /\ ReadsMapped'
  BY <1>1 DEF TypeOK, Removing, MappedOnce, ClosedDrains, CycleAlone, MayRLock, UnpinnedUnmap,
     ReadsMapped
<1> QED
  BY <1>2, <1>3, <1>4, <1>5

\* Every step keeps the invariant.
LEMMA LifetimeStep == IndInv /\ [Next]_vars => IndInv'
<1> SUFFICES ASSUME IndInv, [Next]_vars PROVE IndInv'
  OBVIOUS
<1> USE LifetimeAssumption DEF Taker, storeVars, lockVars, scrubVars, callVars, markVars
<1>1. ASSUME NEW g \in Segment, Seal(g) PROVE IndInv'
  BY <1>1 DEF Seal, IndInv, TypeOK, ReadsMapped, MappedOnce, Removing, ScrubsCounted, Walking,
     UnpinnedUnmap, ProbesMapped, ClosedDrains, CycleAlone, MayRLock
<1>2. ASSUME NEW r \in Reader, ReadBegin(r) \/ ReadEnd(r) PROVE IndInv'
  <2>1. CASE ReadBegin(r)
    BY <2>1 DEF ReadBegin, IndInv, TypeOK, ReadsMapped, MappedOnce, Removing,
       ScrubsCounted, Walking, UnpinnedUnmap, ProbesMapped, ClosedDrains, CycleAlone, MayRLock
  <2>2. CASE ReadEnd(r)
    BY <2>2 DEF ReadEnd, IndInv, TypeOK, ReadsMapped, MappedOnce, Removing,
       ScrubsCounted, Walking, UnpinnedUnmap, ProbesMapped, ClosedDrains, CycleAlone, MayRLock
  <2> QED
    BY <1>2, <2>1, <2>2
<1>3. ASSUME NEW s \in Scrubber, Verify(s) PROVE IndInv'
  BY <1>3, BeginScrubStep DEF Verify
<1>4. ASSUME NEW s \in Scrubber, NEW g \in Segment, pinSegment(s, g) PROVE IndInv'
  <2>1. g \in sealed /\ beginScrub(s, {g})
    BY <1>4 DEF pinSegment
  <2> QED
    BY <2>1, BeginScrubStep
<1>5. ASSUME NEW s \in Scrubber, NEW g \in Segment, Walk(s, g) PROVE IndInv'
  BY <1>5 DEF Walk, IndInv, TypeOK, ReadsMapped, MappedOnce, Removing, ScrubsCounted, Walking,
     UnpinnedUnmap, ProbesMapped, ClosedDrains, CycleAlone, MayRLock
<1>6. ASSUME NEW o \in Op, NEW g \in Segment, Remove(o, g) PROVE IndInv'
  BY <1>6 DEF Remove, Call, IndInv, TypeOK, ReadsMapped, MappedOnce, Removing, ScrubsCounted,
     Walking, UnpinnedUnmap, ProbesMapped, ClosedDrains, CycleAlone, MayRLock
<1>7. ASSUME NEW o \in Op, Wipe(o) PROVE IndInv'
  BY <1>7 DEF Wipe, Call, IndInv, TypeOK, ReadsMapped, MappedOnce, Removing, ScrubsCounted,
     Walking, UnpinnedUnmap, ProbesMapped, ClosedDrains, CycleAlone, MayRLock
<1>8. ASSUME NEW o \in Op, Close(o) PROVE IndInv'
  BY <1>8 DEF Close, Call, IndInv, TypeOK, ReadsMapped, MappedOnce, Removing, ScrubsCounted,
     Walking, UnpinnedUnmap, ProbesMapped, ClosedDrains, CycleAlone, MayRLock
<1>9. ASSUME NEW t \in Taker, Refused(t) PROVE IndInv'
  BY <1>9 DEF Refused, Return, Unlock, MayLock, IndInv, TypeOK, ReadsMapped, MappedOnce,
     Removing, ScrubsCounted, Walking, UnpinnedUnmap, ProbesMapped, ClosedDrains, CycleAlone,
     MayRLock
<1>10. ASSUME NEW t \in Taker, UnmapDone(t) PROVE IndInv'
  BY <1>10 DEF UnmapDone, Return, Unlock, IndInv, TypeOK, ReadsMapped, MappedOnce, Removing,
     ScrubsCounted, Walking, UnpinnedUnmap, ProbesMapped, ClosedDrains, CycleAlone, MayRLock
<1>11. CASE markLive
  BY <1>11 DEF markLive, IndInv, TypeOK, ReadsMapped, MappedOnce, Removing, ScrubsCounted,
     Walking, UnpinnedUnmap, ProbesMapped, ClosedDrains, CycleAlone, MayRLock
<1>12. CASE CycleFails
  BY <1>12 DEF CycleFails, Return, Unlock, IndInv, TypeOK, ReadsMapped, MappedOnce, Removing,
     ScrubsCounted, Walking, UnpinnedUnmap, ProbesMapped, ClosedDrains, CycleAlone, MayRLock
<1>13. ASSUME NEW V \in SUBSET Segment, Compact(V) PROVE IndInv'
  BY <1>13 DEF Compact, IndInv, TypeOK, ReadsMapped, MappedOnce, Removing, ScrubsCounted,
     Walking, UnpinnedUnmap, ProbesMapped, ClosedDrains, CycleAlone, MayRLock
<1>14. CASE copyLive
  BY <1>14 DEF copyLive, IndInv, TypeOK, ReadsMapped, MappedOnce, Removing, ScrubsCounted,
     Walking, UnpinnedUnmap, ProbesMapped, ClosedDrains, CycleAlone, MayRLock
<1>15. CASE CloseCollector
  <2>1. TypeOK' /\ ScrubsCounted' /\ UnpinnedUnmap' /\ ProbesMapped' /\ ClosedDrains'
    BY <1>15 DEF CloseCollector, IndInv, TypeOK, ScrubsCounted, Walking, UnpinnedUnmap,
       ProbesMapped, ClosedDrains, Removing
  <2>2. ReadsMapped' /\ MappedOnce' /\ CycleAlone'
    BY <1>15 DEF CloseCollector, IndInv, TypeOK, ReadsMapped, MappedOnce, CycleAlone, MayRLock,
       Removing
  <2> QED
    BY <2>1, <2>2 DEF IndInv
<1>16. CASE Status \/ StatusEnds
  <2>1. CASE Status
    BY <2>1 DEF Status, IndInv, TypeOK, ReadsMapped, MappedOnce, Removing,
       ScrubsCounted, Walking, UnpinnedUnmap, ProbesMapped, ClosedDrains, CycleAlone, MayRLock
  <2>2. CASE StatusEnds
    BY <2>2 DEF StatusEnds, IndInv, TypeOK, ReadsMapped, MappedOnce, Removing,
       ScrubsCounted, Walking, UnpinnedUnmap, ProbesMapped, ClosedDrains, CycleAlone, MayRLock
  <2> QED
    BY <1>16, <2>1, <2>2
<1>17. CASE UNCHANGED vars
  BY <1>17 DEF vars, IndInv, TypeOK, ReadsMapped, MappedOnce, Removing, ScrubsCounted,
     Walking, UnpinnedUnmap, ProbesMapped, ClosedDrains, CycleAlone, MayRLock
<1>18. ASSUME NEW s \in Scrubber, ScrubStep(s) PROVE IndInv'
  BY <1>5, <1>18, EndScrubStep DEF ScrubStep
<1>19. ASSUME NEW t \in Taker, TakeStep(t) PROVE IndInv'
  BY <1>9, <1>10, <1>19, DetachStep, WaitScrubsStep, UnmapStep DEF TakeStep
<1>20. CASE CycleStep
  BY <1>11, <1>12, <1>13, <1>14, <1>15, <1>20 DEF CycleStep
<1> QED
  BY <1>1, <1>2, <1>3, <1>4, <1>6, <1>7, <1>8, <1>16, <1>17, <1>18, <1>19, <1>20 DEF Next

\* The invariant holds in every reachable state.
LEMMA LifetimeInvariant == Spec => []IndInv
<1> QED
  BY LifetimeInit, LifetimeStep, PTL DEF Spec

\* Every variable keeps its type; the scrub counter, in particular, never goes
\* below zero (beginScrub and endScrub, packstore.go).
THEOREM LifetimeTypeCorrect == Spec => []TypeOK
<1>1. IndInv => TypeOK
  BY DEF IndInv
<1> QED
  BY <1>1, LifetimeInvariant, PTL

\* No reader, scrub, mark or copy ever touches a segment that has been
\* unmapped, whatever Remove, Wipe, Compact and Close do meanwhile.
THEOREM NoReadAfterUnmap == Spec => []ReadsMapped
<1>1. IndInv => ReadsMapped
  BY DEF IndInv
<1> QED
  BY <1>1, LifetimeInvariant, PTL

\* Every mapping has one owner: no segment is unmapped twice, none that is
\* still probed, and none is forgotten.
THEOREM OneOwnerPerMapping == Spec => []MappedOnce
<1>1. IndInv => MappedOnce
  BY DEF IndInv
<1> QED
  BY <1>1, LifetimeInvariant, PTL

=============================================================================

------------------------------ MODULE GCProofs ------------------------------
(***************************************************************************)
(* Machine-checked proofs about GC, for every set of keys, every child     *)
(* relation, any number of names, uploads and segments.                    *)
(***************************************************************************)
EXTENDS GC, TLAPS

\* appendLocked keeps what is stored, adds its key, and fills no segment that
\* holds something already.
LEMMA AppendLemma ==
  ASSUME seg \in [Slot -> SUBSET Key], active \subseteq Key, old \subseteq Slot,
         NEW k \in Key, appendLocked(k)
  PROVE  /\ seg' \in [Slot -> SUBSET Key]
         /\ active' \subseteq Key
         /\ old' = old
         /\ \A s \in Slot : seg[s] # {} => seg'[s] = seg[s]
         /\ \A s \in Slot : seg[s] \subseteq seg'[s]
         /\ Stored' = Stored \cup {k}
<1>1. CASE active' = active \cup {k} /\ UNCHANGED <<seg, old>>
  BY <1>1 DEF Stored
<1>2. CASE \E s \in Free : /\ seg' = [seg EXCEPT ![s] = active \cup {k}]
                           /\ active' = {}
                           /\ UNCHANGED old
  <2>1. PICK s \in Free : /\ seg' = [seg EXCEPT ![s] = active \cup {k}]
                          /\ active' = {}
                          /\ UNCHANGED old
    BY <1>2
  <2>2. s \in Slot /\ seg[s] = {}
    BY DEF Free
  <2>3. \A x \in Slot : seg'[x] = IF x = s THEN active \cup {k} ELSE seg[x]
    BY <2>1, <2>2
  <2>4. seg' \in [Slot -> SUBSET Key]
    BY <2>1, <2>2
  <2>5. Stored' = Stored \cup {k}
    BY <2>1, <2>2, <2>3 DEF Stored
  <2> QED
    BY <2>1, <2>2, <2>3, <2>4, <2>5
<1>3. \/ active' = active \cup {k} /\ UNCHANGED <<seg, old>>
      \/ \E s \in Free : /\ seg' = [seg EXCEPT ![s] = active \cup {k}]
                         /\ active' = {}
                         /\ UNCHANGED old
  BY Zenon DEF appendLocked
<1> QED
  BY <1>1, <1>2, <1>3

\* Outside a set V of segments that hold something, an append loses nothing.
LEMMA AppendSurvivors ==
  ASSUME seg \in [Slot -> SUBSET Key], active \subseteq Key,
         NEW V \in SUBSET Slot, \A v \in V : seg[v] # {},
         NEW k \in Key, appendLocked(k)
  PROVE  Survivors(V) \cup {k} \subseteq Survivors(V)'
<1>1. CASE active' = active \cup {k} /\ UNCHANGED <<seg, old>>
  BY <1>1 DEF Survivors
<1>2. ASSUME NEW s \in Free, seg' = [seg EXCEPT ![s] = active \cup {k}], active' = {}
      PROVE  Survivors(V) \cup {k} \subseteq Survivors(V)'
  <2>1. s \in Slot \ V /\ seg[s] = {} /\ seg'[s] = active \cup {k}
    BY <1>2 DEF Free
  <2>2. \A x \in Slot \ V : seg[x] \subseteq seg'[x]
    BY <1>2, <2>1
  <2> QED
    BY <2>1, <2>2 DEF Survivors
<1>3. \/ active' = active \cup {k} /\ UNCHANGED <<seg, old>>
      \/ \E s \in Free : /\ seg' = [seg EXCEPT ![s] = active \cup {k}]
                         /\ active' = {}
                         /\ UNCHANGED old
  BY Zenon DEF appendLocked
<1> QED
  BY <1>1, <1>2, <1>3

\* The initial states are well-typed.
LEMMA TypeInit == Init => TypeOK
<1> SUFFICES ASSUME Init PROVE TypeOK
  OBVIOUS
<1>1. capturing \in BOOLEAN
  BY Zenon DEF Init
<1> QED
  BY <1>1 DEF Init, TypeOK

\* Every step keeps the types.
LEMMA TypeStep == TypeOK /\ [Next]_vars => TypeOK'
<1> SUFFICES ASSUME TypeOK, [Next]_vars PROVE TypeOK'
  OBVIOUS
<1> USE KeyAssumption, ChildrenAssumption, BoundAssumption
<1>1. ASSUME NEW s \in Slot, Age(s) PROVE TypeOK'
  BY <1>1 DEF TypeOK, Age, barrierVars, uploadVars, putVars, cycleVars, markVars,
     sweepVars, historyVars
<1>2. ASSUME NEW w \in Uploader, Upload(w) PROVE TypeOK'
  <2>1. ASSUME NEW k \in Key, observe(w, k) PROVE TypeOK'
    BY <2>1 DEF TypeOK, observe, Phase, storeVars, putVars, cycleVars, markVars, sweepVars
  <2>2. CASE HasHit(w)
    BY <2>2 DEF TypeOK, HasHit, Confirm, storeVars, barrierVars, putVars, cycleVars,
       markVars, sweepVars
  <2>3. CASE HasMiss(w)
    BY <2>3 DEF TypeOK, HasMiss, storeVars, barrierVars, putVars, cycleVars, markVars,
       sweepVars, historyVars
  <2>4. CASE append(w)
    <3>1. wkey[w] \in Key
      BY <2>4 DEF append, TypeOK
    <3>2. seg' \in [Slot -> SUBSET Key] /\ active' \subseteq Key /\ old' = old
      BY <2>4, <3>1, AppendLemma DEF append, TypeOK
    <3> QED
      BY <2>4, <3>1, <3>2 DEF TypeOK, append, Confirm, barrierVars, putVars, cycleVars,
         markVars, sweepVars
  <2>5. CASE WriteFails(w)
    BY <2>5 DEF TypeOK, WriteFails, storeVars, barrierVars, putVars, cycleVars, markVars,
       sweepVars
  <2> QED
    BY <1>2, <2>1, <2>2, <2>3, <2>4, <2>5 DEF Upload
<1>3. ASSUME NEW n \in Name, NEW r \in Key, PrepareRef(n, r) PROVE TypeOK'
  BY <1>3 DEF TypeOK, PrepareRef, storeVars, barrierVars, uploadVars, cycleVars, markVars,
     sweepVars, historyVars
<1>4. ASSUME NEW n \in Name, PutStep(n) PROVE TypeOK'
  <2> USE DEF TypeOK, storeVars, barrierVars, uploadVars, cycleVars, markVars, sweepVars,
          historyVars
  <2>1. ASSUME NEW k \in Key, CheckFound(n, k) PROVE TypeOK'
    <3>1. Children[k] \subseteq Key
      OBVIOUS
    <3> DEFINE next == pnext[n] \cup (Children[k] \ pseen[n])
               last == pfront[n] = {k}
    <3>2. next \subseteq Key /\ pfront[n] \subseteq Key /\ pseen[n] \subseteq Key
      BY <3>1
    <3> QED
      BY <2>1, <3>1, <3>2 DEF CheckFound
  <2>2. ASSUME NEW k \in Key, CheckMissing(n, k) PROVE TypeOK'
    BY <2>2 DEF CheckMissing, Release
  <2>3. CASE ObserveKeys(n)
    BY <2>3 DEF ObserveKeys
  <2>4. CASE PutRef(n)
    BY <2>4 DEF PutRef
  <2>5. CASE PutFails(n)
    BY <2>5 DEF PutFails, Release
  <2>6. CASE Commit(n)
    BY <2>6 DEF Commit, Release
  <2> QED
    BY <1>4, <2>1, <2>2, <2>3, <2>4, <2>5, <2>6 DEF PutStep
<1>5. ASSUME NEW n \in Name, rmRef(n) PROVE TypeOK'
  BY <1>5 DEF TypeOK, rmRef, storeVars, barrierVars, uploadVars, putVars, cycleVars,
     markVars, sweepVars, historyVars
<1>6. ASSUME NEW l \in Lines, Run(l) PROVE TypeOK'
  BY <1>6 DEF TypeOK, Run, storeVars, barrierVars, uploadVars, putVars, markVars,
     sweepVars, historyVars
<1>7. CASE CycleStep
  <2> USE DEF TypeOK, storeVars, barrierVars, uploadVars, putVars, markVars, sweepVars,
          historyVars
  <2>1. CASE BeginBarrier
    BY <2>1 DEF BeginBarrier
  <2>2. CASE Roots
    BY <2>2 DEF Roots
  <2>3. CASE RootsFail
    BY <2>3 DEF RootsFail, AbortCycle, EndCycle
  <2>4. CASE NewMarkSet
    BY <2>4 DEF NewMarkSet, Stored
  <2>5. ASSUME NEW k \in Key, Mark(k) PROVE TypeOK'
    BY <2>5 DEF Mark
  <2>6. CASE MarkFails
    BY <2>6 DEF MarkFails, AbortCycle, EndCycle
  <2>7. CASE MarkDone
    BY <2>7 DEF MarkDone
  <2>8. CASE LockSweep
    BY <2>8 DEF LockSweep
  <2>9. CASE LockSweepCancelled
    BY <2>9 DEF LockSweepCancelled, AbortCycle, EndCycle
  <2>10. CASE Compact
    <3> DEFINE V == selectVictims(marked \cup grey)
    <3>1. V \subseteq Slot
      BY DEF selectVictims
    <3>2. victims' = V /\ pending' \subseteq V \X Key
      BY <2>10 DEF Compact
    <3>3. pending' \subseteq Slot \X Key
      BY <3>1, <3>2
    <3>4. seg' \in [Slot -> SUBSET Key] /\ active' \subseteq Key
      BY <2>10 DEF Compact, Free
    <3> HIDE DEF V
    <3> QED
      BY <2>10, <3>1, <3>2, <3>3, <3>4 DEF Compact
  <2>11. CASE CompactRefused
    BY <2>11 DEF CompactRefused, AbortCycle, EndCycle
  <2>12. ASSUME NEW p \in Slot \X Key, copyLive(p) PROVE TypeOK'
    <3>1. p[2] \in Key
      OBVIOUS
    <3>2. seg' \in [Slot -> SUBSET Key] /\ active' \subseteq Key /\ old' = old
      <4>1. CASE UNCHANGED storeVars
        BY <4>1
      <4>2. CASE appendLocked(p[2])
        BY <4>2, <3>1, AppendLemma
      <4> QED
        BY <2>12, <4>1, <4>2 DEF copyLive
    <3> QED
      BY <2>12, <3>2 DEF copyLive
  <2>13. CASE CopyFails
    BY <2>13 DEF CopyFails, EndCycle
  <2>14. CASE removeVictims
    BY <2>14 DEF removeVictims, EndCycle
  <2> QED
    BY <1>7, <2>1, <2>2, <2>3, <2>4, <2>5, <2>6, <2>7, <2>8, <2>9, <2>10, <2>11, <2>12,
       <2>13, <2>14 DEF CycleStep
<1>8. CASE UNCHANGED vars
  BY <1>8 DEF TypeOK, vars, storeVars, barrierVars, uploadVars, putVars, cycleVars,
     markVars, sweepVars, historyVars
<1> QED
  BY <1>1, <1>2, <1>3, <1>4, <1>5, <1>6, <1>7, <1>8 DEF Next

\* Every reachable state of the collector is well-typed.
THEOREM TypeCorrect == Spec => []TypeOK
  BY TypeInit, TypeStep, PTL DEF Spec

----------------------------------------------------------------------------
(* Reachability in the Merkle DAG.                                         *)

\* Reachability is reflexive.
LEMMA ClosureSelf == ASSUME NEW k \in Key PROVE k \in Closure[k]
  BY DEF Closure

\* The closure of k is the least closed set that holds k.
LEMMA ClosureLeast ==
  ASSUME NEW k \in Key, NEW S \in SUBSET Key, k \in S, Closed(S)
  PROVE  Closure[k] \subseteq S
  BY DEF Closure

\* The closure of k is closed.
LEMMA ClosureClosed ==
  ASSUME NEW k \in Key
  PROVE  Closure[k] \in SUBSET Key /\ Closed(Closure[k])
<1>1. Closure[k] \subseteq Key
  BY DEF Closure
<1>2. ASSUME NEW x \in Closure[k], NEW c \in Children[x] PROVE c \in Closure[k]
  <2>1. x \in Key /\ c \in Key
    BY <1>1, ChildrenAssumption
  <2>2. ASSUME NEW S \in SUBSET Key, k \in S, Closed(S) PROVE c \in S
    <3>1. x \in S
      BY <2>2, ClosureLeast
    <3> QED
      BY <2>2, <3>1 DEF Closed
  <2> QED
    BY <2>1, <2>2 DEF Closure
<1> QED
  BY <1>1, <1>2 DEF Closed

\* What a child reaches, its parent reaches.
LEMMA ClosureChild ==
  ASSUME NEW k \in Key, NEW c \in Children[k]
  PROVE  c \in Key /\ Closure[c] \subseteq Closure[k]
<1>1. c \in Key
  BY ChildrenAssumption
<1>2. c \in Closure[k]
  BY ClosureSelf, ClosureClosed DEF Closed
<1> QED
  BY <1>1, <1>2, ClosureClosed, ClosureLeast

----------------------------------------------------------------------------
(* The inductive invariant.                                                *)

\* It holds initially.
LEMMA InvInit == Init => IndInv
<1> SUFFICES ASSUME Init PROVE IndInv
  OBVIOUS
<1>1. TypeOK
  BY TypeInit
<1>2. CaptureInv
  BY Zenon DEF Init, CaptureInv, Capture
<1>3. NoDanglingRef /\ LockInv /\ PutInv
  BY DEF Init, NoDanglingRef, LockInv, PutInv, Exclusive
<1>4. MarkInv /\ RootInv /\ SweepInv /\ BarrierInv
  BY DEF Init, MarkInv, RootInv, SweepInv, BarrierInv, Rooted, Capture
<1> QED
  BY <1>1, <1>2, <1>3, <1>4 DEF IndInv

\* A PUT whose walk has finished has seen its whole tree, and all of it is stored.
LEMMA WalkComplete ==
  ASSUME IndInv, NEW n \in Name, ppc[n] # "idle", pfront[n] = {}
  PROVE  Closure[proot[n]] \subseteq pseen[n] /\ pseen[n] \subseteq Stored
<1>1. pnext[n] = {} /\ proot[n] \in pseen[n] /\ pseen[n] \in SUBSET Key /\ proot[n] \in Key
  BY DEF IndInv, PutInv, TypeOK
<1>2. \A k \in pseen[n] : k \in Stored /\ Children[k] \subseteq pseen[n]
  BY <1>1 DEF IndInv, PutInv
<1>3. Closed(pseen[n])
  BY <1>2 DEF Closed
<1> QED
  BY <1>1, <1>2, <1>3, ClosureLeast

\* Once the mark is done, every referenced tree is marked or kept.
LEMMA LiveCovers ==
  ASSUME IndInv, gpc = "copy", NEW n \in Name, refs[n] # NoRoot
  PROVE  Closure[refs[n]] \subseteq marked \cup kept
<1>1. refs[n] \in Key /\ marked \in SUBSET Key
  BY DEF IndInv, TypeOK
<1>2. work = {} /\ Closed(marked)
  BY DEF IndInv, MarkInv, Closed
<1>3. Closure[refs[n]] \subseteq kept \/ refs[n] \in marked
  BY <1>2 DEF IndInv, RootInv, Rooted
<1> QED
  BY <1>1, <1>2, <1>3, ClosureLeast

\* When nothing is left to copy, the live keys all have survivors.
LEMMA CopyComplete ==
  ASSUME IndInv, gpc = "copy", pending = {}
  PROVE  Stored \cap (marked \cup kept) \subseteq Survivors(victims)
<1> SUFFICES ASSUME NEW k \in Stored, k \in marked \cup kept PROVE k \in Survivors(victims)
  OBVIOUS
<1>1. CASE k \in active
  BY <1>1 DEF Survivors
<1>2. ASSUME NEW s \in Slot, k \in seg[s] PROVE k \in Survivors(victims)
  <2>1. CASE s \in victims
    BY <1>2, <2>1 DEF IndInv, SweepInv
  <2>2. CASE s \notin victims
    BY <1>2, <2>2 DEF Survivors
  <2> QED
    BY <2>1, <2>2
<1> QED
  BY <1>1, <1>2 DEF Stored

\* Every step keeps the invariant.
LEMMA InvStep == IndInv /\ [Next]_vars => IndInv'
<1> SUFFICES ASSUME IndInv, [Next]_vars PROVE IndInv'
  OBVIOUS
<1> USE KeyAssumption, ChildrenAssumption, BoundAssumption
<1>0. TypeOK'
  BY TypeStep DEF IndInv
<1>1. ASSUME NEW s \in Slot, Age(s) PROVE IndInv'
  <2>0. seg' = seg /\ active' = active /\ Stored' = Stored
    BY <1>1 DEF Age, Stored
  <2>1. NoDanglingRef' /\ LockInv' /\ CaptureInv' /\ PutInv' /\ MarkInv' /\ RootInv' /\
     SweepInv' /\ BarrierInv'
    BY <1>1, <2>0 DEF IndInv, TypeOK, NoDanglingRef, LockInv, CaptureInv, PutInv, MarkInv,
       RootInv, SweepInv, BarrierInv, Survivors, Exclusive, Capture, Rooted, Age, storeVars,
       barrierVars, uploadVars, putVars, cycleVars, markVars, sweepVars, historyVars
  <2> QED
    BY <1>0, <2>1 DEF IndInv
<1>2. ASSUME NEW w \in Uploader, Upload(w) PROVE IndInv'
<2>1. ASSUME NEW k \in Key, observe(w, k) PROVE IndInv'
    <3>0. UNCHANGED storeVars /\ Stored' = Stored
      BY <2>1 DEF observe, storeVars, Stored
    <3>1. NoDanglingRef' /\ LockInv' /\ CaptureInv' /\ PutInv' /\ MarkInv' /\ RootInv' /\
       SweepInv'
      BY <2>1, <3>0 DEF IndInv, TypeOK, NoDanglingRef, LockInv, CaptureInv, PutInv, MarkInv,
         RootInv, SweepInv, Survivors, Exclusive, Capture, Rooted, observe, storeVars,
         barrierVars, uploadVars, putVars, cycleVars, markVars, sweepVars, historyVars
    <3>2. BarrierInv'
      BY <2>1, <3>0 DEF IndInv, TypeOK, BarrierInv, CaptureInv, Capture, observe, Phase,
         storeVars, barrierVars, uploadVars, putVars, cycleVars, markVars, sweepVars,
         historyVars
    <3> QED
      BY <1>0, <3>1, <3>2 DEF IndInv
<2>2. CASE HasHit(w)
    <3>0. UNCHANGED storeVars /\ Stored' = Stored
      BY <2>2 DEF HasHit, Confirm, storeVars, Stored
    <3>1. NoDanglingRef' /\ LockInv' /\ CaptureInv' /\ PutInv' /\ MarkInv' /\ RootInv' /\
       SweepInv' /\ BarrierInv'
      BY <2>2, <3>0 DEF IndInv, TypeOK, NoDanglingRef, LockInv, CaptureInv, PutInv, MarkInv,
         RootInv, SweepInv, BarrierInv, Survivors, Exclusive, Capture, Rooted, HasHit,
         Confirm, storeVars, barrierVars, uploadVars, putVars, cycleVars, markVars,
         sweepVars, historyVars
    <3> QED
      BY <1>0, <3>1 DEF IndInv
<2>3. CASE HasMiss(w)
    <3>0. UNCHANGED storeVars /\ Stored' = Stored
      BY <2>3 DEF HasMiss, storeVars, Stored
    <3>1. NoDanglingRef' /\ LockInv' /\ CaptureInv' /\ PutInv' /\ MarkInv' /\ RootInv' /\
       SweepInv' /\ BarrierInv'
      BY <2>3, <3>0 DEF IndInv, TypeOK, NoDanglingRef, LockInv, CaptureInv, PutInv, MarkInv,
         RootInv, SweepInv, BarrierInv, Survivors, Exclusive, Capture, Rooted, HasMiss,
         storeVars, barrierVars, uploadVars, putVars, cycleVars, markVars, sweepVars,
         historyVars
    <3> QED
      BY <1>0, <3>1 DEF IndInv
<2>4. CASE append(w)
    <3>k. wkey[w] \in Key
      BY <2>4 DEF append, IndInv, TypeOK
    <3>0. /\ Stored' = Stored \cup {wkey[w]}
          /\ \A s \in Slot : seg[s] # {} => seg'[s] = seg[s]
      BY <2>4, <3>k, AppendLemma DEF append, IndInv, TypeOK
    <3>1. NoDanglingRef' /\ LockInv' /\ CaptureInv' /\ PutInv' /\ MarkInv' /\ RootInv' /\
       SweepInv' /\ BarrierInv'
      BY <2>4, <3>0 DEF IndInv, TypeOK, NoDanglingRef, LockInv, CaptureInv, PutInv, MarkInv,
         RootInv, SweepInv, BarrierInv, Survivors, Exclusive, Capture, Rooted, append,
         Confirm, Compacting, storeVars, barrierVars, uploadVars, putVars, cycleVars,
         markVars, sweepVars, historyVars
    <3> QED
      BY <1>0, <3>1 DEF IndInv
<2>5. CASE WriteFails(w)
    <3>0. UNCHANGED storeVars /\ Stored' = Stored
      BY <2>5 DEF WriteFails, storeVars, Stored
    <3>1. NoDanglingRef' /\ LockInv' /\ CaptureInv' /\ PutInv' /\ MarkInv' /\ RootInv' /\
       SweepInv' /\ BarrierInv'
      BY <2>5, <3>0 DEF IndInv, TypeOK, NoDanglingRef, LockInv, CaptureInv, PutInv, MarkInv,
         RootInv, SweepInv, BarrierInv, Survivors, Exclusive, Capture, Rooted, WriteFails,
         storeVars, barrierVars, uploadVars, putVars, cycleVars, markVars, sweepVars,
         historyVars
    <3> QED
      BY <1>0, <3>1 DEF IndInv
  <2> QED
    BY <1>2, <2>1, <2>2, <2>3, <2>4, <2>5 DEF Upload
<1>3. ASSUME NEW n \in Name, NEW r \in Key, PrepareRef(n, r) PROVE IndInv'
  <2>0. UNCHANGED storeVars /\ Stored' = Stored
    BY <1>3 DEF PrepareRef, RefLockBusy, storeVars, Stored
  <2>1. NoDanglingRef' /\ LockInv' /\ CaptureInv' /\ PutInv' /\ MarkInv' /\ RootInv' /\
     SweepInv' /\ BarrierInv'
    BY <1>3, <2>0 DEF IndInv, TypeOK, NoDanglingRef, LockInv, CaptureInv, PutInv, MarkInv,
       RootInv, SweepInv, BarrierInv, Survivors, Exclusive, Capture, Rooted, PrepareRef,
       RefLockBusy, storeVars, barrierVars, uploadVars, putVars, cycleVars, markVars,
       sweepVars, historyVars
  <2> QED
    BY <1>0, <2>1 DEF IndInv
<1>4. ASSUME NEW n \in Name, PutStep(n) PROVE IndInv'
<2>1. ASSUME NEW k \in Key, CheckFound(n, k) PROVE IndInv'
    <3>0. UNCHANGED storeVars /\ Stored' = Stored
      BY <2>1 DEF CheckFound, storeVars, Stored
    <3>1. NoDanglingRef' /\ LockInv' /\ CaptureInv' /\ MarkInv' /\ RootInv' /\ SweepInv' /\
       BarrierInv'
      BY <2>1, <3>0 DEF IndInv, TypeOK, NoDanglingRef, LockInv, CaptureInv, MarkInv,
         RootInv, SweepInv, BarrierInv, Survivors, Exclusive, Capture, Rooted, CheckFound,
         storeVars, barrierVars, uploadVars, putVars, cycleVars, markVars, sweepVars,
         historyVars
    <3>2. PutInv'
      BY <2>1, <3>0 DEF IndInv, TypeOK, PutInv, Rooted, CheckFound, storeVars, barrierVars,
         uploadVars, putVars, cycleVars, markVars, sweepVars, historyVars
    <3> QED
      BY <1>0, <3>1, <3>2 DEF IndInv
<2>2. ASSUME NEW k \in Key, CheckMissing(n, k) PROVE IndInv'
    <3>0. UNCHANGED storeVars /\ Stored' = Stored
      BY <2>2 DEF CheckMissing, Release, storeVars, Stored
    <3>1. NoDanglingRef' /\ LockInv' /\ CaptureInv' /\ PutInv' /\ MarkInv' /\ RootInv' /\
       SweepInv' /\ BarrierInv'
      BY <2>2, <3>0 DEF IndInv, TypeOK, NoDanglingRef, LockInv, CaptureInv, PutInv, MarkInv,
         RootInv, SweepInv, BarrierInv, Survivors, Exclusive, Capture, Rooted, CheckMissing,
         Release, storeVars, barrierVars, uploadVars, putVars, cycleVars, markVars,
         sweepVars, historyVars
    <3> QED
      BY <1>0, <3>1 DEF IndInv
<2>3. CASE ObserveKeys(n)
    <3>0. UNCHANGED storeVars /\ Stored' = Stored
      BY <2>3 DEF ObserveKeys, storeVars, Stored
    <3>1. NoDanglingRef' /\ LockInv' /\ CaptureInv' /\ MarkInv' /\ RootInv' /\ SweepInv' /\
       BarrierInv'
      BY <2>3, <3>0 DEF IndInv, TypeOK, NoDanglingRef, LockInv, CaptureInv, MarkInv,
         RootInv, SweepInv, BarrierInv, Survivors, Exclusive, Capture, Rooted, ObserveKeys,
         storeVars, barrierVars, uploadVars, putVars, cycleVars, markVars, sweepVars,
         historyVars
    <3>2. PutInv'
      BY <2>3, <3>0 DEF IndInv, TypeOK, PutInv, LockInv, CaptureInv, Exclusive, Capture,
         Rooted, ObserveKeys, storeVars, barrierVars, uploadVars, putVars, cycleVars,
         markVars, sweepVars, historyVars
    <3> QED
      BY <1>0, <3>1, <3>2 DEF IndInv
<2>4. CASE PutRef(n)
    <3>0. UNCHANGED storeVars /\ Stored' = Stored
      BY <2>4 DEF PutRef, storeVars, Stored
    <3>1. LockInv' /\ CaptureInv' /\ PutInv' /\ MarkInv' /\ SweepInv' /\ BarrierInv'
      BY <2>4, <3>0 DEF IndInv, TypeOK, LockInv, CaptureInv, PutInv, MarkInv, SweepInv,
         BarrierInv, Survivors, Exclusive, Capture, Rooted, PutRef, storeVars, barrierVars,
         uploadVars, putVars, cycleVars, markVars, sweepVars, historyVars
    <3>2. NoDanglingRef'
      <4>1. Closure[proot[n]] \subseteq Stored
        BY <2>4, WalkComplete DEF PutRef, IndInv, PutInv
      <4> QED
        BY <2>4, <3>0, <4>1 DEF IndInv, TypeOK, NoDanglingRef, PutRef
    <3>3. RootInv'
      <4>1. gpc # "copy"
        BY <2>4 DEF PutRef, IndInv, LockInv, Exclusive
      <4>2. gpc \in Rooted => Closure[proot[n]] \subseteq grey
        BY <2>4, WalkComplete DEF PutRef, IndInv, PutInv
      <4> QED
        BY <2>4, <4>1, <4>2 DEF IndInv, TypeOK, RootInv, PutRef, barrierVars, cycleVars, markVars
    <3> QED
      BY <1>0, <3>1, <3>2, <3>3 DEF IndInv
<2>5. CASE PutFails(n)
    <3>0. UNCHANGED storeVars /\ Stored' = Stored
      BY <2>5 DEF PutFails, Release, storeVars, Stored
    <3>1. NoDanglingRef' /\ LockInv' /\ CaptureInv' /\ PutInv' /\ MarkInv' /\ RootInv' /\
       SweepInv' /\ BarrierInv'
      BY <2>5, <3>0 DEF IndInv, TypeOK, NoDanglingRef, LockInv, CaptureInv, PutInv, MarkInv,
         RootInv, SweepInv, BarrierInv, Survivors, Exclusive, Capture, Rooted, PutFails,
         Release, storeVars, barrierVars, uploadVars, putVars, cycleVars, markVars,
         sweepVars, historyVars
    <3> QED
      BY <1>0, <3>1 DEF IndInv
<2>6. CASE Commit(n)
    <3>0. UNCHANGED storeVars /\ Stored' = Stored
      BY <2>6 DEF Commit, Release, storeVars, Stored
    <3>1. NoDanglingRef' /\ LockInv' /\ CaptureInv' /\ PutInv' /\ MarkInv' /\ RootInv' /\
       SweepInv' /\ BarrierInv'
      BY <2>6, <3>0 DEF IndInv, TypeOK, NoDanglingRef, LockInv, CaptureInv, PutInv, MarkInv,
         RootInv, SweepInv, BarrierInv, Survivors, Exclusive, Capture, Rooted, Commit,
         Release, storeVars, barrierVars, uploadVars, putVars, cycleVars, markVars,
         sweepVars, historyVars
    <3> QED
      BY <1>0, <3>1 DEF IndInv
  <2> QED
    BY <1>4, <2>1, <2>2, <2>3, <2>4, <2>5, <2>6 DEF PutStep
<1>5. ASSUME NEW n \in Name, rmRef(n) PROVE IndInv'
  <2>0. UNCHANGED storeVars /\ Stored' = Stored
    BY <1>5 DEF rmRef, storeVars, Stored
  <2>1. NoDanglingRef' /\ LockInv' /\ CaptureInv' /\ PutInv' /\ MarkInv' /\ RootInv' /\
     SweepInv' /\ BarrierInv'
    BY <1>5, <2>0 DEF IndInv, TypeOK, NoDanglingRef, LockInv, CaptureInv, PutInv, MarkInv,
       RootInv, SweepInv, BarrierInv, Survivors, Exclusive, Capture, Rooted, rmRef,
       storeVars, barrierVars, uploadVars, putVars, cycleVars, markVars, sweepVars,
       historyVars
  <2> QED
    BY <1>0, <2>1 DEF IndInv
<1>6. ASSUME NEW l \in Lines, Run(l) PROVE IndInv'
  <2>0. UNCHANGED storeVars /\ Stored' = Stored
    BY <1>6 DEF Run, storeVars, Stored
  <2>1. NoDanglingRef' /\ LockInv' /\ CaptureInv' /\ PutInv' /\ MarkInv' /\ RootInv' /\
     SweepInv' /\ BarrierInv'
    BY <1>6, <2>0 DEF IndInv, TypeOK, NoDanglingRef, LockInv, CaptureInv, PutInv, MarkInv,
       RootInv, SweepInv, BarrierInv, Survivors, Exclusive, Capture, Rooted, Run, storeVars,
       barrierVars, uploadVars, putVars, cycleVars, markVars, sweepVars, historyVars
  <2> QED
    BY <1>0, <2>1 DEF IndInv
<1>7. CASE CycleStep
<2>1. CASE BeginBarrier
    <3>0. UNCHANGED storeVars /\ Stored' = Stored
      BY <2>1 DEF BeginBarrier, Sharing, storeVars, Stored
    <3>1. NoDanglingRef' /\ LockInv' /\ CaptureInv' /\ PutInv' /\ MarkInv' /\ RootInv' /\
       SweepInv' /\ BarrierInv'
      BY <2>1, <3>0 DEF IndInv, TypeOK, NoDanglingRef, LockInv, CaptureInv, PutInv, MarkInv,
         RootInv, SweepInv, BarrierInv, Survivors, Exclusive, Capture, Rooted, BeginBarrier,
         Sharing, storeVars, barrierVars, uploadVars, putVars, cycleVars, markVars,
         sweepVars, historyVars
    <3> QED
      BY <1>0, <3>1 DEF IndInv
<2>2. CASE Roots
    <3>0. UNCHANGED storeVars /\ Stored' = Stored
      BY <2>2 DEF Roots, storeVars, Stored
    <3>1. NoDanglingRef' /\ LockInv' /\ CaptureInv' /\ PutInv' /\ RootInv' /\ SweepInv' /\
       BarrierInv'
      BY <2>2, <3>0 DEF IndInv, TypeOK, NoDanglingRef, LockInv, CaptureInv, PutInv, RootInv,
         SweepInv, BarrierInv, Survivors, Exclusive, Capture, Rooted, Roots, storeVars,
         barrierVars, uploadVars, putVars, cycleVars, markVars, sweepVars, historyVars
    <3>2. MarkInv'
      BY <2>2, <3>0 DEF IndInv, TypeOK, MarkInv, NoDanglingRef, Rooted, Roots, storeVars,
         barrierVars, uploadVars, putVars, cycleVars, markVars, sweepVars, historyVars
    <3> QED
      BY <1>0, <3>1, <3>2 DEF IndInv
<2>3. CASE RootsFail
    <3>0. UNCHANGED storeVars /\ Stored' = Stored
      BY <2>3 DEF RootsFail, AbortCycle, EndCycle, storeVars, Stored
    <3>1. NoDanglingRef' /\ LockInv' /\ CaptureInv' /\ PutInv' /\ MarkInv' /\ RootInv' /\
       SweepInv' /\ BarrierInv'
      BY <2>3, <3>0 DEF IndInv, TypeOK, NoDanglingRef, LockInv, CaptureInv, PutInv, MarkInv,
         RootInv, SweepInv, BarrierInv, Survivors, Exclusive, Capture, Rooted, RootsFail,
         AbortCycle, EndCycle, storeVars, barrierVars, uploadVars, putVars, cycleVars,
         markVars, sweepVars, historyVars
    <3> QED
      BY <1>0, <3>1 DEF IndInv
<2>4. CASE NewMarkSet
    <3>0. UNCHANGED storeVars /\ Stored' = Stored
      BY <2>4 DEF NewMarkSet, storeVars, Stored
    <3>1. NoDanglingRef' /\ LockInv' /\ CaptureInv' /\ PutInv' /\ MarkInv' /\ RootInv' /\
       SweepInv' /\ BarrierInv'
      BY <2>4, <3>0 DEF IndInv, TypeOK, NoDanglingRef, LockInv, CaptureInv, PutInv, MarkInv,
         RootInv, SweepInv, BarrierInv, Survivors, Exclusive, Capture, Rooted, NewMarkSet,
         storeVars, barrierVars, uploadVars, putVars, cycleVars, markVars, sweepVars,
         historyVars
    <3> QED
      BY <1>0, <3>1 DEF IndInv
<2>5. ASSUME NEW k \in Key, Mark(k) PROVE IndInv'
    <3>0. UNCHANGED storeVars /\ Stored' = Stored
      BY <2>5 DEF Mark, storeVars, Stored
    <3>1. NoDanglingRef' /\ LockInv' /\ CaptureInv' /\ PutInv' /\ RootInv' /\ SweepInv' /\
       BarrierInv'
      BY <2>5, <3>0 DEF IndInv, TypeOK, NoDanglingRef, LockInv, CaptureInv, PutInv, RootInv,
         SweepInv, BarrierInv, Survivors, Exclusive, Capture, Rooted, Mark, storeVars,
         barrierVars, uploadVars, putVars, cycleVars, markVars, sweepVars, historyVars
    <3>2. MarkInv'
      <4>1. \A c \in Children[k] : Closure[c] \subseteq Closure[k]
        BY ClosureChild
      <4>2. \A x \in work' : x \in work \/ x \in Children[k]
        BY <2>5 DEF Mark
      <4>3. \A x \in marked' : Children[x] \subseteq marked' \cup work'
        BY <2>5 DEF Mark, IndInv, MarkInv
      <4> QED
        BY <2>5, <3>0, <4>1, <4>2, <4>3 DEF IndInv, TypeOK, MarkInv, Rooted, Mark
    <3> QED
      BY <1>0, <3>1, <3>2 DEF IndInv
<2>6. CASE MarkFails
    <3>0. UNCHANGED storeVars /\ Stored' = Stored
      BY <2>6 DEF MarkFails, AbortCycle, EndCycle, storeVars, Stored
    <3>1. NoDanglingRef' /\ LockInv' /\ CaptureInv' /\ PutInv' /\ MarkInv' /\ RootInv' /\
       SweepInv' /\ BarrierInv'
      BY <2>6, <3>0 DEF IndInv, TypeOK, NoDanglingRef, LockInv, CaptureInv, PutInv, MarkInv,
         RootInv, SweepInv, BarrierInv, Survivors, Exclusive, Capture, Rooted, MarkFails,
         AbortCycle, EndCycle, storeVars, barrierVars, uploadVars, putVars, cycleVars,
         markVars, sweepVars, historyVars
    <3> QED
      BY <1>0, <3>1 DEF IndInv
<2>7. CASE MarkDone
    <3>0. UNCHANGED storeVars /\ Stored' = Stored
      BY <2>7 DEF MarkDone, storeVars, Stored
    <3>1. NoDanglingRef' /\ LockInv' /\ CaptureInv' /\ PutInv' /\ MarkInv' /\ RootInv' /\
       SweepInv' /\ BarrierInv'
      BY <2>7, <3>0 DEF IndInv, TypeOK, NoDanglingRef, LockInv, CaptureInv, PutInv, MarkInv,
         RootInv, SweepInv, BarrierInv, Survivors, Exclusive, Capture, Rooted, MarkDone,
         storeVars, barrierVars, uploadVars, putVars, cycleVars, markVars, sweepVars,
         historyVars
    <3> QED
      BY <1>0, <3>1 DEF IndInv
<2>8. CASE LockSweep
    <3>0. UNCHANGED storeVars /\ Stored' = Stored
      BY <2>8 DEF LockSweep, Sharing, storeVars, Stored
    <3>1. NoDanglingRef' /\ LockInv' /\ CaptureInv' /\ PutInv' /\ MarkInv' /\ RootInv' /\
       SweepInv' /\ BarrierInv'
      BY <2>8, <3>0 DEF IndInv, TypeOK, NoDanglingRef, LockInv, CaptureInv, PutInv, MarkInv,
         RootInv, SweepInv, BarrierInv, Survivors, Exclusive, Capture, Rooted, LockSweep,
         Sharing, storeVars, barrierVars, uploadVars, putVars, cycleVars, markVars,
         sweepVars, historyVars
    <3> QED
      BY <1>0, <3>1 DEF IndInv
<2>9. CASE LockSweepCancelled
    <3>0. UNCHANGED storeVars /\ Stored' = Stored
      BY <2>9 DEF LockSweepCancelled, AbortCycle, EndCycle, storeVars, Stored
    <3>1. NoDanglingRef' /\ LockInv' /\ CaptureInv' /\ PutInv' /\ MarkInv' /\ RootInv' /\
       SweepInv' /\ BarrierInv'
      BY <2>9, <3>0 DEF IndInv, TypeOK, NoDanglingRef, LockInv, CaptureInv, PutInv, MarkInv,
         RootInv, SweepInv, BarrierInv, Survivors, Exclusive, Capture, Rooted,
         LockSweepCancelled, AbortCycle, EndCycle, storeVars, barrierVars, uploadVars,
         putVars, cycleVars, markVars, sweepVars, historyVars
    <3> QED
      BY <1>0, <3>1 DEF IndInv
<2>10. CASE Compact
    <3>0. Stored' = Stored
      BY <2>10 DEF Compact, Free, Stored, IndInv, TypeOK
    <3>1. NoDanglingRef' /\ LockInv' /\ CaptureInv' /\ PutInv' /\ MarkInv' /\ RootInv' /\
       BarrierInv'
      BY <2>10, <3>0 DEF IndInv, TypeOK, NoDanglingRef, LockInv, CaptureInv, PutInv,
         MarkInv, RootInv, BarrierInv, Survivors, Exclusive, Capture, Rooted, Compact,
         storeVars, barrierVars, uploadVars, putVars, cycleVars, markVars, sweepVars,
         historyVars
    <3>2. SweepInv'
      <4> DEFINE live == marked \cup grey
                V == selectVictims(live)
      <4>1. \A v \in V : v \in Slot /\ seg[v] # {}
        BY DEF selectVictims, IndInv, TypeOK
      <4>2. \A s \in Slot : seg[s] # {} => seg'[s] = seg[s]
        BY <2>10 DEF Compact, Free, IndInv, TypeOK
      <4>3. victims' = V /\ marked' = marked /\ kept' = grey
        BY <2>10 DEF Compact, markVars
      <4>4. Survivors(V) \subseteq Survivors(victims)'
        <5>1. CASE active = {}
          BY <2>10, <5>1, <4>3 DEF Compact, Survivors
        <5>2. CASE active # {}
          <6>1. PICK s \in Free : seg' = [seg EXCEPT ![s] = active] /\ active' = {}
            BY <2>10, <5>2 DEF Compact
          <6>2. s \in Slot \ V
            BY <4>1 DEF Free
          <6>3. seg'[s] = active /\ \A x \in Slot : seg[x] \subseteq seg'[x]
            BY <6>1, <6>2 DEF Free, IndInv, TypeOK
          <6> HIDE DEF V
          <6> QED
            BY <6>1, <6>2, <6>3, <4>3 DEF Survivors
        <5> QED
          BY <5>1, <5>2
      <4>5. ASSUME NEW v \in V, NEW k \in seg[v], k \in live, k \notin Survivors(V)
           PROVE  <<v, k>> \in pending'
        BY <2>10, <4>1, <4>5 DEF Compact, IndInv, TypeOK
      <4> HIDE DEF V
      <4> QED
        BY <4>1, <4>2, <4>3, <4>4, <4>5 DEF SweepInv
    <3> QED
      BY <1>0, <3>1, <3>2 DEF IndInv
<2>11. CASE CompactRefused
    <3>0. UNCHANGED storeVars /\ Stored' = Stored
      BY <2>11 DEF CompactRefused, AbortCycle, EndCycle, storeVars, Stored
    <3>1. NoDanglingRef' /\ LockInv' /\ CaptureInv' /\ PutInv' /\ MarkInv' /\ RootInv' /\
       SweepInv' /\ BarrierInv'
      BY <2>11, <3>0 DEF IndInv, TypeOK, NoDanglingRef, LockInv, CaptureInv, PutInv,
         MarkInv, RootInv, SweepInv, BarrierInv, Survivors, Exclusive, Capture, Rooted,
         CompactRefused, AbortCycle, EndCycle, storeVars, barrierVars, uploadVars, putVars,
         cycleVars, markVars, sweepVars, historyVars
    <3> QED
      BY <1>0, <3>1 DEF IndInv
<2>12. ASSUME NEW p \in Slot \X Key, copyLive(p) PROVE IndInv'
    <3>0. /\ Stored \subseteq Stored'
          /\ \A s \in Slot : seg[s] # {} => seg'[s] = seg[s]
      BY <2>12, AppendLemma DEF copyLive, storeVars, Stored, IndInv, TypeOK
    <3>1. NoDanglingRef' /\ LockInv' /\ CaptureInv' /\ PutInv' /\ MarkInv' /\ RootInv' /\
       BarrierInv'
      BY <2>12, <3>0 DEF IndInv, TypeOK, NoDanglingRef, LockInv, CaptureInv, PutInv,
         MarkInv, RootInv, BarrierInv, Survivors, Exclusive, Capture, Rooted, copyLive,
         storeVars, barrierVars, uploadVars, putVars, cycleVars, markVars, sweepVars,
         historyVars
    <3>2. SweepInv'
      <4>1. Survivors(victims) \cup {p[2]} \subseteq Survivors(victims)'
        <5>1. CASE p[2] \in Survivors(victims) /\ UNCHANGED storeVars
          BY <2>12, <5>1 DEF copyLive, storeVars, Survivors
        <5>2. CASE appendLocked(p[2])
          BY <2>12, <5>2, AppendSurvivors DEF copyLive, IndInv, TypeOK, SweepInv
        <5> QED
          BY <2>12, <5>1, <5>2 DEF copyLive
      <4>2. victims' = victims /\ marked' = marked /\ kept' = kept /\ pending' = pending \ {p}
        BY <2>12 DEF copyLive, markVars
      <4>3. gpc = "copy" /\ \A v \in victims : v \in Slot /\ seg'[v] = seg[v] /\ seg[v] # {}
        BY <2>12, <3>0 DEF copyLive, IndInv, TypeOK, SweepInv
      <4> QED
        BY <4>1, <4>2, <4>3 DEF IndInv, SweepInv
    <3> QED
      BY <1>0, <3>1, <3>2 DEF IndInv
<2>13. CASE CopyFails
    <3>0. UNCHANGED storeVars /\ Stored' = Stored
      BY <2>13 DEF CopyFails, EndCycle, storeVars, Stored
    <3>1. NoDanglingRef' /\ LockInv' /\ CaptureInv' /\ PutInv' /\ MarkInv' /\ RootInv' /\
       SweepInv' /\ BarrierInv'
      BY <2>13, <3>0 DEF IndInv, TypeOK, NoDanglingRef, LockInv, CaptureInv, PutInv,
         MarkInv, RootInv, SweepInv, BarrierInv, Survivors, Exclusive, Capture, Rooted,
         CopyFails, EndCycle, storeVars, barrierVars, uploadVars, putVars, cycleVars,
         markVars, sweepVars, historyVars
    <3> QED
      BY <1>0, <3>1 DEF IndInv
<2>14. CASE removeVictims
    <3>0. Stored' = Survivors(victims)
      BY <2>14 DEF removeVictims, Stored, Survivors, IndInv, TypeOK
    <3>k. Stored \cap (marked \cup kept) \subseteq Stored'
      BY <2>14, <3>0, CopyComplete DEF removeVictims
    <3>1. LockInv' /\ CaptureInv' /\ MarkInv' /\ RootInv' /\ SweepInv'
      BY <2>14, <3>0 DEF IndInv, TypeOK, LockInv, CaptureInv, MarkInv, RootInv, SweepInv,
         Survivors, Exclusive, Capture, Rooted, removeVictims, EndCycle, storeVars,
         barrierVars, uploadVars, putVars, cycleVars, markVars, sweepVars, historyVars
    <3>2. NoDanglingRef'
      <4>1. ASSUME NEW n \in Name, refs[n] # NoRoot PROVE Closure[refs[n]] \subseteq Stored'
        BY <2>14, <3>k, <4>1, LiveCovers DEF removeVictims, IndInv, NoDanglingRef
      <4> QED
        BY <2>14, <4>1 DEF removeVictims, NoDanglingRef
    <3>3. PutInv'
      BY <2>14 DEF removeVictims, EndCycle, putVars, IndInv, LockInv, Exclusive, PutInv
    <3>4. BarrierInv'
      BY <2>14, <3>k DEF removeVictims, EndCycle, historyVars, uploadVars, IndInv,
         BarrierInv, Capture
    <3> QED
      BY <1>0, <3>1, <3>2, <3>3, <3>4 DEF IndInv
  <2> QED
    BY <1>7, <2>1, <2>2, <2>3, <2>4, <2>5, <2>6, <2>7, <2>8, <2>9, <2>10, <2>11, <2>12,
       <2>13, <2>14 DEF CycleStep
<1>8. CASE UNCHANGED vars
  <2>0. UNCHANGED storeVars /\ Stored' = Stored
    BY <1>8 DEF vars, storeVars, Stored
  <2>1. NoDanglingRef' /\ LockInv' /\ CaptureInv' /\ PutInv' /\ MarkInv' /\ RootInv' /\
     SweepInv' /\ BarrierInv'
    BY <1>8, <2>0 DEF IndInv, TypeOK, NoDanglingRef, LockInv, CaptureInv, PutInv, MarkInv,
       RootInv, SweepInv, BarrierInv, Survivors, Exclusive, Capture, Rooted, vars,
       storeVars, barrierVars, uploadVars, putVars, cycleVars, markVars, sweepVars,
       historyVars
  <2> QED
    BY <1>0, <2>1 DEF IndInv
<1> QED
  BY <1>1, <1>2, <1>3, <1>4, <1>5, <1>6, <1>7, <1>8 DEF Next

\* IndInv is an invariant of the collector.
THEOREM Invariance == Spec => []IndInv
  BY InvInit, InvStep, PTL DEF Spec

----------------------------------------------------------------------------
(* What follows from it.                                                   *)

\* An accepted reference never dangles, for any trees, any number of clients
\* and any interleaving with cycles that succeed, fail or are cancelled.
THEOREM NoDangling == Spec => []NoDanglingRef
<1>1. IndInv => NoDanglingRef
  BY DEF IndInv
<1> QED
  BY <1>1, Invariance, PTL

\* The mark never runs into a missing object.
THEOREM MarkMeetsNoHole == Spec => []MarkNeverMissing
<1>1. IndInv => MarkNeverMissing
  <2> SUFFICES ASSUME IndInv, gpc = "mark", NEW k \in work PROVE k \in snap \cap Stored
    BY DEF MarkNeverMissing
  <2>1. k \in Closure[k]
    BY ClosureSelf DEF IndInv, TypeOK
  <2> QED
    BY <2>1 DEF IndInv, MarkInv
<1> QED
  BY <1>1, Invariance, PTL

\* No write that began under the barrier loses its object to that cycle.
THEOREM BarrierHolds == Spec => []BarrierKeepsWrites
<1>1. IndInv => BarrierKeepsWrites
  BY DEF IndInv, BarrierInv, BarrierKeepsWrites
<1> QED
  BY <1>1, Invariance, PTL

\* A step of the collector is a step of LiveStore or changes nothing there.
LEMMA LiveStep == IndInv /\ [Next]_vars => [Live!Next]_<<Stored, refs>>
<1> SUFFICES ASSUME IndInv, [Next]_vars, ~UNCHANGED <<Stored, refs>> PROVE Live!Next
  BY DEF Live!Next
<1> USE DEF storeVars
<1>1. ASSUME NEW w \in Uploader, append(w) PROVE Live!Next
  <2>1. wkey[w] \in Key /\ refs' = refs
    BY <1>1 DEF append, IndInv, TypeOK
  <2>2. Stored' = Stored \cup {wkey[w]}
    BY <1>1, <2>1, AppendLemma DEF append, IndInv, TypeOK
  <2> QED
    BY <2>1, <2>2 DEF Live!Next, Live!Store
<1>2. ASSUME NEW n \in Name, PutRef(n) PROVE Live!Next
  <2>1. Closure[proot[n]] \subseteq Stored /\ proot[n] \in Key
    BY <1>2, WalkComplete DEF PutRef, IndInv, PutInv, TypeOK
  <2>2. Stored' = Stored /\ refs' = [refs EXCEPT ![n] = proot[n]]
    BY <1>2 DEF PutRef, Stored
  <2> QED
    BY <2>1, <2>2 DEF Live!Next, Live!Accept
<1>3. ASSUME NEW n \in Name, rmRef(n) PROVE Live!Next
  BY <1>3 DEF rmRef, Stored, Live!Next, Live!Drop
<1>4. ASSUME NEW p \in Slot \X Key, copyLive(p) PROVE Live!Next
  <2>1. p[2] \in Key /\ refs' = refs
    BY <1>4 DEF copyLive
  <2>2. CASE UNCHANGED storeVars
    BY <2>1, <2>2 DEF Stored
  <2>3. CASE appendLocked(p[2])
    <3>1. Stored' = Stored \cup {p[2]}
      BY <2>1, <2>3, AppendLemma DEF IndInv, TypeOK
    <3> QED
      BY <2>1, <3>1 DEF Live!Next, Live!Store
  <2> QED
    BY <1>4, <2>2, <2>3 DEF copyLive
<1>5. CASE removeVictims
  <2> DEFINE S == Stored \ Survivors(victims)
  <2>1. Stored' = Survivors(victims) /\ Survivors(victims) \subseteq Stored
    BY <1>5 DEF removeVictims, Stored, Survivors, IndInv, TypeOK
  <2>2. Stored' = Stored \ S
    BY <2>1
  <2>3. S \in SUBSET Key
    BY DEF IndInv, TypeOK, Stored
  <2>4. ASSUME NEW n \in Name, refs[n] # NoRoot PROVE S \cap Closure[refs[n]] = {}
    BY <1>5, <2>4, CopyComplete, LiveCovers DEF removeVictims
  <2>5. S \cap Live!Referenced = {}
    BY <2>4 DEF Live!Referenced
  <2>6. refs' = refs
    BY <1>5 DEF removeVictims
  <2> HIDE DEF S
  <2> QED
    BY <2>2, <2>3, <2>5, <2>6 DEF Live!Next, Live!Reap
<1>6. CASE Compact
  <2>1. refs' = refs /\ Stored' = Stored
    BY <1>6 DEF Compact, Free, Stored, IndInv, TypeOK
  <2> QED
    BY <2>1
<1>7. ASSUME NEW w \in Uploader, Upload(w), ~append(w) PROVE Live!Next
  BY <1>7 DEF Upload, observe, HasHit, HasMiss, WriteFails, Stored
<1>8. ASSUME NEW n \in Name, PutStep(n), ~PutRef(n) PROVE Live!Next
  BY <1>8 DEF PutStep, CheckFound, CheckMissing, ObserveKeys, PutFails, Commit, Stored
<1>9. ASSUME NEW n \in Name, NEW r \in Key, PrepareRef(n, r) PROVE Live!Next
  BY <1>9 DEF PrepareRef, Stored
<1>10. ASSUME NEW s \in Slot, Age(s) PROVE Live!Next
  BY <1>10 DEF Age, Stored
<1>11. ASSUME NEW l \in Lines, Run(l) PROVE Live!Next
  BY <1>11 DEF Run, Stored
<1>12. CASE BeginBarrier \/ Roots \/ RootsFail \/ NewMarkSet \/ MarkFails \/ MarkDone
  BY <1>12 DEF BeginBarrier, Roots, RootsFail, NewMarkSet, MarkFails, MarkDone, Stored
<1>13. ASSUME NEW k \in Key, Mark(k) PROVE Live!Next
  BY <1>13 DEF Mark, Stored
<1>14. CASE LockSweep \/ LockSweepCancelled \/ CompactRefused \/ CopyFails
  BY <1>14 DEF LockSweep, LockSweepCancelled, CompactRefused, CopyFails, Stored
<1>15. CASE UNCHANGED vars
  BY <1>15 DEF vars, Stored
<1> QED
  BY <1>1, <1>2, <1>3, <1>4, <1>5, <1>6, <1>7, <1>8, <1>9, <1>10, <1>11, <1>12, <1>13,
     <1>14, <1>15 DEF Next, CycleStep

\* The collector implements LiveStore: whatever the cycles do, the user sees
\* objects stored, references accepted over complete trees, and only
\* unreferenced objects reaped.
THEOREM Implements == Spec => LiveSpec
<1>1. Init => Live!Init
  BY DEF Init, Live!Init, Stored
<1> QED
  BY <1>1, LiveStep, Invariance, PTL DEF Spec, LiveSpec, Live!Spec
=============================================================================

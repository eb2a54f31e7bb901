------------------------ MODULE WriteParallelProofs ------------------------
(***************************************************************************)
(* Machine-checked proofs about WriteParallel and its two producers, for   *)
(* every tree and every pack, any number of workers and any capacity of    *)
(* the channels.                                                           *)
(***************************************************************************)
EXTENDS WriteParallel, IngestProofs, NaturalsLemmas

----------------------------------------------------------------------------
(* The framing of a pack.  Pack folds Add over a sequence; the value of the *)
(* fold is found by taking the least length for which a claim would fail.   *)

\* The maximum of a set of positions.
LEMMA MaxOfTop ==
  ASSUME NEW k \in Nat, NEW s \in SUBSET (1..k), k \in s
  PROVE  Max(s) = k
<1>1. k \in s /\ \A y \in s : k >= y
  OBVIOUS
<1>2. \A x \in s : (\A y \in s : x >= y) => x = k
  OBVIOUS
<1> QED
  BY <1>1, <1>2 DEF Max

LEMMA MaxMember ==
  ASSUME NEW k \in Nat, NEW s \in SUBSET (1..k), s # {}
  PROVE  Max(s) \in s
<1> DEFINE T == {m \in Nat : \E x \in s : m = k - x}
<1>1. \A x \in s : k - x \in Nat
  OBVIOUS
<1>2. T \in SUBSET Nat /\ T # {} /\ \A x \in s : k - x \in T
  BY <1>1
<1>3. PICK n \in T : \A m \in T : n <= m
  BY <1>2, LeastNat
<1>4. PICK x \in s : n = k - x
  BY <1>3
<1>5. \A y \in s : x >= y
  <2> HIDE DEF T
  <2> SUFFICES ASSUME NEW y \in s PROVE x >= y
    OBVIOUS
  <2>1. k - x <= k - y
    BY <1>2, <1>3, <1>4
  <2> QED
    BY <2>1
<1> QED
  BY <1>5, Zenon DEF Max

\* The fold of Add over the objects at a set s of positions, in terms of its
\* values on smaller sets; and a function with those values.
FoldStep(p, f, s) == IF s = {} THEN <<>> ELSE P!Add(f[s \ {Max(s)}], p[Max(s)])

IsFold(p, k, f) == f = [s \in SUBSET (1..k) |-> FoldStep(p, f, s)]

LEMMA FoldExists ==
  ASSUME NEW p, NEW n \in Nat
  PROVE  \E f : IsFold(p, n, f)
<1> DEFINE T == {k \in Nat : ~\E f : IsFold(p, k, f)}
<1> SUFFICES ASSUME T # {} PROVE FALSE
  OBVIOUS
<1>1. PICK k \in T : \A m \in T : k <= m
  BY LeastNat
<1>2. CASE k = 0
  <2> DEFINE f == [s \in SUBSET (1..0) |-> <<>>]
  <2>1. \A s \in SUBSET (1..0) : s = {}
    OBVIOUS
  <2>2. IsFold(p, 0, f)
    BY <2>1 DEF IsFold, FoldStep
  <2> QED
    BY <1>2, <2>2
<1>3. CASE k # 0
  <2>1. k - 1 \in Nat /\ k - 1 \notin T
    BY <1>1, <1>3
  <2>2. PICK f : IsFold(p, k - 1, f)
    BY <2>1
  <2> DEFINE g == [s \in SUBSET (1..k) |-> IF k \in s THEN P!Add(f[s \ {k}], p[k]) ELSE f[s]]
  <2>3. ASSUME NEW s \in SUBSET (1..k)
        PROVE  g[s] = FoldStep(p, g, s)
    <3>1. CASE k \in s
      <4>1. Max(s) = k
        BY <3>1, MaxOfTop
      <4>2. s \ {k} \in SUBSET (1..k) /\ k \notin s \ {k}
        OBVIOUS
      <4>3. g[s \ {k}] = f[s \ {k}]
        BY <4>2
      <4>4. g[s] = P!Add(f[s \ {k}], p[k])
        BY <3>1
      <4> HIDE DEF g
      <4> QED
        BY <3>1, <4>1, <4>3, <4>4 DEF FoldStep
    <3>2. CASE k \notin s
      <4>1. s \in SUBSET (1..(k - 1))
        BY <2>1, <3>2
      <4>2. g[s] = FoldStep(p, f, s)
        BY <2>2, <3>2, <4>1 DEF IsFold
      <4>3. CASE s = {}
        BY <4>2, <4>3 DEF FoldStep
      <4>4. CASE s # {}
        <5>1. Max(s) \in s
          BY <4>4, MaxMember
        <5>2. s \ {Max(s)} \in SUBSET (1..k) /\ k \notin s \ {Max(s)}
          BY <3>2
        <5>3. g[s \ {Max(s)}] = f[s \ {Max(s)}]
          BY <5>2
        <5> HIDE DEF g
        <5> QED
          BY <4>2, <4>4, <5>3 DEF FoldStep
      <4> QED
        BY <4>3, <4>4
    <3> QED
      BY <3>1, <3>2
  <2>4. g = [s \in SUBSET (1..k) |-> g[s]]
    OBVIOUS
  <2> HIDE DEF g
  <2>5. IsFold(p, k, g)
    BY <2>3, <2>4 DEF IsFold
  <2> QED
    BY <2>5
<1> QED
  BY <1>2, <1>3

LEMMA FoldLeftIs ==
  ASSUME NEW p \in Seq(P!Object)
  PROVE  \E f : IsFold(p, Len(p), f) /\ FoldLeft(P!Add, <<>>, p) = f[1..Len(p)]
<1> DEFINE it == CHOOSE g : g = [s \in SUBSET DOMAIN p |-> FoldStep(p, g, s)]
<1>1. FoldLeft(P!Add, <<>>, p) = it[DOMAIN p]
  BY Zenon DEF FoldLeft, MapThenFoldSet, FoldStep
<1>2. DOMAIN p = 1..Len(p) /\ Len(p) \in Nat
  OBVIOUS
<1>3. \E g : g = [s \in SUBSET DOMAIN p |-> FoldStep(p, g, s)]
  <2>1. PICK g : IsFold(p, Len(p), g)
    BY <1>2, FoldExists
  <2> QED
    BY <1>2, <2>1, Zenon DEF IsFold
<1>4. it = [s \in SUBSET DOMAIN p |-> FoldStep(p, it, s)]
  BY <1>3, Zenon
<1> HIDE DEF it
<1> QED
  BY <1>1, <1>2, <1>4, Zenon DEF IsFold

\* The units that Add writes.
Framed == Seq({P!Magic} \cup {P!Record(o) : o \in P!Object})

LEMMA FoldFramed ==
  ASSUME NEW p \in Seq(P!Object), NEW f, IsFold(p, Len(p), f)
  PROVE  \A s \in SUBSET (1..Len(p)) : f[s] \in Framed
<1> DEFINE T == {k \in 0..Len(p) : \E s \in SUBSET (1..k) : f[s] \notin Framed}
<1>1. Len(p) \in Nat
  OBVIOUS
<1> SUFFICES ASSUME T # {} PROVE FALSE
  BY <1>1
<1>2. PICK k \in T : \A m \in T : k <= m
  <2>1. T \in SUBSET Nat
    BY <1>1
  <2> HIDE DEF T
  <2> QED
    BY <2>1, LeastNat
<1>3. PICK s \in SUBSET (1..k) : f[s] \notin Framed
  BY <1>2
<1>4. s \in SUBSET (1..Len(p)) /\ f[s] = FoldStep(p, f, s)
  BY <1>1, <1>3 DEF IsFold
<1>5. CASE s = {}
  BY <1>3, <1>4, <1>5 DEF FoldStep, Framed
<1>6. CASE s # {}
  <2>1. Max(s) \in s
    BY <1>4, <1>6, <1>1, MaxMember
  <2>2. k \in s
    <3> SUFFICES ASSUME k \notin s PROVE FALSE
      OBVIOUS
    <3>1. k \in 1..Len(p)
      <4>1. k \in 0..Len(p) /\ \E x \in s : x \in 1..k
        BY <1>2, <1>6
      <4> QED
        BY <1>1, <4>1
    <3>2. k - 1 \in 0..Len(p) /\ s \in SUBSET (1..(k - 1)) /\ ~(k <= k - 1)
      BY <1>1, <3>1
    <3>3. k - 1 \in T
      BY <1>3, <3>2
    <3> HIDE DEF T
    <3> QED
      BY <1>2, <3>2, <3>3
  <2>3. Max(s) = k /\ k \in 1..Len(p)
    BY <1>1, <2>2, MaxOfTop
  <2>4. f[s \ {k}] \in Framed
    <3>1. k - 1 \in 0..Len(p) /\ s \ {k} \in SUBSET (1..(k - 1)) /\ ~(k <= k - 1)
      BY <1>1, <2>3
    <3> QED
      BY <1>2, <3>1
  <2>5. f[s] = P!Add(f[s \ {k}], p[k])
    BY <1>4, <1>6, <2>3 DEF FoldStep
  <2>6. p[k] \in P!Object
    BY <2>3
  <2>7. \A w \in Framed : P!Add(w, p[k]) \in Framed
    <3> DEFINE U == {P!Magic} \cup {P!Record(o) : o \in P!Object}
    <3>1. P!Magic \in U /\ P!Record(p[k]) \in U
      BY <2>6
    <3> HIDE DEF U
    <3>2. \A w \in Seq(U) : P!Add(w, p[k]) \in Seq(U)
      BY <3>1 DEF P!Add, P!ensureHeader
    <3> QED
      BY <3>2 DEF Framed, U
  <2> QED
    BY <1>3, <2>4, <2>5, <2>7
<1> QED
  BY <1>5, <1>6

\* A pack is a sequence of units with the end marker last, and nowhere else.
LEMMA PackFramed ==
  ASSUME NEW p \in Seq(P!Object)
  PROVE  /\ P!Pack(p) \in Seq(P!Unit)
         /\ \A i \in DOMAIN P!Pack(p) : P!Pack(p)[i] = P!EndMark => i = Len(P!Pack(p))
<1>1. PICK f : IsFold(p, Len(p), f) /\ FoldLeft(P!Add, <<>>, p) = f[1..Len(p)]
  BY FoldLeftIs
<1>2. FoldLeft(P!Add, <<>>, p) \in Framed
  BY <1>1, FoldFramed
<1>3. PICK v \in Framed : P!Pack(p) = P!Close(v)
  <2>1. P!Pack(p) = P!Close(FoldLeft(P!Add, <<>>, p))
    BY Zenon DEF P!Pack, P!FoldLeft, P!MapThenFoldSet, P!Max, FoldLeft, MapThenFoldSet, Max
  <2> QED
    BY <1>2, <2>1, Zenon
<1>4. PICK w \in Framed : P!Pack(p) = Append(w, P!EndMark)
  <2>1. P!ensureHeader(v) \in Framed
    <3> DEFINE U == {P!Magic} \cup {P!Record(o) : o \in P!Object}
    <3>1. P!Magic \in U
      OBVIOUS
    <3> HIDE DEF U
    <3>2. \A x \in Seq(U) : P!ensureHeader(x) \in Seq(U)
      BY <3>1 DEF P!ensureHeader
    <3> QED
      BY <3>2 DEF Framed, U
  <2> QED
    BY <1>3, <2>1 DEF P!Close
<1>5. \A u \in {P!Magic} \cup {P!Record(o) : o \in P!Object} : u \in P!Unit /\ u # P!EndMark
  BY DEF P!Unit, P!Record, P!Magic, P!EndMark
<1>6. w \in Seq(P!Unit) /\ \A i \in DOMAIN w : w[i] # P!EndMark
  BY <1>5 DEF Framed
<1>7. P!EndMark \in P!Unit
  BY DEF P!Unit
<1> QED
  BY <1>4, <1>6, <1>7

\* So is what arrives of it, cut short or damaged.
LEMMA ReceivedFramed ==
  ASSUME NEW p \in Seq(P!Object), NEW r \in P!Received(P!Pack(p))
  PROVE  /\ r \in Seq(P!Unit)
         /\ \A i \in DOMAIN r : r[i] = P!EndMark => i = Len(r)
<1>1. PICK q \in Seq(P!Unit) : q = P!Pack(p) /\ \A i \in DOMAIN q : q[i] = P!EndMark => i = Len(q)
  BY PackFramed
<1>2. CASE \E n \in 0..Len(q) : r = SubSeq(q, 1, n)
  <2>1. PICK n \in 0..Len(q) : r = SubSeq(q, 1, n)
    BY <1>2
  <2>2. r \in Seq(P!Unit) /\ Len(r) = n /\ \A i \in 1..n : r[i] = q[i]
    BY <1>1, <2>1
  <2> QED
    BY <1>1, <2>1, <2>2
<1>3. CASE \E i \in DOMAIN q : r = [q EXCEPT ![i] = P!Junk]
  <2>1. PICK i \in DOMAIN q : r = [q EXCEPT ![i] = P!Junk]
    BY <1>3
  <2>2. P!Junk \in P!Unit /\ P!Junk # P!EndMark
    BY DEF P!Unit, P!Junk, P!EndMark
  <2>3. r \in Seq(P!Unit) /\ Len(r) = Len(q) /\ \A j \in DOMAIN q : r[j] = q[j] \/ r[j] = P!Junk
    BY <1>1, <2>1, <2>2
  <2> QED
    BY <1>1, <2>2, <2>3
<1> QED
  BY <1>1, <1>2, <1>3 DEF P!Received

----------------------------------------------------------------------------
(* The inductive invariant.                                                 *)

\* The initial states satisfy it.
LEMMA RunInit == Init => IndInv
<1> SUFFICES ASSUME Init PROVE IndInv
  OBVIOUS
<1> USE WriteParallelAssumption DEF Init
<1>1. BuildInv /\ IngestTypeOK
  BY BuildInit DEF BuildInv
<1>2. /\ stream \in Seq(P!Unit)
      /\ \A i \in DOMAIN stream : stream[i] = P!EndMark => i = Len(stream)
  <2>1. CASE stream = <<>>
    BY <2>1
  <2>2. CASE \E q \in Packs : stream \in P!Received(P!Pack(q))
    <3>1. PICK q \in Seq(P!Object) : stream \in P!Received(P!Pack(q))
      BY <2>2
    <3> QED
      BY <3>1, ReceivedFramed
  <2>3. source = "tree" => stream = <<>>
    OBVIOUS
  <2>4. source # "tree" => stream \in UNION {P!Received(P!Pack(q)) : q \in Packs}
    OBVIOUS
  <2> QED
    BY <2>1, <2>2, <2>3, <2>4
<1>3. TypeOK
  <2>1. /\ chClosed \in BOOLEAN /\ cancelled \in BOOLEAN /\ failed \in BOOLEAN /\ shut \in BOOLEAN
    BY Zenon
  <2>2. pos \in 1..(Len(stream) + 1)
    BY <1>2
  <2> QED
    BY <1>1, <2>1, <2>2 DEF TypeOK
<1>4. ReaderInv
  BY <1>2 DEF ReaderInv
<1>5. Holding /\ ErrorsReach /\ EndsClean /\ SyncedAtEnd
  BY DEF IngestInit, Holding, ErrorsReach, EndsClean, SyncedAtEnd
<1>6. NothingDropped
  BY DEF IngestInit, NothingDropped, EmittedHeld, ClaimedStored
<1> QED
  BY <1>1, <1>3, <1>4, <1>5, <1>6 DEF IndInv

\* The build is stepped by its goroutines and by the distributor.
LEMMA BuildKept == IndInv /\ [Next]_vars => BuildInv'
<1> SUFFICES ASSUME IndInv, [Next]_vars PROVE BuildInv'
  OBVIOUS
<1>0. BuildInv
  BY DEF IndInv
<1>1. ASSUME NEW n \in Node, Build(n) \/ BuildFails(n) PROVE BuildInv'
  BY <1>0, <1>1, BuildSteps DEF Build, BuildFails
<1>2. CASE BuildEnds
  BY <1>0, <1>2, ObjectsSteps DEF BuildEnds
<1>3. CASE Distribute
  BY <1>0, <1>3, ObjectsSteps
     DEF Distribute, NextBuilt, NextMagic, NextRecord, IteratorEnds, IteratorFails, Send,
         SendCancelled, Drain, Stopped
<1>4. ASSUME NEW w \in Writer, Work(w) PROVE UNCHANGED ingestVars
  BY <1>4
     DEF Work, Take, Leave, Duplicate, Claim, HasHit, HasMiss, HasFails, Prepare, PrepareFails,
         append, AppendFails, SealFails, BatchSync, BatchSyncFails, Report, Skip, WorkerFails
<1>5. CASE Return \/ ReturnSyncFails \/ CloseStore \/ Done \/ UNCHANGED vars
           \/ \E k \in OtherKeys : OtherAppend(k)
  <2>1. UNCHANGED ingestVars
    BY <1>5 DEF Return, ReturnSyncFails, CloseStore, Done, vars, OtherAppend
  <2> QED
    BY <1>0, <2>1, ObjectsSteps
<1> QED
  BY <1>0, <1>1, <1>2, <1>3, <1>4, <1>5, ObjectsSteps DEF Next

\* Only the distributor's reads move the Reader.
LEMMA ReaderStep == IndInv /\ [Next]_vars => ReaderInv'
<1> SUFFICES ASSUME IndInv, [Next]_vars PROVE ReaderInv'
  OBVIOUS
<1>0. ReaderInv /\ TypeOK
  BY DEF IndInv
<1>1. CASE UNCHANGED packVars
  BY <1>0, <1>1 DEF packVars, ReaderInv
<1>2. CASE NextMagic
  <2>1. pos' = 2 /\ stream' = stream /\ stream[1] = P!Magic
    BY <1>2 DEF NextMagic, P!ReadMagic
  <2> QED
    BY <1>0, <2>1 DEF ReaderInv
<1>3. CASE NextRecord
  <2>1. PICK o \in P!Object : P!ReadRecord(o)
    BY <1>3 DEF NextRecord
  <2>2. pos > 1 /\ pos' = pos + 1 /\ stream' = stream /\ stream[pos].unit = "record" /\ pos \in Nat
    BY <1>0, <2>1 DEF P!ReadRecord, P!Record, TypeOK
  <2> QED
    BY <1>0, <2>2 DEF ReaderInv
<1>4. CASE \E n \in Node : Build(n) \/ BuildFails(n)
  BY <1>1, <1>4 DEF Build, BuildFails
<1>5. CASE BuildEnds \/ Return \/ ReturnSyncFails \/ CloseStore \/ Done \/ UNCHANGED vars
           \/ \E k \in OtherKeys : OtherAppend(k)
  BY <1>1, <1>5 DEF BuildEnds, Return, ReturnSyncFails, CloseStore, Done, vars, OtherAppend
<1>6. CASE Distribute
  BY <1>1, <1>2, <1>3, <1>6
     DEF Distribute, NextBuilt, IteratorEnds, IteratorFails, Send, SendCancelled, Drain, Stopped,
         P!ReadEnd, P!StreamFails, P!packVars, packVars
<1>7. ASSUME NEW w \in Writer, Work(w) PROVE UNCHANGED packVars
  BY <1>7
     DEF Work, Take, Leave, Duplicate, Claim, HasHit, HasMiss, HasFails, Prepare, PrepareFails,
         append, AppendFails, SealFails, BatchSync, BatchSyncFails, Report, Skip, WorkerFails
<1> QED
  BY <1>1, <1>4, <1>5, <1>6, <1>7 DEF Next

\* Types and bounds.
LEMMA RunTypeStep == IndInv /\ [Next]_vars => TypeOK'
<1> SUFFICES ASSUME IndInv, [Next]_vars PROVE TypeOK'
  OBVIOUS
<1> USE DEF Move, distVars, chanVars, workVars, groupVars, storeVars, statVars, histVars, packVars,
          ingestVars, objectsVars, buildVars
<1>0. TypeOK /\ IngestTypeOK' /\ IngestTypeOK
  BY BuildKept DEF IndInv, BuildInv
<1> USE IngestAssumption, WriteParallelAssumption
<1>1. ASSUME NEW n \in Node, Build(n) PROVE TypeOK'
  BY <1>0, <1>1 DEF Build, runVars, TypeOK
<1>2. ASSUME NEW n \in Node, BuildFails(n) PROVE TypeOK'
  BY <1>0, <1>2 DEF BuildFails, runVars, TypeOK
<1>3. CASE BuildEnds
  BY <1>0, <1>3 DEF BuildEnds, runVars, TypeOK
<1>4. CASE NextBuilt
  <2>1. dobj' \in P!Object
    BY <1>0, <1>4 DEF NextBuilt, Receive, IngestTypeOK, P!Object
  <2> QED
    BY <1>0, <1>4, <2>1 DEF NextBuilt, TypeOK
<1>5. CASE NextMagic
  <2>1. pos' \in 1..(Len(stream') + 1)
    BY <1>0, <1>5 DEF NextMagic, P!ReadMagic, P!AtEnd, TypeOK
  <2> QED
    BY <1>0, <1>5, <2>1 DEF NextMagic, runVars, TypeOK
<1>6. CASE NextRecord
  <2>1. pos' \in 1..(Len(stream') + 1) /\ dobj' \in P!Object
    BY <1>0, <1>6 DEF NextRecord, P!ReadRecord, P!AtEnd, TypeOK
  <2> QED
    BY <1>0, <1>6, <2>1 DEF NextRecord, TypeOK
<1>7. CASE IteratorEnds
  BY <1>0, <1>7 DEF IteratorEnds, Drained, P!ReadEnd, P!packVars, TypeOK
<1>8. CASE IteratorFails
  BY <1>0, <1>8 DEF IteratorFails, Drained, P!StreamFails, P!packVars, Returns, TypeOK
<1>9. CASE Send
  <2>1. ch' \in Seq(P!Object) /\ Len(ch') <= ChanCap
    <3>1. dobj \in P!Object
      BY <1>9 DEF Send, IndInv, Holding
    <3> QED
      BY <1>0, <1>9, <3>1 DEF Send, TypeOK
  <2> QED
    BY <1>0, <1>9, <2>1 DEF Send, TypeOK
<1>10. CASE SendCancelled
  BY <1>0, <1>10 DEF SendCancelled, CancelBuild, TypeOK
<1>11. CASE Drain
  BY <1>0, <1>11 DEF Drain, runVars, TypeOK
<1>12. CASE Stopped
  BY <1>0, <1>12 DEF Stopped, MayStop, Drained, TypeOK
<1>13. ASSUME NEW w \in Writer, Take(w) PROVE TypeOK'
  <2>1. Head(ch) \in P!Object /\ ch' \in Seq(P!Object) /\ Len(ch') <= ChanCap
    BY <1>0, <1>13 DEF Take, TypeOK
  <2> QED
    BY <1>0, <1>13, <2>1 DEF Take, TypeOK
<1>14. ASSUME NEW w \in Writer, Leave(w) PROVE TypeOK'
  BY <1>0, <1>14 DEF Leave, TypeOK
<1>15. ASSUME NEW w \in Writer, Duplicate(w) PROVE TypeOK'
  BY <1>0, <1>15 DEF Duplicate, Skip, TypeOK
<1>16. ASSUME NEW w \in Writer, Claim(w) PROVE TypeOK'
  <2>1. wobj[w].key \in Key
    BY <1>16 DEF Claim, IndInv, Holding, P!Object
  <2> QED
    BY <1>0, <1>16, <2>1 DEF Claim, TypeOK
<1>17. ASSUME NEW w \in Writer, HasHit(w) PROVE TypeOK'
  BY <1>0, <1>17 DEF HasHit, Skip, TypeOK
<1>18. ASSUME NEW w \in Writer, HasMiss(w) PROVE TypeOK'
  BY <1>0, <1>18 DEF HasMiss, TypeOK
<1>19. ASSUME NEW w \in Writer, HasFails(w) PROVE TypeOK'
  BY <1>0, <1>19 DEF HasFails, WorkerFails, TypeOK
<1>20. ASSUME NEW w \in Writer, Prepare(w) PROVE TypeOK'
  BY <1>0, <1>20 DEF Prepare, TypeOK
<1>21. ASSUME NEW w \in Writer, PrepareFails(w) PROVE TypeOK'
  BY <1>0, <1>21 DEF PrepareFails, WorkerFails, TypeOK
<1>22. ASSUME NEW w \in Writer, append(w) PROVE TypeOK'
  <2>1. wobj[w].key \in Key
    BY <1>22 DEF append, IndInv, Holding, P!Object
  <2>2. stored' \subseteq Key /\ durable' \subseteq stored' /\ mine' \subseteq stored'
    BY <1>0, <1>22, <2>1 DEF append, TypeOK
  <2>3. pending' \in [Writer -> 0..(BatchSize - 1)]
    BY <1>0, <1>22 DEF append, TypeOK
  <2>4. /\ wpc' \in [Writer -> {"recv", "seen", "has", "prepare", "append", "sync", "fail", "ended"}]
        /\ wobj' \in [Writer -> P!Object \cup {NoObj}]
    BY <1>0, <1>22 DEF append, TypeOK
  <2> QED
    BY <1>0, <1>22, <2>2, <2>3, <2>4 DEF append, TypeOK
<1>23. ASSUME NEW w \in Writer, AppendFails(w) PROVE TypeOK'
  BY <1>0, <1>23 DEF AppendFails, WorkerFails, TypeOK
<1>24. ASSUME NEW w \in Writer, SealFails(w) PROVE TypeOK'
  <2>1. wobj[w].key \in Key
    BY <1>24 DEF SealFails, IndInv, Holding, P!Object
  <2>2. stored' \subseteq Key /\ durable' \subseteq stored' /\ mine' \subseteq stored'
    BY <1>0, <1>24, <2>1 DEF SealFails, WorkerFails, TypeOK
  <2> QED
    BY <1>0, <1>24, <2>2 DEF SealFails, WorkerFails, TypeOK
<1>25. ASSUME NEW w \in Writer, BatchSync(w) PROVE TypeOK'
  BY <1>0, <1>25 DEF BatchSync, FileSync, TypeOK
<1>26. ASSUME NEW w \in Writer, BatchSyncFails(w) PROVE TypeOK'
  BY <1>0, <1>26 DEF BatchSyncFails, FileSyncFails, WorkerFails, TypeOK
<1>27. ASSUME NEW w \in Writer, Report(w) PROVE TypeOK'
  BY <1>0, <1>27 DEF Report, Returns, TypeOK
<1>28. CASE Return
  BY <1>0, <1>28 DEF Return, FinalSync, FileSync, GroupEnded, TypeOK
<1>29. CASE ReturnSyncFails
  BY <1>0, <1>29 DEF ReturnSyncFails, FileSyncFails, GroupEnded, Returns, TypeOK
<1>30. CASE CloseStore
  BY <1>0, <1>30 DEF CloseStore, TypeOK
<1>31. ASSUME NEW k \in OtherKeys, OtherAppend(k) PROVE TypeOK'
  BY <1>0, <1>31 DEF OtherAppend, TypeOK
<1>32. CASE UNCHANGED vars
  BY <1>0, <1>32 DEF vars, runVars, TypeOK
<1> QED
  BY <1>1, <1>2, <1>3, <1>4, <1>5, <1>6, <1>7, <1>8, <1>9, <1>10, <1>11, <1>12, <1>13, <1>14,
     <1>15, <1>16, <1>17, <1>18, <1>19, <1>20, <1>21, <1>22, <1>23, <1>24, <1>25, <1>26,
     <1>27, <1>28, <1>29, <1>30, <1>31, <1>32
     DEF Next, Distribute, Work, Done

\* The distributor and the workers keep hold of the object they work on.
LEMMA HoldingStep == IndInv /\ [Next]_vars => Holding'
<1> SUFFICES ASSUME IndInv, [Next]_vars PROVE Holding'
  OBVIOUS
<1> USE DEF Move, distVars, chanVars, workVars, groupVars, storeVars, statVars, histVars, packVars,
          ingestVars, objectsVars, buildVars
<1>0. TypeOK /\ Holding /\ IngestTypeOK
  BY DEF IndInv, BuildInv
<1>1. ASSUME NEW n \in Node, Build(n) PROVE Holding'
  BY <1>0, <1>1 DEF Build, runVars, TypeOK, Holding
<1>2. ASSUME NEW n \in Node, BuildFails(n) PROVE Holding'
  BY <1>0, <1>2 DEF BuildFails, runVars, TypeOK, Holding
<1>3. CASE BuildEnds
  BY <1>0, <1>3 DEF BuildEnds, runVars, TypeOK, Holding
<1>4. CASE NextBuilt
  BY <1>0, <1>4 DEF NextBuilt, Receive, TypeOK, Holding, IngestTypeOK, P!Object
<1>5. CASE NextMagic
  BY <1>0, <1>5 DEF NextMagic, runVars, TypeOK, Holding
<1>6. CASE NextRecord
  BY <1>0, <1>6 DEF NextRecord, P!ReadRecord, TypeOK, Holding
<1>7. CASE IteratorEnds
  BY <1>0, <1>7 DEF IteratorEnds, Drained, P!ReadEnd, P!packVars, TypeOK, Holding
<1>8. CASE IteratorFails
  BY <1>0, <1>8 DEF IteratorFails, Drained, P!StreamFails, P!packVars, Returns, TypeOK, Holding
<1>9. CASE Send
  BY <1>0, <1>9 DEF Send, TypeOK, Holding
<1>10. CASE SendCancelled
  BY <1>0, <1>10 DEF SendCancelled, CancelBuild, TypeOK, Holding
<1>11. CASE Drain
  BY <1>0, <1>11 DEF Drain, runVars, TypeOK, Holding
<1>12. CASE Stopped
  BY <1>0, <1>12 DEF Stopped, MayStop, Drained, TypeOK, Holding
<1>13. ASSUME NEW w \in Writer, Take(w) PROVE Holding'
  <2>1. Head(ch) \in P!Object
    BY <1>0, <1>13 DEF Take, TypeOK
  <2> QED
    BY <1>0, <1>13, <2>1 DEF Take, TypeOK, Holding
<1>14. ASSUME NEW w \in Writer, Leave(w) PROVE Holding'
  BY <1>0, <1>14 DEF Leave, TypeOK, Holding
<1>15. ASSUME NEW w \in Writer, Duplicate(w) PROVE Holding'
  BY <1>0, <1>15 DEF Duplicate, Skip, TypeOK, Holding
<1>16. ASSUME NEW w \in Writer, Claim(w) PROVE Holding'
  BY <1>0, <1>16 DEF Claim, TypeOK, Holding
<1>17. ASSUME NEW w \in Writer, HasHit(w) PROVE Holding'
  BY <1>0, <1>17 DEF HasHit, Skip, TypeOK, Holding
<1>18. ASSUME NEW w \in Writer, HasMiss(w) PROVE Holding'
  BY <1>0, <1>18 DEF HasMiss, TypeOK, Holding
<1>19. ASSUME NEW w \in Writer, HasFails(w) PROVE Holding'
  BY <1>0, <1>19 DEF HasFails, WorkerFails, TypeOK, Holding
<1>20. ASSUME NEW w \in Writer, Prepare(w) PROVE Holding'
  BY <1>0, <1>20 DEF Prepare, TypeOK, Holding
<1>21. ASSUME NEW w \in Writer, PrepareFails(w) PROVE Holding'
  BY <1>0, <1>21 DEF PrepareFails, WorkerFails, TypeOK, Holding
<1>22. ASSUME NEW w \in Writer, append(w) PROVE Holding'
  BY <1>0, <1>22 DEF append, TypeOK, Holding
<1>23. ASSUME NEW w \in Writer, AppendFails(w) PROVE Holding'
  BY <1>0, <1>23 DEF AppendFails, WorkerFails, TypeOK, Holding
<1>24. ASSUME NEW w \in Writer, SealFails(w) PROVE Holding'
  BY <1>0, <1>24 DEF SealFails, WorkerFails, TypeOK, Holding
<1>25. ASSUME NEW w \in Writer, BatchSync(w) PROVE Holding'
  BY <1>0, <1>25 DEF BatchSync, FileSync, TypeOK, Holding
<1>26. ASSUME NEW w \in Writer, BatchSyncFails(w) PROVE Holding'
  BY <1>0, <1>26 DEF BatchSyncFails, FileSyncFails, WorkerFails, TypeOK, Holding
<1>27. ASSUME NEW w \in Writer, Report(w) PROVE Holding'
  BY <1>0, <1>27 DEF Report, Returns, TypeOK, Holding
<1>28. CASE Return
  BY <1>0, <1>28 DEF Return, FinalSync, FileSync, GroupEnded, TypeOK, Holding
<1>29. CASE ReturnSyncFails
  BY <1>0, <1>29 DEF ReturnSyncFails, FileSyncFails, GroupEnded, Returns, TypeOK, Holding
<1>30. CASE CloseStore
  BY <1>0, <1>30 DEF CloseStore, TypeOK, Holding
<1>31. ASSUME NEW k \in OtherKeys, OtherAppend(k) PROVE Holding'
  BY <1>0, <1>31 DEF OtherAppend, TypeOK, Holding
<1>32. CASE UNCHANGED vars
  BY <1>0, <1>32 DEF vars, runVars, TypeOK, Holding
<1> QED
  BY <1>1, <1>2, <1>3, <1>4, <1>5, <1>6, <1>7, <1>8, <1>9, <1>10, <1>11, <1>12, <1>13, <1>14,
     <1>15, <1>16, <1>17, <1>18, <1>19, <1>20, <1>21, <1>22, <1>23, <1>24, <1>25, <1>26,
     <1>27, <1>28, <1>29, <1>30, <1>31, <1>32
     DEF Next, Distribute, Work, Done

\* A build goroutine runs only until the build has returned, and touches nothing
\* of what objects publishes.
LEMMA BuildFrame ==
  ASSUME BuildInv, NEW n \in Node, BuildStep(n) \/ ReadFails(n)
  PROVE  ~closed /\ UNCHANGED <<closed, stop, buildErr, root>>
<1>1. bpc[n] \in {"read", "walk", "emit"}
  BY DEF BuildStep, ReadDir, OpenFile, Offload, Inline, Assemble, EntryFailed, Emit, EmitStopped,
         ReadFails
<1>2. ~closed
  BY <1>1, RootLast DEF BuildInv, Published
<1>3. UNCHANGED <<closed, stop, buildErr, root>>
  BY DEF BuildStep, ReadDir, OpenFile, Offload, Inline, Assemble, EntryFailed, Emit, EmitStopped,
         ReadFails, objectsVars
<1> QED
  BY <1>2, <1>3

\* Errors on their way to the group.
LEMMA ErrorsStep == IndInv /\ [Next]_vars => ErrorsReach'
<1> SUFFICES ASSUME IndInv, [Next]_vars PROVE ErrorsReach'
  OBVIOUS
<1> USE DEF Move, distVars, chanVars, workVars, groupVars, storeVars, statVars, histVars, packVars,
          ingestVars, objectsVars, buildVars
<1>0. TypeOK /\ ErrorsReach
  BY DEF IndInv
<1>1. ASSUME NEW n \in Node, Build(n) PROVE ErrorsReach'
  <2>1. UNCHANGED <<closed, stop, buildErr, root>>
    BY <1>1, BuildFrame DEF Build, IndInv
  <2> QED
    BY <1>0, <1>1, <2>1 DEF Build, runVars, TypeOK, ErrorsReach, GroupEnded
<1>2. ASSUME NEW n \in Node, BuildFails(n) PROVE ErrorsReach'
  <2>1. UNCHANGED <<closed, stop, buildErr, root>>
    BY <1>2, BuildFrame DEF BuildFails, IndInv
  <2> QED
    BY <1>0, <1>2, <2>1 DEF BuildFails, runVars, TypeOK, ErrorsReach, GroupEnded
<1>3. CASE BuildEnds
  BY <1>0, <1>3 DEF BuildEnds, BuildReturns, runVars, TypeOK, ErrorsReach, GroupEnded
<1>4. CASE NextBuilt
  BY <1>0, <1>4 DEF NextBuilt, Receive, TypeOK, ErrorsReach, GroupEnded
<1>5. CASE NextMagic
  BY <1>0, <1>5 DEF NextMagic, runVars, TypeOK, ErrorsReach, GroupEnded
<1>6. CASE NextRecord
  BY <1>0, <1>6 DEF NextRecord, P!ReadRecord, TypeOK, ErrorsReach, GroupEnded
<1>7. CASE IteratorEnds
  BY <1>0, <1>7 DEF IteratorEnds, Drained, P!ReadEnd, P!packVars, TypeOK, ErrorsReach, GroupEnded
<1>8. CASE IteratorFails
  BY <1>0, <1>8
     DEF IteratorFails, Drained, P!StreamFails, P!packVars, Returns, TypeOK, ErrorsReach,
         GroupEnded
<1>9. CASE Send
  BY <1>0, <1>9 DEF Send, TypeOK, ErrorsReach, GroupEnded
<1>10. CASE SendCancelled
  BY <1>0, <1>10 DEF SendCancelled, CancelBuild, TypeOK, ErrorsReach, GroupEnded
<1>11. CASE Drain
  BY <1>0, <1>11 DEF Drain, Receive, runVars, TypeOK, ErrorsReach, GroupEnded
<1>12. CASE Stopped
  BY <1>0, <1>12 DEF Stopped, MayStop, Drained, TypeOK, ErrorsReach, GroupEnded
<1>13. ASSUME NEW w \in Writer, Take(w) PROVE ErrorsReach'
  BY <1>0, <1>13 DEF Take, TypeOK, ErrorsReach, GroupEnded
<1>14. ASSUME NEW w \in Writer, Leave(w) PROVE ErrorsReach'
  BY <1>0, <1>14 DEF Leave, TypeOK, ErrorsReach, GroupEnded
<1>15. ASSUME NEW w \in Writer, Duplicate(w) PROVE ErrorsReach'
  BY <1>0, <1>15 DEF Duplicate, Skip, TypeOK, ErrorsReach, GroupEnded
<1>16. ASSUME NEW w \in Writer, Claim(w) PROVE ErrorsReach'
  BY <1>0, <1>16 DEF Claim, TypeOK, ErrorsReach, GroupEnded
<1>17. ASSUME NEW w \in Writer, HasHit(w) PROVE ErrorsReach'
  BY <1>0, <1>17 DEF HasHit, Skip, TypeOK, ErrorsReach, GroupEnded
<1>18. ASSUME NEW w \in Writer, HasMiss(w) PROVE ErrorsReach'
  BY <1>0, <1>18 DEF HasMiss, TypeOK, ErrorsReach, GroupEnded
<1>19. ASSUME NEW w \in Writer, HasFails(w) PROVE ErrorsReach'
  BY <1>0, <1>19 DEF HasFails, WorkerFails, TypeOK, ErrorsReach, GroupEnded
<1>20. ASSUME NEW w \in Writer, Prepare(w) PROVE ErrorsReach'
  BY <1>0, <1>20 DEF Prepare, TypeOK, ErrorsReach, GroupEnded
<1>21. ASSUME NEW w \in Writer, PrepareFails(w) PROVE ErrorsReach'
  BY <1>0, <1>21 DEF PrepareFails, WorkerFails, TypeOK, ErrorsReach, GroupEnded
<1>22. ASSUME NEW w \in Writer, append(w) PROVE ErrorsReach'
  BY <1>0, <1>22 DEF append, TypeOK, ErrorsReach, GroupEnded
<1>23. ASSUME NEW w \in Writer, AppendFails(w) PROVE ErrorsReach'
  BY <1>0, <1>23 DEF AppendFails, WorkerFails, TypeOK, ErrorsReach, GroupEnded
<1>24. ASSUME NEW w \in Writer, SealFails(w) PROVE ErrorsReach'
  BY <1>0, <1>24 DEF SealFails, WorkerFails, TypeOK, ErrorsReach, GroupEnded
<1>25. ASSUME NEW w \in Writer, BatchSync(w) PROVE ErrorsReach'
  BY <1>0, <1>25 DEF BatchSync, FileSync, TypeOK, ErrorsReach, GroupEnded
<1>26. ASSUME NEW w \in Writer, BatchSyncFails(w) PROVE ErrorsReach'
  BY <1>0, <1>26 DEF BatchSyncFails, FileSyncFails, WorkerFails, TypeOK, ErrorsReach, GroupEnded
<1>27. ASSUME NEW w \in Writer, Report(w) PROVE ErrorsReach'
  BY <1>0, <1>27 DEF Report, Returns, TypeOK, ErrorsReach, GroupEnded
<1>28. CASE Return
  BY <1>0, <1>28 DEF Return, FinalSync, FileSync, GroupEnded, TypeOK, ErrorsReach, GroupEnded
<1>29. CASE ReturnSyncFails
  BY <1>0, <1>29
     DEF ReturnSyncFails, FileSyncFails, GroupEnded, Returns, TypeOK, ErrorsReach, GroupEnded
<1>30. CASE CloseStore
  BY <1>0, <1>30 DEF CloseStore, TypeOK, ErrorsReach, GroupEnded
<1>31. ASSUME NEW k \in OtherKeys, OtherAppend(k) PROVE ErrorsReach'
  BY <1>0, <1>31 DEF OtherAppend, TypeOK, ErrorsReach, GroupEnded
<1>32. CASE UNCHANGED vars
  BY <1>0, <1>32 DEF vars, runVars, TypeOK, ErrorsReach, GroupEnded
<1> QED
  BY <1>1, <1>2, <1>3, <1>4, <1>5, <1>6, <1>7, <1>8, <1>9, <1>10, <1>11, <1>12, <1>13, <1>14,
     <1>15, <1>16, <1>17, <1>18, <1>19, <1>20, <1>21, <1>22, <1>23, <1>24, <1>25, <1>26,
     <1>27, <1>28, <1>29, <1>30, <1>31, <1>32
     DEF Next, Distribute, Work, Done

\* How the distributor leaves the producer and the channel.
LEMMA EndsStep == IndInv /\ [Next]_vars => EndsClean'
<1> SUFFICES ASSUME IndInv, [Next]_vars PROVE EndsClean'
  OBVIOUS
<1> USE DEF Move, distVars, chanVars, workVars, groupVars, storeVars, statVars, histVars, packVars,
          ingestVars, objectsVars, buildVars
<1>0. TypeOK /\ EndsClean /\ ErrorsReach /\ ReaderInv
  BY DEF IndInv
<1>1. ASSUME NEW n \in Node, Build(n) PROVE EndsClean'
  <2>1. ~closed /\ UNCHANGED <<closed, stop, buildErr, root>>
    BY <1>1, BuildFrame DEF Build, IndInv
  <2> QED
    BY <1>0, <1>1, <2>1 DEF Build, runVars, TypeOK, EndsClean, ErrorsReach, GroupEnded, Drained
<1>2. ASSUME NEW n \in Node, BuildFails(n) PROVE EndsClean'
  <2>1. ~closed /\ UNCHANGED <<closed, stop, buildErr, root>>
    BY <1>2, BuildFrame DEF BuildFails, IndInv
  <2> QED
    BY <1>0, <1>2, <2>1
       DEF BuildFails, runVars, TypeOK, EndsClean, ErrorsReach, GroupEnded, Drained
<1>3. CASE BuildEnds
  BY <1>0, <1>3
     DEF BuildEnds, BuildReturns, runVars, TypeOK, EndsClean, ErrorsReach, GroupEnded, Drained
<1>4. CASE NextBuilt
  BY <1>0, <1>4 DEF NextBuilt, Receive, TypeOK, EndsClean, ErrorsReach, GroupEnded, Drained
<1>5. CASE NextMagic
  BY <1>0, <1>5 DEF NextMagic, runVars, TypeOK, EndsClean, ErrorsReach, GroupEnded, Drained
<1>6. CASE NextRecord
  BY <1>0, <1>6 DEF NextRecord, P!ReadRecord, TypeOK, EndsClean, ErrorsReach, GroupEnded, Drained
<1>7. CASE IteratorEnds
  <2>1. dpc' = "ended" /\ chClosed' = TRUE /\ UNCHANGED <<ch, wpc, faults, source, closed, built, buildErr>>
    BY <1>7 DEF IteratorEnds
  <2>2. source = "tree" => Drained /\ ~buildErr
    BY <1>7 DEF IteratorEnds
  <2>3. source = "pack" => pos' \in 2..Len(stream') /\ stream'[pos'] = P!EndMark
    <3> SUFFICES ASSUME source = "pack"
                 PROVE  pos' \in 2..Len(stream') /\ stream'[pos'] = P!EndMark
      OBVIOUS
    <3>1. P!ReadEnd
      BY <1>7 DEF IteratorEnds
    <3>2. pos \in Nat /\ Len(stream) \in Nat
      BY <1>0 DEF TypeOK, ReaderInv
    <3> QED
      BY <3>1, <3>2 DEF P!ReadEnd, P!AtEnd, P!packVars
  <2> QED
    BY <1>0, <2>1, <2>2, <2>3 DEF EndsClean, Drained
<1>8. CASE IteratorFails
  BY <1>0, <1>8
     DEF IteratorFails, Drained, P!StreamFails, P!packVars, Returns, TypeOK, EndsClean,
         ErrorsReach, GroupEnded, Drained
<1>9. CASE Send
  BY <1>0, <1>9 DEF Send, TypeOK, EndsClean, ErrorsReach, GroupEnded, Drained
<1>10. CASE SendCancelled
  BY <1>0, <1>10
     DEF SendCancelled, CancelBuild, TypeOK, EndsClean, ErrorsReach, GroupEnded, Drained
<1>11. CASE Drain
  BY <1>0, <1>11 DEF Drain, Receive, runVars, TypeOK, EndsClean, ErrorsReach, GroupEnded, Drained
<1>12. CASE Stopped
  BY <1>0, <1>12
     DEF Stopped, MayStop, Drained, TypeOK, EndsClean, ErrorsReach, GroupEnded, Drained
<1>13. ASSUME NEW w \in Writer, Take(w) PROVE EndsClean'
  BY <1>0, <1>13 DEF Take, TypeOK, EndsClean, ErrorsReach, GroupEnded, Drained
<1>14. ASSUME NEW w \in Writer, Leave(w) PROVE EndsClean'
  BY <1>0, <1>14 DEF Leave, TypeOK, EndsClean, ErrorsReach, GroupEnded, Drained
<1>15. ASSUME NEW w \in Writer, Duplicate(w) PROVE EndsClean'
  BY <1>0, <1>15 DEF Duplicate, Skip, TypeOK, EndsClean, ErrorsReach, GroupEnded, Drained
<1>16. ASSUME NEW w \in Writer, Claim(w) PROVE EndsClean'
  BY <1>0, <1>16 DEF Claim, TypeOK, EndsClean, ErrorsReach, GroupEnded, Drained
<1>17. ASSUME NEW w \in Writer, HasHit(w) PROVE EndsClean'
  BY <1>0, <1>17 DEF HasHit, Skip, TypeOK, EndsClean, ErrorsReach, GroupEnded, Drained
<1>18. ASSUME NEW w \in Writer, HasMiss(w) PROVE EndsClean'
  BY <1>0, <1>18 DEF HasMiss, TypeOK, EndsClean, ErrorsReach, GroupEnded, Drained
<1>19. ASSUME NEW w \in Writer, HasFails(w) PROVE EndsClean'
  BY <1>0, <1>19 DEF HasFails, WorkerFails, TypeOK, EndsClean, ErrorsReach, GroupEnded, Drained
<1>20. ASSUME NEW w \in Writer, Prepare(w) PROVE EndsClean'
  BY <1>0, <1>20 DEF Prepare, TypeOK, EndsClean, ErrorsReach, GroupEnded, Drained
<1>21. ASSUME NEW w \in Writer, PrepareFails(w) PROVE EndsClean'
  BY <1>0, <1>21
     DEF PrepareFails, WorkerFails, TypeOK, EndsClean, ErrorsReach, GroupEnded, Drained
<1>22. ASSUME NEW w \in Writer, append(w) PROVE EndsClean'
  BY <1>0, <1>22 DEF append, TypeOK, EndsClean, ErrorsReach, GroupEnded, Drained
<1>23. ASSUME NEW w \in Writer, AppendFails(w) PROVE EndsClean'
  BY <1>0, <1>23 DEF AppendFails, WorkerFails, TypeOK, EndsClean, ErrorsReach, GroupEnded, Drained
<1>24. ASSUME NEW w \in Writer, SealFails(w) PROVE EndsClean'
  BY <1>0, <1>24 DEF SealFails, WorkerFails, TypeOK, EndsClean, ErrorsReach, GroupEnded, Drained
<1>25. ASSUME NEW w \in Writer, BatchSync(w) PROVE EndsClean'
  BY <1>0, <1>25 DEF BatchSync, FileSync, TypeOK, EndsClean, ErrorsReach, GroupEnded, Drained
<1>26. ASSUME NEW w \in Writer, BatchSyncFails(w) PROVE EndsClean'
  BY <1>0, <1>26
     DEF BatchSyncFails, FileSyncFails, WorkerFails, TypeOK, EndsClean, ErrorsReach, GroupEnded,
         Drained
<1>27. ASSUME NEW w \in Writer, Report(w) PROVE EndsClean'
  BY <1>0, <1>27 DEF Report, Returns, TypeOK, EndsClean, ErrorsReach, GroupEnded, Drained
<1>28. CASE Return
  BY <1>0, <1>28
     DEF Return, FinalSync, FileSync, GroupEnded, TypeOK, EndsClean, ErrorsReach, GroupEnded,
         Drained
<1>29. CASE ReturnSyncFails
  BY <1>0, <1>29
     DEF ReturnSyncFails, FileSyncFails, GroupEnded, Returns, TypeOK, EndsClean, ErrorsReach,
         GroupEnded, Drained
<1>30. CASE CloseStore
  BY <1>0, <1>30 DEF CloseStore, TypeOK, EndsClean, ErrorsReach, GroupEnded, Drained
<1>31. ASSUME NEW k \in OtherKeys, OtherAppend(k) PROVE EndsClean'
  BY <1>0, <1>31 DEF OtherAppend, TypeOK, EndsClean, ErrorsReach, GroupEnded, Drained
<1>32. CASE UNCHANGED vars
  BY <1>0, <1>32 DEF vars, runVars, TypeOK, EndsClean, ErrorsReach, GroupEnded, Drained
<1> QED
  BY <1>1, <1>2, <1>3, <1>4, <1>5, <1>6, <1>7, <1>8, <1>9, <1>10, <1>11, <1>12, <1>13, <1>14,
     <1>15, <1>16, <1>17, <1>18, <1>19, <1>20, <1>21, <1>22, <1>23, <1>24, <1>25, <1>26,
     <1>27, <1>28, <1>29, <1>30, <1>31, <1>32
     DEF Next, Distribute, Work, Done

\* What the last fsync has reached.
LEMMA SyncedStep == IndInv /\ [Next]_vars => SyncedAtEnd'
<1> SUFFICES ASSUME IndInv, [Next]_vars PROVE SyncedAtEnd'
  OBVIOUS
<1> USE DEF Move, distVars, chanVars, workVars, groupVars, storeVars, statVars, histVars, packVars,
          ingestVars, objectsVars, buildVars
<1>0. TypeOK /\ SyncedAtEnd /\ ErrorsReach
  BY DEF IndInv
<1>1. ASSUME NEW n \in Node, Build(n) PROVE SyncedAtEnd'
  BY <1>0, <1>1 DEF Build, runVars, SyncedAtEnd
<1>2. ASSUME NEW n \in Node, BuildFails(n) PROVE SyncedAtEnd'
  BY <1>0, <1>2 DEF BuildFails, runVars, SyncedAtEnd
<1>3. CASE BuildEnds
  BY <1>0, <1>3 DEF BuildEnds, runVars, SyncedAtEnd
<1>4. CASE NextBuilt
  BY <1>0, <1>4 DEF NextBuilt, Receive, TypeOK, SyncedAtEnd, ErrorsReach, GroupEnded
<1>5. CASE NextMagic
  BY <1>0, <1>5 DEF NextMagic, runVars, SyncedAtEnd
<1>6. CASE NextRecord
  BY <1>0, <1>6 DEF NextRecord, P!ReadRecord, TypeOK, SyncedAtEnd, ErrorsReach, GroupEnded
<1>7. CASE IteratorEnds
  BY <1>0, <1>7
     DEF IteratorEnds, Drained, P!ReadEnd, P!packVars, TypeOK, SyncedAtEnd, ErrorsReach,
         GroupEnded
<1>8. CASE IteratorFails
  BY <1>0, <1>8
     DEF IteratorFails, Drained, P!StreamFails, P!packVars, Returns, TypeOK, SyncedAtEnd,
         ErrorsReach, GroupEnded
<1>9. CASE Send
  BY <1>0, <1>9 DEF Send, TypeOK, SyncedAtEnd, ErrorsReach, GroupEnded
<1>10. CASE SendCancelled
  BY <1>0, <1>10 DEF SendCancelled, CancelBuild, TypeOK, SyncedAtEnd, ErrorsReach, GroupEnded
<1>11. CASE Drain
  BY <1>0, <1>11 DEF Drain, runVars, SyncedAtEnd
<1>12. CASE Stopped
  BY <1>0, <1>12 DEF Stopped, MayStop, Drained, TypeOK, SyncedAtEnd, ErrorsReach, GroupEnded
<1>13. ASSUME NEW w \in Writer, Take(w) PROVE SyncedAtEnd'
  BY <1>0, <1>13 DEF Take, TypeOK, SyncedAtEnd, ErrorsReach, GroupEnded
<1>14. ASSUME NEW w \in Writer, Leave(w) PROVE SyncedAtEnd'
  BY <1>0, <1>14 DEF Leave, TypeOK, SyncedAtEnd, ErrorsReach, GroupEnded
<1>15. ASSUME NEW w \in Writer, Duplicate(w) PROVE SyncedAtEnd'
  BY <1>0, <1>15 DEF Duplicate, Skip, TypeOK, SyncedAtEnd, ErrorsReach, GroupEnded
<1>16. ASSUME NEW w \in Writer, Claim(w) PROVE SyncedAtEnd'
  BY <1>0, <1>16 DEF Claim, TypeOK, SyncedAtEnd, ErrorsReach, GroupEnded
<1>17. ASSUME NEW w \in Writer, HasHit(w) PROVE SyncedAtEnd'
  BY <1>0, <1>17 DEF HasHit, Skip, TypeOK, SyncedAtEnd, ErrorsReach, GroupEnded
<1>18. ASSUME NEW w \in Writer, HasMiss(w) PROVE SyncedAtEnd'
  BY <1>0, <1>18 DEF HasMiss, TypeOK, SyncedAtEnd, ErrorsReach, GroupEnded
<1>19. ASSUME NEW w \in Writer, HasFails(w) PROVE SyncedAtEnd'
  BY <1>0, <1>19 DEF HasFails, WorkerFails, TypeOK, SyncedAtEnd, ErrorsReach, GroupEnded
<1>20. ASSUME NEW w \in Writer, Prepare(w) PROVE SyncedAtEnd'
  BY <1>0, <1>20 DEF Prepare, TypeOK, SyncedAtEnd, ErrorsReach, GroupEnded
<1>21. ASSUME NEW w \in Writer, PrepareFails(w) PROVE SyncedAtEnd'
  BY <1>0, <1>21 DEF PrepareFails, WorkerFails, TypeOK, SyncedAtEnd, ErrorsReach, GroupEnded
<1>22. ASSUME NEW w \in Writer, append(w) PROVE SyncedAtEnd'
  BY <1>0, <1>22 DEF append, TypeOK, SyncedAtEnd, ErrorsReach, GroupEnded
<1>23. ASSUME NEW w \in Writer, AppendFails(w) PROVE SyncedAtEnd'
  BY <1>0, <1>23 DEF AppendFails, WorkerFails, TypeOK, SyncedAtEnd, ErrorsReach, GroupEnded
<1>24. ASSUME NEW w \in Writer, SealFails(w) PROVE SyncedAtEnd'
  BY <1>0, <1>24 DEF SealFails, WorkerFails, TypeOK, SyncedAtEnd, ErrorsReach, GroupEnded
<1>25. ASSUME NEW w \in Writer, BatchSync(w) PROVE SyncedAtEnd'
  BY <1>0, <1>25 DEF BatchSync, FileSync, TypeOK, SyncedAtEnd, ErrorsReach, GroupEnded
<1>26. ASSUME NEW w \in Writer, BatchSyncFails(w) PROVE SyncedAtEnd'
  BY <1>0, <1>26
     DEF BatchSyncFails, FileSyncFails, WorkerFails, TypeOK, SyncedAtEnd, ErrorsReach,
         GroupEnded
<1>27. ASSUME NEW w \in Writer, Report(w) PROVE SyncedAtEnd'
  BY <1>0, <1>27 DEF Report, Returns, TypeOK, SyncedAtEnd, ErrorsReach, GroupEnded
<1>28. CASE Return
  BY <1>0, <1>28
     DEF Return, FinalSync, FileSync, GroupEnded, TypeOK, SyncedAtEnd, ErrorsReach, GroupEnded
<1>29. CASE ReturnSyncFails
  BY <1>0, <1>29
     DEF ReturnSyncFails, FileSyncFails, GroupEnded, Returns, TypeOK, SyncedAtEnd, ErrorsReach,
         GroupEnded
<1>30. CASE CloseStore
  BY <1>0, <1>30 DEF CloseStore, TypeOK, SyncedAtEnd, ErrorsReach, GroupEnded
<1>31. ASSUME NEW k \in OtherKeys, OtherAppend(k) PROVE SyncedAtEnd'
  BY <1>0, <1>31 DEF OtherAppend, TypeOK, SyncedAtEnd, ErrorsReach, GroupEnded
<1>32. CASE UNCHANGED vars
  BY <1>0, <1>32 DEF vars, runVars, TypeOK, SyncedAtEnd, ErrorsReach, GroupEnded
<1> QED
  BY <1>1, <1>2, <1>3, <1>4, <1>5, <1>6, <1>7, <1>8, <1>9, <1>10, <1>11, <1>12, <1>13, <1>14,
     <1>15, <1>16, <1>17, <1>18, <1>19, <1>20, <1>21, <1>22, <1>23, <1>24, <1>25, <1>26,
     <1>27, <1>28, <1>29, <1>30, <1>31, <1>32
     DEF Next, Distribute, Work, Done

\* A claimed key stays with its worker until it is stored.
LEMMA ClaimedStep == IndInv /\ [Next]_vars => ClaimedStored'
<1> SUFFICES ASSUME IndInv, [Next]_vars PROVE ClaimedStored'
  OBVIOUS
<1> USE DEF Move, distVars, chanVars, workVars, groupVars, storeVars, statVars, histVars, packVars,
          ingestVars, objectsVars, buildVars
<1>0. TypeOK /\ ClaimedStored /\ ErrorsReach
  BY DEF IndInv, NothingDropped
<1>1. ASSUME NEW n \in Node, Build(n) PROVE ClaimedStored'
  BY <1>0, <1>1 DEF Build, runVars, ClaimedStored
<1>2. ASSUME NEW n \in Node, BuildFails(n) PROVE ClaimedStored'
  BY <1>0, <1>2 DEF BuildFails, runVars, ClaimedStored
<1>3. CASE BuildEnds
  BY <1>0, <1>3 DEF BuildEnds, runVars, ClaimedStored
<1>4. CASE NextBuilt
  BY <1>0, <1>4 DEF NextBuilt, Receive, TypeOK, ClaimedStored, ErrorsReach
<1>5. CASE NextMagic
  BY <1>0, <1>5 DEF NextMagic, runVars, ClaimedStored
<1>6. CASE NextRecord
  BY <1>0, <1>6 DEF NextRecord, P!ReadRecord, TypeOK, ClaimedStored, ErrorsReach
<1>7. CASE IteratorEnds
  BY <1>0, <1>7
     DEF IteratorEnds, Drained, P!ReadEnd, P!packVars, TypeOK, ClaimedStored, ErrorsReach
<1>8. CASE IteratorFails
  BY <1>0, <1>8
     DEF IteratorFails, Drained, P!StreamFails, P!packVars, Returns, TypeOK, ClaimedStored,
         ErrorsReach
<1>9. CASE Send
  BY <1>0, <1>9 DEF Send, TypeOK, ClaimedStored, ErrorsReach
<1>10. CASE SendCancelled
  BY <1>0, <1>10 DEF SendCancelled, CancelBuild, TypeOK, ClaimedStored, ErrorsReach
<1>11. CASE Drain
  BY <1>0, <1>11 DEF Drain, runVars, ClaimedStored
<1>12. CASE Stopped
  BY <1>0, <1>12 DEF Stopped, MayStop, Drained, TypeOK, ClaimedStored, ErrorsReach
<1>13. ASSUME NEW w \in Writer, Take(w) PROVE ClaimedStored'
  BY <1>0, <1>13 DEF Take, TypeOK, ClaimedStored, ErrorsReach
<1>14. ASSUME NEW w \in Writer, Leave(w) PROVE ClaimedStored'
  BY <1>0, <1>14 DEF Leave, TypeOK, ClaimedStored, ErrorsReach
<1>15. ASSUME NEW w \in Writer, Duplicate(w) PROVE ClaimedStored'
  BY <1>0, <1>15 DEF Duplicate, Skip, TypeOK, ClaimedStored, ErrorsReach
<1>16. ASSUME NEW w \in Writer, Claim(w) PROVE ClaimedStored'
  BY <1>0, <1>16 DEF Claim, TypeOK, ClaimedStored, ErrorsReach
<1>17. ASSUME NEW w \in Writer, HasHit(w) PROVE ClaimedStored'
  BY <1>0, <1>17 DEF HasHit, Skip, TypeOK, ClaimedStored, ErrorsReach
<1>18. ASSUME NEW w \in Writer, HasMiss(w) PROVE ClaimedStored'
  BY <1>0, <1>18 DEF HasMiss, TypeOK, ClaimedStored, ErrorsReach
<1>19. ASSUME NEW w \in Writer, HasFails(w) PROVE ClaimedStored'
  BY <1>0, <1>19 DEF HasFails, WorkerFails, TypeOK, ClaimedStored, ErrorsReach
<1>20. ASSUME NEW w \in Writer, Prepare(w) PROVE ClaimedStored'
  BY <1>0, <1>20 DEF Prepare, TypeOK, ClaimedStored, ErrorsReach
<1>21. ASSUME NEW w \in Writer, PrepareFails(w) PROVE ClaimedStored'
  BY <1>0, <1>21 DEF PrepareFails, WorkerFails, TypeOK, ClaimedStored, ErrorsReach
<1>22. ASSUME NEW w \in Writer, append(w) PROVE ClaimedStored'
  BY <1>0, <1>22 DEF append, TypeOK, ClaimedStored, ErrorsReach
<1>23. ASSUME NEW w \in Writer, AppendFails(w) PROVE ClaimedStored'
  BY <1>0, <1>23 DEF AppendFails, WorkerFails, TypeOK, ClaimedStored, ErrorsReach
<1>24. ASSUME NEW w \in Writer, SealFails(w) PROVE ClaimedStored'
  BY <1>0, <1>24 DEF SealFails, WorkerFails, TypeOK, ClaimedStored, ErrorsReach
<1>25. ASSUME NEW w \in Writer, BatchSync(w) PROVE ClaimedStored'
  BY <1>0, <1>25 DEF BatchSync, FileSync, TypeOK, ClaimedStored, ErrorsReach
<1>26. ASSUME NEW w \in Writer, BatchSyncFails(w) PROVE ClaimedStored'
  BY <1>0, <1>26
     DEF BatchSyncFails, FileSyncFails, WorkerFails, TypeOK, ClaimedStored, ErrorsReach
<1>27. ASSUME NEW w \in Writer, Report(w) PROVE ClaimedStored'
  BY <1>0, <1>27 DEF Report, Returns, TypeOK, ClaimedStored, ErrorsReach
<1>28. CASE Return
  BY <1>0, <1>28 DEF Return, FinalSync, FileSync, GroupEnded, TypeOK, ClaimedStored, ErrorsReach
<1>29. CASE ReturnSyncFails
  BY <1>0, <1>29
     DEF ReturnSyncFails, FileSyncFails, GroupEnded, Returns, TypeOK, ClaimedStored, ErrorsReach
<1>30. CASE CloseStore
  BY <1>0, <1>30 DEF CloseStore, TypeOK, ClaimedStored, ErrorsReach
<1>31. ASSUME NEW k \in OtherKeys, OtherAppend(k) PROVE ClaimedStored'
  BY <1>0, <1>31 DEF OtherAppend, TypeOK, ClaimedStored, ErrorsReach
<1>32. CASE UNCHANGED vars
  BY <1>0, <1>32 DEF vars, runVars, TypeOK, ClaimedStored, ErrorsReach
<1> QED
  BY <1>1, <1>2, <1>3, <1>4, <1>5, <1>6, <1>7, <1>8, <1>9, <1>10, <1>11, <1>12, <1>13, <1>14,
     <1>15, <1>16, <1>17, <1>18, <1>19, <1>20, <1>21, <1>22, <1>23, <1>24, <1>25, <1>26,
     <1>27, <1>28, <1>29, <1>30, <1>31, <1>32
     DEF Next, Distribute, Work, Done

\* What a build goroutine does to the channel.
LEMMA EmitFrame ==
  ASSUME BuildInv, NEW n \in Node, BuildStep(n) \/ ReadFails(n)
  PROVE  \/ UNCHANGED <<sent, built>>
         \/ /\ sent' = [sent EXCEPT ![n] = sent[n] + 1]
            /\ built' = Append(built, Objs[n][sent[n] + 1])
            /\ Objs[n][sent[n] + 1] \in Key
<1>1. CASE Emit(n)
  <2>1. sent[n] \in Nat /\ sent[n] < Len(Objs[n]) /\ Objs[n] \in Seq(Key)
    BY <1>1, IngestAssumption DEF Emit, BuildInv, IngestTypeOK, CallResults
  <2>2. Objs[n][sent[n] + 1] \in Key
    BY <2>1
  <2> QED
    BY <1>1, <2>2 DEF Emit
<1>2. CASE ~Emit(n)
  BY <1>2 DEF BuildStep, ReadDir, OpenFile, Offload, Inline, Assemble, EntryFailed, EmitStopped,
              ReadFails, objectsVars
<1> QED
  BY <1>1, <1>2

\* The elements of the two channels after a send and after a receive.
LEMMA ChannelElements ==
  ASSUME NEW S, NEW s \in Seq(S)
  PROVE  /\ \A e \in S : ToSet(Append(s, e)) = ToSet(s) \cup {e}
         /\ s # <<>> => ToSet(s) = {Head(s)} \cup ToSet(Tail(s))
<1>1. ASSUME NEW e \in S PROVE ToSet(Append(s, e)) = ToSet(s) \cup {e}
  <2>1. /\ DOMAIN Append(s, e) = 1..(Len(s) + 1) /\ DOMAIN s = 1..Len(s)
        /\ \A i \in 1..Len(s) : Append(s, e)[i] = s[i]
        /\ Append(s, e)[Len(s) + 1] = e /\ Len(s) \in Nat
    OBVIOUS
  <2>2. 1..(Len(s) + 1) = 1..Len(s) \cup {Len(s) + 1}
    BY <2>1
  <2> QED
    BY <2>1, <2>2 DEF ToSet
<1>2. ASSUME s # <<>> PROVE ToSet(s) = {Head(s)} \cup ToSet(Tail(s))
  <2>1. /\ DOMAIN s = 1..Len(s) /\ DOMAIN Tail(s) = 1..(Len(s) - 1) /\ Len(s) \in Nat \ {0}
        /\ \A i \in 1..(Len(s) - 1) : Tail(s)[i] = s[i + 1]
        /\ Head(s) = s[1]
    BY <1>2
  <2>2. \A i \in 1..Len(s) : i = 1 \/ i - 1 \in 1..(Len(s) - 1)
    BY <2>1
  <2>3. \A i \in 2..Len(s) : s[i] = Tail(s)[i - 1]
    BY <2>1
  <2>4. ToSet(s) \subseteq {Head(s)} \cup ToSet(Tail(s))
    <3> SUFFICES ASSUME NEW i \in 1..Len(s), i # 1 PROVE s[i] \in ToSet(Tail(s))
      BY <2>1 DEF ToSet
    <3>1. i - 1 \in DOMAIN Tail(s) /\ Tail(s)[i - 1] = s[i]
      BY <2>1, <2>2, <2>3
    <3> QED
      BY <3>1 DEF ToSet
  <2>5. \A i \in 1..(Len(s) - 1) : i + 1 \in 1..Len(s)
    BY <2>1
  <2>6. {Head(s)} \cup ToSet(Tail(s)) \subseteq ToSet(s)
    BY <2>1, <2>5 DEF ToSet
  <2> QED
    BY <2>4, <2>6
<1> QED
  BY <1>1, <1>2

\* A key on its way stays on its way, unless something fails.
KeepsHeld == faults' = {} => InFlight \subseteq InFlight'

LEMMA HeldStep == IndInv /\ [Next]_vars => KeepsHeld
<1> SUFFICES ASSUME IndInv, [Next]_vars PROVE KeepsHeld
  OBVIOUS
<1> USE DEF Move, distVars, chanVars, workVars, groupVars, storeVars, statVars, histVars, packVars,
          ingestVars, objectsVars, buildVars
<1>0. TypeOK /\ ErrorsReach /\ Holding /\ IngestTypeOK
  BY DEF IndInv, BuildInv
<1>1. ASSUME NEW n \in Node, Build(n) PROVE KeepsHeld
  <2>1. built' = built \/ \E e \in Key : built' = Append(built, e)
    BY <1>1, EmitFrame DEF Build, IndInv
  <2>2. ToSet(built) \subseteq ToSet(built')
    <3>1. built \in Seq(Key)
      BY <1>0 DEF IngestTypeOK
    <3>2. \A e \in Key : ToSet(Append(built, e)) = ToSet(built) \cup {e}
      BY <3>1, ChannelElements
    <3> QED
      BY <2>1, <3>2
  <2> QED
    BY <1>1, <2>2 DEF Build, runVars, KeepsHeld, InFlight
<1>2. ASSUME NEW n \in Node, BuildFails(n) PROVE KeepsHeld
  <2>1. built' = built \/ \E e \in Key : built' = Append(built, e)
    BY <1>2, EmitFrame DEF BuildFails, IndInv
  <2>2. ToSet(built) \subseteq ToSet(built')
    <3>1. built \in Seq(Key)
      BY <1>0 DEF IngestTypeOK
    <3>2. \A e \in Key : ToSet(Append(built, e)) = ToSet(built) \cup {e}
      BY <3>1, ChannelElements
    <3> QED
      BY <2>1, <3>2
  <2> QED
    BY <1>2, <2>2 DEF BuildFails, runVars, KeepsHeld, InFlight
<1>3. CASE BuildEnds
  BY <1>0, <1>3 DEF BuildEnds, BuildReturns, runVars, KeepsHeld, InFlight, ErrorsReach
<1>4. CASE NextBuilt
  <2>1. ToSet(built) = {Head(built)} \cup ToSet(built')
    BY <1>0, <1>4, ChannelElements DEF NextBuilt, Receive, IngestTypeOK
  <2>2. dpc = "next" /\ dpc' = "send" /\ dobj'.key = Head(built) /\ UNCHANGED <<ch, wpc, wobj, seen>>
    BY <1>4 DEF NextBuilt
  <2> QED
    BY <2>1, <2>2 DEF KeepsHeld, InFlight
<1>5. CASE NextMagic
  BY <1>0, <1>5 DEF NextMagic, P!ReadMagic, runVars, KeepsHeld, InFlight, ErrorsReach
<1>6. CASE NextRecord
  BY <1>0, <1>6 DEF NextRecord, P!ReadRecord, TypeOK, KeepsHeld, InFlight, ErrorsReach
<1>7. CASE IteratorEnds
  BY <1>0, <1>7
     DEF IteratorEnds, Drained, P!ReadEnd, P!packVars, TypeOK, KeepsHeld, InFlight, ErrorsReach
<1>8. CASE IteratorFails
  BY <1>0, <1>8
     DEF IteratorFails, Drained, P!StreamFails, P!packVars, Returns, TypeOK, KeepsHeld,
         InFlight, ErrorsReach
<1>9. CASE Send
  <2>1. dobj \in P!Object /\ ch \in Seq(P!Object)
    BY <1>0, <1>9 DEF Send, Holding, TypeOK
  <2>2. dpc = "send" /\ ch' = Append(ch, dobj) /\ UNCHANGED <<built, wpc, wobj, seen>>
    BY <1>9 DEF Send
  <2>3. ToSet(ch') = ToSet(ch) \cup {dobj}
    BY <2>1, <2>2, ChannelElements
  <2> QED
    BY <2>2, <2>3 DEF KeepsHeld, InFlight
<1>10. CASE SendCancelled
  BY <1>0, <1>10 DEF SendCancelled, CancelBuild, TypeOK, KeepsHeld, InFlight, ErrorsReach
<1>11. CASE Drain
  BY <1>0, <1>11 DEF Drain, Receive, runVars, KeepsHeld, InFlight, ErrorsReach
<1>12. CASE Stopped
  BY <1>0, <1>12 DEF Stopped, MayStop, Drained, TypeOK, KeepsHeld, InFlight, ErrorsReach
<1>13. ASSUME NEW w \in Writer, Take(w) PROVE KeepsHeld
  <2>1. /\ ch \in Seq(P!Object) /\ ch # <<>> /\ ch' = Tail(ch) /\ wpc[w] = "recv"
        /\ wobj' = [wobj EXCEPT ![w] = Head(ch)] /\ wpc' = [wpc EXCEPT ![w] = "seen"]
        /\ UNCHANGED <<built, dpc, dobj, seen>>
    BY <1>0, <1>13 DEF Take, TypeOK
  <2>2. ToSet(ch) = {Head(ch)} \cup ToSet(ch')
    BY <2>1, ChannelElements
  <2>3. wpc'[w] = "seen" /\ wobj'[w] = Head(ch)
        /\ \A v \in Writer : v # w => wpc'[v] = wpc[v] /\ wobj'[v] = wobj[v]
    BY <1>0, <2>1 DEF TypeOK
  <2> QED
    BY <2>1, <2>2, <2>3 DEF KeepsHeld, InFlight
<1>14. ASSUME NEW w \in Writer, Leave(w) PROVE KeepsHeld
  BY <1>0, <1>14 DEF Leave, TypeOK, KeepsHeld, InFlight, ErrorsReach
<1>15. ASSUME NEW w \in Writer, Duplicate(w) PROVE KeepsHeld
  BY <1>0, <1>15 DEF Duplicate, Skip, TypeOK, KeepsHeld, InFlight, ErrorsReach
<1>16. ASSUME NEW w \in Writer, Claim(w) PROVE KeepsHeld
  BY <1>0, <1>16 DEF Claim, TypeOK, KeepsHeld, InFlight, ErrorsReach
<1>17. ASSUME NEW w \in Writer, HasHit(w) PROVE KeepsHeld
  BY <1>0, <1>17 DEF HasHit, Skip, TypeOK, KeepsHeld, InFlight, ErrorsReach
<1>18. ASSUME NEW w \in Writer, HasMiss(w) PROVE KeepsHeld
  BY <1>0, <1>18 DEF HasMiss, TypeOK, KeepsHeld, InFlight, ErrorsReach
<1>19. ASSUME NEW w \in Writer, HasFails(w) PROVE KeepsHeld
  BY <1>0, <1>19 DEF HasFails, WorkerFails, TypeOK, KeepsHeld, InFlight, ErrorsReach
<1>20. ASSUME NEW w \in Writer, Prepare(w) PROVE KeepsHeld
  BY <1>0, <1>20 DEF Prepare, TypeOK, KeepsHeld, InFlight, ErrorsReach
<1>21. ASSUME NEW w \in Writer, PrepareFails(w) PROVE KeepsHeld
  BY <1>0, <1>21 DEF PrepareFails, WorkerFails, TypeOK, KeepsHeld, InFlight, ErrorsReach
<1>22. ASSUME NEW w \in Writer, append(w) PROVE KeepsHeld
  BY <1>0, <1>22 DEF append, TypeOK, KeepsHeld, InFlight, ErrorsReach
<1>23. ASSUME NEW w \in Writer, AppendFails(w) PROVE KeepsHeld
  BY <1>0, <1>23 DEF AppendFails, WorkerFails, TypeOK, KeepsHeld, InFlight, ErrorsReach
<1>24. ASSUME NEW w \in Writer, SealFails(w) PROVE KeepsHeld
  BY <1>0, <1>24 DEF SealFails, WorkerFails, TypeOK, KeepsHeld, InFlight, ErrorsReach
<1>25. ASSUME NEW w \in Writer, BatchSync(w) PROVE KeepsHeld
  BY <1>0, <1>25 DEF BatchSync, FileSync, TypeOK, KeepsHeld, InFlight, ErrorsReach
<1>26. ASSUME NEW w \in Writer, BatchSyncFails(w) PROVE KeepsHeld
  BY <1>0, <1>26
     DEF BatchSyncFails, FileSyncFails, WorkerFails, TypeOK, KeepsHeld, InFlight, ErrorsReach
<1>27. ASSUME NEW w \in Writer, Report(w) PROVE KeepsHeld
  BY <1>0, <1>27 DEF Report, Returns, TypeOK, KeepsHeld, InFlight, ErrorsReach
<1>28. CASE Return
  BY <1>0, <1>28
     DEF Return, FinalSync, FileSync, GroupEnded, TypeOK, KeepsHeld, InFlight, ErrorsReach
<1>29. CASE ReturnSyncFails
  BY <1>0, <1>29
     DEF ReturnSyncFails, FileSyncFails, GroupEnded, Returns, TypeOK, KeepsHeld, InFlight,
         ErrorsReach
<1>30. CASE CloseStore
  BY <1>0, <1>30 DEF CloseStore, TypeOK, KeepsHeld, InFlight, ErrorsReach
<1>31. ASSUME NEW k \in OtherKeys, OtherAppend(k) PROVE KeepsHeld
  BY <1>0, <1>31 DEF OtherAppend, TypeOK, KeepsHeld, InFlight, ErrorsReach
<1>32. CASE UNCHANGED vars
  BY <1>0, <1>32 DEF vars, runVars, TypeOK, KeepsHeld, InFlight, ErrorsReach
<1> QED
  BY <1>1, <1>2, <1>3, <1>4, <1>5, <1>6, <1>7, <1>8, <1>9, <1>10, <1>11, <1>12, <1>13, <1>14,
     <1>15, <1>16, <1>17, <1>18, <1>19, <1>20, <1>21, <1>22, <1>23, <1>24, <1>25, <1>26,
     <1>27, <1>28, <1>29, <1>30, <1>31, <1>32
     DEF Next, Distribute, Work, Done

\* Whatever the producer emits is on its way, and only it adds to that.
LEMMA EmittedStep == IndInv /\ [Next]_vars => EmittedHeld'
<1> SUFFICES ASSUME IndInv, [Next]_vars, faults' = {}
             PROVE  EmittedHeld'
  BY DEF EmittedHeld
<1> USE IngestAssumption
<1>0. /\ TypeOK /\ ReaderInv /\ EmittedHeld /\ BuildInv /\ IngestTypeOK
      /\ InFlight \subseteq InFlight'
  BY HeldStep DEF IndInv, BuildInv, NothingDropped, KeepsHeld
<1>1. faults = {}
  BY DEF Next, vars, runVars, histVars, Build, BuildFails, BuildEnds, Distribute, NextBuilt,
         NextMagic, NextRecord, IteratorEnds, IteratorFails, Send, SendCancelled, Drain, Stopped,
         Work, Take, Leave, Duplicate, Claim, HasHit, HasMiss, HasFails, Prepare, PrepareFails,
         append, AppendFails, SealFails, BatchSync, BatchSyncFails, Report, Skip, WorkerFails,
         Return, ReturnSyncFails, OtherAppend, CloseStore, Done
<1>2. /\ source = "tree" => \A n \in Node : \A i \in 1..sent[n] : Objs[n][i] \in InFlight'
      /\ source = "pack" => \A i \in 2..(pos - 1) : stream[i].obj.key \in InFlight'
  BY <1>0, <1>1 DEF EmittedHeld
<1>3. CASE UNCHANGED <<source, sent, pos, stream>>
  BY <1>2, <1>3 DEF EmittedHeld
<1>4. ASSUME NEW n \in Node, Build(n) \/ BuildFails(n) PROVE EmittedHeld'
  <2>1. UNCHANGED <<source, stream, pos>> /\ source = "tree"
    BY <1>4 DEF Build, BuildFails, packVars
  <2>2. CASE UNCHANGED <<sent, built>>
    BY <1>3, <2>1, <2>2
  <2>3. CASE /\ sent' = [sent EXCEPT ![n] = sent[n] + 1]
             /\ built' = Append(built, Objs[n][sent[n] + 1]) /\ Objs[n][sent[n] + 1] \in Key
    <3>1. Objs[n][sent[n] + 1] \in ToSet(built')
      BY <1>0, <2>3, ChannelElements DEF IngestTypeOK
    <3>2. Objs[n][sent[n] + 1] \in InFlight'
      BY <3>1 DEF InFlight
    <3>3. ASSUME NEW m \in Node, NEW i \in 1..sent'[m]
          PROVE  i \in 1..sent[m] \/ (m = n /\ i = sent[n] + 1)
      BY <1>0, <2>3 DEF IngestTypeOK
    <3>4. \A m \in Node : \A i \in 1..sent'[m] : Objs[m][i] \in InFlight'
      BY <1>2, <2>1, <3>2, <3>3
    <3> QED
      BY <2>1, <3>4 DEF EmittedHeld
  <2>4. BuildStep(n) \/ ReadFails(n)
    BY <1>4 DEF Build, BuildFails
  <2> QED
    BY <1>0, <2>2, <2>3, <2>4, EmitFrame
<1>5. CASE NextMagic
  <2>1. UNCHANGED <<source, sent, stream>> /\ pos' = 2 /\ source = "pack"
    BY <1>5 DEF NextMagic, P!ReadMagic, ingestVars, buildVars
  <2>2. \A i \in 2..(pos' - 1) : FALSE
    BY <2>1
  <2> QED
    BY <2>1, <2>2 DEF EmittedHeld
<1>6. CASE NextRecord
  <2>1. PICK o \in P!Object : P!ReadRecord(o) /\ dobj' = o
    BY <1>6 DEF NextRecord
  <2>2. /\ source = "pack" /\ dpc' = "send" /\ stream' = stream /\ pos' = pos + 1 /\ source' = source
        /\ stream[pos] = P!Record(o) /\ pos \in Nat
    BY <1>0, <1>6, <2>1 DEF NextRecord, P!ReadRecord, TypeOK
  <2>3. stream[pos].obj.key \in InFlight'
    BY <2>1, <2>2 DEF InFlight, P!Record
  <2>4. \A i \in 2..(pos' - 1) : i \in 2..(pos - 1) \/ i = pos
    BY <2>2
  <2> QED
    BY <1>2, <2>2, <2>3, <2>4 DEF EmittedHeld
<1>7. CASE BuildEnds
  BY <1>3, <1>7 DEF BuildEnds, BuildReturns, buildVars, packVars
<1>8. CASE NextBuilt \/ Drain
  BY <1>3, <1>8 DEF NextBuilt, Drain, Receive, buildVars, packVars
<1>9. CASE IteratorEnds \/ IteratorFails
  BY <1>3, <1>9 DEF IteratorEnds, IteratorFails, P!ReadEnd, P!StreamFails, P!packVars, packVars,
                    ingestVars, buildVars
<1>10. CASE Send \/ SendCancelled \/ Stopped
  BY <1>3, <1>10 DEF Send, SendCancelled, Stopped, CancelBuild, packVars, ingestVars, buildVars
<1>11. ASSUME NEW w \in Writer, Work(w) PROVE UNCHANGED <<source, sent, pos, stream>>
  BY <1>11
     DEF Work, Take, Leave, Duplicate, Claim, HasHit, HasMiss, HasFails, Prepare, PrepareFails,
         append, AppendFails, SealFails, BatchSync, BatchSyncFails, Report, Skip, WorkerFails,
         packVars, ingestVars, buildVars
<1>12. CASE Return \/ ReturnSyncFails \/ CloseStore \/ UNCHANGED vars
            \/ \E k \in OtherKeys : OtherAppend(k)
  BY <1>3, <1>12 DEF Return, ReturnSyncFails, CloseStore, OtherAppend, vars, packVars, ingestVars,
                     buildVars
<1> QED
  BY <1>3, <1>4, <1>5, <1>6, <1>7, <1>8, <1>9, <1>10, <1>11, <1>12 DEF Next, Distribute, Done

\* Hence the invariant holds in every reachable state.
LEMMA RunInvariant == Spec => []IndInv
<1>1. IndInv /\ [Next]_vars => IndInv'
  <2> SUFFICES ASSUME IndInv, [Next]_vars PROVE IndInv'
    OBVIOUS
  <2>1. TypeOK' /\ BuildInv' /\ ReaderInv' /\ Holding' /\ ErrorsReach' /\ EndsClean' /\ SyncedAtEnd'
    BY RunTypeStep, BuildKept, ReaderStep, HoldingStep, ErrorsStep, EndsStep, SyncedStep
  <2>2. NothingDropped'
    BY EmittedStep, ClaimedStep DEF NothingDropped
  <2> QED
    BY <2>1, <2>2 DEF IndInv
<1> QED
  BY RunInit, <1>1, PTL DEF Spec

----------------------------------------------------------------------------
(* Theorems.                                                                *)

\* Types, and the bounds of the channels, the pool and the batches, whatever the
\* schedule of the goroutines.
THEOREM RunTypeCorrect == Spec => []TypeOK
<1>1. IndInv => TypeOK
  BY DEF IndInv
<1> QED
  BY RunInvariant, <1>1, PTL

\* ingest: no leaf or index node of a directory is emitted before all objects of the
\* entries under it, of calls that succeed and of calls that fail.
THEOREM ChildrenAlwaysFirst == Spec => []ChildrenFirst
<1>1. IndInv => ChildrenFirst
  BY ChildrenEmitted DEF IndInv
<1> QED
  BY RunInvariant, <1>1, PTL

\* WriteParallel: whatever a run appended is durable when the call returns, with
\* or without an error, unless the disk failed.
THEOREM PrefixAlwaysDurable == Spec => []PrefixDurable
<1>1. IndInv => PrefixDurable
  BY DEF IndInv, TypeOK, SyncedAtEnd, PrefixDurable
<1> QED
  BY RunInvariant, <1>1, PTL

\* When the call returns, so have the workers, the distributor and every build
\* call.
THEOREM NothingEverLeftRunning == Spec => []NothingLeftRunning
<1>1. IndInv => NothingLeftRunning
  <2> SUFFICES ASSUME IndInv, result # "none" PROVE GroupEnded /\ (source = "tree" =>
                        closed /\ \A n \in Node : bpc[n] \in {"idle", "done"})
    BY DEF NothingLeftRunning
  <2>1. GroupEnded
    BY DEF IndInv, ErrorsReach
  <2>2. source = "tree" => closed
    BY <2>1 DEF IndInv, EndsClean, GroupEnded, Drained
  <2>3. closed => \A n \in Node : bpc[n] \in {"idle", "done"}
    BY RootLast DEF IndInv, BuildInv, Published
  <2> QED
    BY <2>1, <2>2, <2>3
<1> QED
  BY RunInvariant, <1>1, PTL

\* A tree build whose run met no error has succeeded.
LEMMA CleanBuild ==
  ASSUME IndInv, source = "tree", dpc = "ended", faults = {}
  PROVE  res[RootNode] = "ok" /\ root = Last(Objs[RootNode])
<1>1. closed /\ ~buildErr /\ ~stop
  BY DEF IndInv, EndsClean, ErrorsReach, Drained
<1>2. bpc[RootNode] = "done" /\ res[RootNode] # "err"
  BY <1>1 DEF IndInv, BuildInv, Published
<1>3. RootNode \in Node /\ res[RootNode] \in {"none", "ok", "err", "stopped"}
  BY IngestAssumption DEF IndInv, BuildInv, IngestTypeOK
<1>4. res[RootNode] # "none" /\ res[RootNode] # "stopped"
  BY <1>1, <1>2, <1>3 DEF IndInv, BuildInv, CallResults
<1> QED
  BY <1>1, <1>2, <1>3, <1>4 DEF IndInv, BuildInv, Published

\* The first error is what the caller gets, never the cancellation it caused; and
\* without one the call succeeds, the root set.
THEOREM CauseAlwaysReported == Spec => []CauseReported
<1>1. IndInv => CauseReported
  <2> SUFFICES ASSUME IndInv PROVE CauseReported
    OBVIOUS
  <2>1. result = "err" => egErr \in faults
    BY DEF IndInv, ErrorsReach
  <2>2. result # "none" /\ faults = {} => result = "ok" /\ dpc = "ended"
    BY DEF IndInv, ErrorsReach, GroupEnded, TypeOK
  <2>3. result # "none" /\ faults = {} /\ source = "tree" => root = Last(Objs[RootNode])
    BY <2>2, CleanBuild
  <2> QED
    BY <2>1, <2>2, <2>3 DEF CauseReported
<1> QED
  BY RunInvariant, <1>1, PTL

----------------------------------------------------------------------------
(* The refinement.                                                          *)

\* A unit that is a record carries an object.
LEMMA RecordUnits ==
  /\ \A u \in P!Unit : u.unit = "record" => u.obj \in P!Object /\ u.obj.key \in Key
  /\ P!Junk.unit # "record" /\ P!Magic.unit # "record" /\ P!EndMark.unit # "record"
  /\ P!Junk # P!Magic /\ P!Junk # P!EndMark
BY DEF P!Unit, P!Record, P!Magic, P!EndMark, P!Junk, P!Object

\* When the group has ended without an error, the input was read to its end and
\* all of it is stored.
LEMMA CleanEnd ==
  ASSUME IndInv, GroupEnded, egErr = "none"
  PROVE  Intact /\ Wanted \subseteq stored
<1> USE IngestAssumption, WriteParallelAssumption
<1>1. faults = {} /\ dpc = "ended" /\ \A w \in Writer : wpc[w] = "ended"
  BY DEF IndInv, ErrorsReach, GroupEnded
<1>2. built = <<>> /\ ch = <<>>
  <2>1. PICK w \in Writer : wpc[w] = "ended"
    BY <1>1
  <2> QED
    BY <1>1, <2>1 DEF IndInv, EndsClean, Drained, TypeOK
<1>3. InFlight \subseteq stored
  <2>1. ToSet(built) = {} /\ ToSet(ch) = {}
    BY <1>2 DEF ToSet
  <2>2. InFlight \subseteq seen
    BY <1>1, <2>1 DEF InFlight
  <2>3. seen \subseteq stored
    BY <1>1 DEF IndInv, NothingDropped, ClaimedStored
  <2> QED
    BY <2>2, <2>3
<1>4. CASE source = "tree"
  <2>1. \A n \in Node : res[n] = "ok" /\ sent[n] = Len(Objs[n])
    BY <1>1, <1>4, CleanBuild, RootComplete DEF IndInv
  <2>2. \A n \in Node : \A i \in 1..sent[n] : Objs[n][i] \in InFlight
    BY <1>1, <1>4 DEF IndInv, NothingDropped, EmittedHeld
  <2>3. \A n \in Node : ToSet(Objs[n]) \subseteq stored
    <3> SUFFICES ASSUME NEW n \in Node, NEW i \in DOMAIN Objs[n] PROVE Objs[n][i] \in stored
      BY DEF ToSet
    <3>1. i \in 1..sent[n]
      BY <2>1
    <3> QED
      BY <1>3, <2>2, <3>1
  <2> QED
    BY <1>4, <2>1, <2>3 DEF Intact, Wanted
<1>5. CASE source = "pack"
  <2>1. pos \in 2..Len(stream) /\ stream[pos] = P!EndMark /\ stream \in Seq(P!Unit)
    BY <1>1, <1>5 DEF IndInv, EndsClean, ReaderInv
  <2>2. pos = Len(stream) /\ stream[1] = P!Magic /\ \A i \in 2..(pos - 1) : stream[i].unit = "record"
    BY <2>1 DEF IndInv, ReaderInv
  <2>3. \A i \in DOMAIN stream : i = 1 \/ i = pos \/ i \in 2..(pos - 1)
    BY <2>1, <2>2
  <2>4. Last(stream) = P!EndMark /\ stream # <<>>
    BY <2>1, <2>2 DEF Last
  <2>5. \A i \in DOMAIN stream : stream[i] # P!Junk
    BY <2>1, <2>2, <2>3, RecordUnits
  <2>6. \A i \in DOMAIN stream : stream[i].unit = "record" => stream[i].obj.key \in InFlight
    <3>1. \A i \in 2..(pos - 1) : stream[i].obj.key \in InFlight
      BY <1>1, <1>5 DEF IndInv, NothingDropped, EmittedHeld
    <3> QED
      BY <2>1, <2>2, <2>3, <3>1, RecordUnits
  <2> QED
    BY <1>3, <1>5, <2>2, <2>4, <2>5, <2>6 DEF Intact, Wanted
<1> QED
  BY <1>4, <1>5 DEF IndInv, TypeOK

\* No step changes the input, takes anything out of the store, or makes readable
\* again what was not.
LEMMA InputKept ==
  ASSUME IndInv, [Next]_vars
  PROVE  source' = source /\ stream' = stream /\ durable \subseteq durable' /\ (Intact' => Intact)
<1>0. TypeOK /\ BuildInv /\ IngestTypeOK
  BY DEF IndInv, BuildInv
<1> USE DEF Intact, distVars, chanVars, workVars, groupVars, storeVars, statVars, histVars, packVars,
            ingestVars, objectsVars, buildVars, runVars
<1>1. ASSUME NEW n \in Node, Build(n) \/ BuildFails(n)
      PROVE  UNCHANGED <<source, stream, durable>> /\ (Intact' => Intact)
  <2>1. UNCHANGED <<source, stream, durable>>
    BY <1>1 DEF Build, BuildFails
  <2>2. \A m \in Node : res[m] = "err" => res'[m] = "err"
    <3>1. BuildInv' /\ (BuildStep(n) \/ ReadFails(n))
      BY <1>1, BuildKept DEF Build, BuildFails
    <3>2. res' = res \/ \E r : res' = [res EXCEPT ![n] = r]
      BY <3>1 DEF BuildStep, ReadDir, OpenFile, Offload, Inline, Assemble, EntryFailed, Emit,
                  EmitStopped, ReadFails, End
    <3>3. res[n] # "err"
      <4>1. bpc[n] \in {"read", "walk", "emit"}
        BY <3>1 DEF BuildStep, ReadDir, OpenFile, Offload, Inline, Assemble, EntryFailed, Emit,
                    EmitStopped, ReadFails
      <4> QED
        BY <1>0, <4>1 DEF BuildInv, CallResults
    <3> QED
      BY <1>0, <3>2, <3>3 DEF IngestTypeOK
  <2> QED
    BY <2>1, <2>2
<1>2. CASE BuildEnds
  BY <1>2 DEF BuildEnds, BuildReturns
<1>3. CASE Distribute
  BY <1>3 DEF Distribute, NextBuilt, NextMagic, NextRecord, IteratorEnds, IteratorFails, Send,
              SendCancelled, Drain, Stopped, Receive, CancelBuild, P!ReadMagic, P!ReadRecord,
              P!ReadEnd, P!StreamFails, P!packVars
<1>4. ASSUME NEW w \in Writer, Work(w)
      PROVE  UNCHANGED <<source, stream, res>> /\ durable \subseteq durable'
  BY <1>0, <1>4
     DEF Work, Take, Leave, Duplicate, Claim, HasHit, HasMiss, HasFails, Prepare, PrepareFails,
         append, AppendFails, SealFails, BatchSync, BatchSyncFails, Report, Skip, WorkerFails,
         FileSync, FileSyncFails, TypeOK
<1>5. CASE Return \/ ReturnSyncFails \/ CloseStore \/ Done \/ UNCHANGED vars
           \/ \E k \in OtherKeys : OtherAppend(k)
  BY <1>0, <1>5
     DEF Return, ReturnSyncFails, CloseStore, Done, vars, OtherAppend, FinalSync, FileSync,
         FileSyncFails, TypeOK
<1> QED
  BY <1>1, <1>2, <1>3, <1>4, <1>5 DEF Next

\* A step that ends the call, or one that does not.
LEMMA CallSteps ==
  ASSUME IndInv, [Next]_vars
  PROVE  \/ Return \/ ReturnSyncFails
         \/ \E n \in Node : Build(n) \/ BuildFails(n)
         \/ result' = result /\ UNCHANGED res
<1> USE DEF distVars, chanVars, workVars, groupVars, storeVars, statVars, histVars, packVars,
            ingestVars, objectsVars, buildVars, runVars
<1>1. CASE BuildEnds
  BY <1>1 DEF BuildEnds, BuildReturns
<1>2. CASE Distribute
  BY <1>2 DEF Distribute, NextBuilt, NextMagic, NextRecord, IteratorEnds, IteratorFails, Send,
              SendCancelled, Drain, Stopped, Receive, CancelBuild
<1>3. ASSUME NEW w \in Writer, Work(w)
      PROVE  result' = result /\ UNCHANGED res
  BY <1>3
     DEF Work, Take, Leave, Duplicate, Claim, HasHit, HasMiss, HasFails, Prepare, PrepareFails,
         append, AppendFails, SealFails, BatchSync, BatchSyncFails, Report, Skip, WorkerFails
<1>4. CASE CloseStore \/ Done \/ UNCHANGED vars \/ \E k \in OtherKeys : OtherAppend(k)
  BY <1>4 DEF CloseStore, Done, vars, OtherAppend
<1> QED
  BY <1>1, <1>2, <1>3, <1>4 DEF Next

\* WriteParallel with its producer implements TreeWrite: it reports success only
\* when the whole input was read and every object of it is durable.
THEOREM ImplementsTreeWrite == Spec => TreeWriteSpec
<1> USE IngestAssumption, WriteParallelAssumption
<1>1. Init => TW!Init
  <2> SUFFICES ASSUME Init PROVE TW!Init
    OBVIOUS
  <2>1. IndInv
    BY RunInit
  <2>2. Wanted \subseteq Key
    <3>1. CASE source = "tree"
      BY <3>1 DEF Wanted, ToSet
    <3>2. CASE source = "pack"
      <4>1. stream \in Seq(P!Unit)
        BY <2>1 DEF IndInv, ReaderInv
      <4>2. \A i \in DOMAIN stream : stream[i].unit = "record" => stream[i].obj.key \in Key
        BY <4>1, RecordUnits
      <4> QED
        BY <3>2, <4>2 DEF Wanted
    <3> QED
      BY <3>1, <3>2 DEF Init
  <2>3. Intact \in BOOLEAN
    BY Zenon DEF Intact
  <2> QED
    BY <2>2, <2>3 DEF Init, TW!Init
<1>2. IndInv /\ [Next]_vars => [TW!Next]_<<Wanted, Intact, durable, result>>
  <2> SUFFICES ASSUME IndInv, [Next]_vars PROVE [TW!Next]_<<Wanted, Intact, durable, result>>
    OBVIOUS
  <2>1. source' = source /\ stream' = stream /\ durable \subseteq durable' /\ (Intact' => Intact)
    BY InputKept
  <2>2. Wanted' = Wanted
    BY <2>1 DEF Wanted
  <2>3. Intact \in BOOLEAN /\ Intact' \in BOOLEAN
    BY Zenon DEF Intact
  <2>4. UNCHANGED res => Intact' = Intact
    BY <2>1 DEF Intact
  <2>5. CASE Return
    <3>1. UNCHANGED res /\ result = "none" /\ GroupEnded /\ durable' = stored
          /\ result' = (IF egErr = "none" THEN "ok" ELSE "err")
      BY <2>5 DEF Return, FinalSync, FileSync, ingestVars, buildVars
    <3>2. CASE egErr = "none"
      <4>1. Intact /\ Wanted \subseteq stored
        BY <3>1, <3>2, CleanEnd
      <4>2. TW!Succeed
        BY <2>1, <2>2, <2>4, <3>1, <3>2, <4>1 DEF TW!Succeed
      <4> QED
        BY <4>2 DEF TW!Next
    <3>3. CASE egErr # "none"
      <4>1. TW!Fail
        BY <2>1, <2>2, <2>4, <3>1, <3>3 DEF TW!Fail
      <4> QED
        BY <4>1 DEF TW!Next
    <3> QED
      BY <3>2, <3>3
  <2>6. CASE ReturnSyncFails
    <3>1. UNCHANGED res /\ result = "none" /\ result' = "err"
      BY <2>6 DEF ReturnSyncFails, ingestVars, buildVars
    <3>2. TW!Fail
      BY <2>1, <2>2, <2>4, <3>1 DEF TW!Fail
    <3> QED
      BY <3>2 DEF TW!Next
  <2>7. ASSUME NEW n \in Node, Build(n) \/ BuildFails(n)
        PROVE  [TW!Next]_<<Wanted, Intact, durable, result>>
    <3>1. source = "tree" /\ UNCHANGED <<durable, result>> /\ (BuildStep(n) \/ ReadFails(n))
      BY <2>7 DEF Build, BuildFails, runVars, storeVars, groupVars
    <3>2. ~closed
      BY <3>1, BuildFrame DEF IndInv
    <3>3. result = "none"
      BY <3>1, <3>2 DEF IndInv, ErrorsReach, GroupEnded, EndsClean, Drained
    <3>4. CASE Intact' = Intact
      BY <2>2, <3>1, <3>4
    <3>5. CASE Intact' # Intact
      <4>1. Intact' = FALSE
        BY <2>1, <2>3, <3>5, Zenon
      <4>2. TW!Spoil
        BY <2>2, <3>1, <3>3, <4>1 DEF TW!Spoil
      <4> QED
        BY <4>2 DEF TW!Next
    <3> QED
      BY <3>4, <3>5
  <2>8. CASE result' = result /\ UNCHANGED res
    <3>1. TW!Grow
      BY <2>1, <2>2, <2>4, <2>8 DEF TW!Grow
    <3> QED
      BY <3>1 DEF TW!Next
  <2> QED
    BY <2>5, <2>6, <2>7, <2>8, CallSteps
<1> QED
  BY RunInvariant, <1>1, <1>2, PTL DEF Spec, TreeWriteSpec, TW!Spec
----------------------------------------------------------------------------
(* The statistics.  An object counts from the moment the producer hands it  *)
(* out; it is then in a channel, in somebody's hands, or counted.           *)

\* The objects the build has emitted, by their place in the tree.
Emissions == {x \in Node \X Nat : x[2] \in 1..sent[x[1]]}

\* The records the Reader has yielded.
Yielded == IF pos > 1 THEN pos - 2 ELSE 0

Busy == {w \in Writer : wpc[w] \in {"seen", "has", "prepare", "append"}}

Claimed == {w \in Writer : wpc[w] \in {"has", "prepare", "append"}}

Carried == IF dpc = "send" THEN 1 ELSE 0

CountTyped ==
  /\ IsFiniteSet(Emissions) /\ IsFiniteSet(Busy) /\ IsFiniteSet(Claimed) /\ IsFiniteSet(seen)
  /\ source = "tree" => pos = 1
  /\ source = "pack" => Emissions = {}

\* Nothing is counted that is not of the input, and a key is counted as stored by
\* the one worker that claimed it.
ClaimsCounted ==
  /\ InFlight \subseteq Wanted
  /\ nStored + Cardinality(Claimed) <= Cardinality(seen)

\* As long as nothing fails every object handed out is somewhere.
HandedOut == Cardinality(Emissions) + Yielded

HeldByWorkers == Cardinality(Busy) + nStored + nDeduped

Accounted == (Len(built) + Carried) + (Len(ch) + HeldByWorkers)

AllCounted == faults = {} => HandedOut = Accounted

CountInv == CountTyped /\ ClaimsCounted /\ AllCounted

LEMMA CountInit == Init => CountInv
<1> SUFFICES ASSUME Init PROVE CountInv
  OBVIOUS
<1>1. Emissions = {}
  BY DEF Init, IngestInit, Emissions
<1>2. Busy = {} /\ Claimed = {}
  BY DEF Init, Busy, Claimed
<1>3. IsFiniteSet({}) /\ Cardinality({}) = 0
  BY FS_EmptySet
<1>4. InFlight = {}
  <2>1. ToSet(<<>>) = {}
    BY DEF ToSet
  <2> QED
    BY <2>1 DEF Init, IngestInit, InFlight
<1>5. CountTyped
  BY <1>1, <1>2, <1>3 DEF Init, CountTyped
<1>6. ClaimsCounted
  BY <1>2, <1>3, <1>4 DEF Init, ClaimsCounted
<1>7. built = <<>> /\ ch = <<>> /\ pos = 1 /\ nStored = 0 /\ nDeduped = 0 /\ dpc = "next"
  BY DEF Init, IngestInit
<1>8. AllCounted
  BY <1>1, <1>2, <1>3, <1>7
     DEF AllCounted, HandedOut, Accounted, HeldByWorkers, Yielded, Carried
<1> QED
  BY <1>5, <1>6, <1>8 DEF CountInv

\* A worker moves to another step.
LEMMA WorkerMoved ==
  ASSUME TypeOK, NEW w \in Writer, NEW step, Move(w, step)
  PROVE  /\ Busy' = IF step \in {"seen", "has", "prepare", "append"} THEN Busy \cup {w}
                    ELSE Busy \ {w}
         /\ Claimed' = IF step \in {"has", "prepare", "append"} THEN Claimed \cup {w}
                       ELSE Claimed \ {w}
BY DEF TypeOK, Move, Busy, Claimed

\* How the counts of a finite set of workers change.
LEMMA Recounted ==
  ASSUME NEW S, IsFiniteSet(S), NEW x
  PROVE  /\ IsFiniteSet(S \cup {x}) /\ IsFiniteSet(S \ {x}) /\ Cardinality(S) \in Nat
         /\ x \notin S => Cardinality(S \cup {x}) = Cardinality(S) + 1 /\ S \ {x} = S
         /\ x \in S => Cardinality(S \ {x}) = Cardinality(S) - 1 /\ S \cup {x} = S
<1>1. x \notin S => S \ {x} = S
  OBVIOUS
<1>2. x \in S => S \cup {x} = S
  OBVIOUS
<1> QED
  BY <1>1, <1>2, FS_AddElement, FS_RemoveElement, FS_CardinalityType

\* The input stays what it is.
LEMMA WantedKept ==
  ASSUME IndInv, [Next]_vars
  PROVE  Wanted' = Wanted
<1>1. source' = source /\ stream' = stream
  BY InputKept
<1> QED
  BY <1>1 DEF Wanted

\* The build emits an object, or none.
LEMMA CountBuild ==
  ASSUME IndInv, CountInv, [Next]_vars, NEW n \in Node, Build(n) \/ BuildFails(n)
  PROVE  CountInv'
<1> USE IngestAssumption
<1>0. TypeOK /\ BuildInv /\ IngestTypeOK
  BY DEF IndInv, BuildInv
<1>1. /\ source = "tree" /\ (BuildStep(n) \/ ReadFails(n))
      /\ UNCHANGED <<source, stream, pos, dpc, dobj, ch, wpc, wobj, seen, nStored, nDeduped, faults>>
  BY DEF Build, BuildFails, packVars, runVars, distVars, chanVars, workVars, statVars, histVars
<1>2. Wanted' = Wanted
  BY WantedKept
<1>3. Busy' = Busy /\ Claimed' = Claimed /\ Yielded' = Yielded /\ Carried' = Carried
  BY <1>1 DEF Busy, Claimed, Yielded, Carried
<1>4. CASE UNCHANGED <<sent, built>>
  <2>1. Emissions' = Emissions /\ InFlight' = InFlight
    BY <1>1, <1>4 DEF Emissions, InFlight
  <2>2. CountTyped' /\ ClaimsCounted'
    BY <1>1, <1>2, <1>3, <2>1 DEF CountInv, CountTyped, ClaimsCounted
  <2>3. HandedOut' = HandedOut /\ Accounted' = Accounted
    BY <1>1, <1>3, <1>4, <2>1 DEF HandedOut, Accounted, HeldByWorkers
  <2> QED
    BY <1>1, <2>2, <2>3 DEF CountInv, AllCounted
<1>5. CASE /\ sent' = [sent EXCEPT ![n] = sent[n] + 1]
           /\ built' = Append(built, Objs[n][sent[n] + 1])
           /\ Objs[n][sent[n] + 1] \in Key
  <2>1. sent[n] \in Nat /\ sent \in [Node -> Nat]
    BY <1>0 DEF IngestTypeOK
  <2>2. Emissions' = Emissions \cup {<<n, sent[n] + 1>>} /\ <<n, sent[n] + 1>> \notin Emissions
    <3>1. \A m \in Node : m # n => sent'[m] = sent[m]
      BY <1>5, <2>1
    <3>2. sent'[n] = sent[n] + 1
      BY <1>5, <2>1
    <3>3. \A i \in Nat : i \in 1..(sent[n] + 1) <=> i \in 1..sent[n] \/ i = sent[n] + 1
      BY <2>1
    <3>4. sent[n] + 1 \notin 1..sent[n] /\ sent[n] + 1 \in Nat
      BY <2>1
    <3>5. ASSUME NEW m \in Node, NEW i \in Nat
          PROVE  i \in 1..sent'[m] <=> i \in 1..sent[m] \/ (m = n /\ i = sent[n] + 1)
      BY <3>1, <3>2, <3>3
    <3>6. \A m \in Node : \A i \in Nat :
            /\ <<m, i>> \in Emissions' <=> i \in 1..sent'[m]
            /\ <<m, i>> \in Emissions <=> i \in 1..sent[m]
      BY DEF Emissions
    <3>7. Emissions' \subseteq Node \X Nat /\ Emissions \subseteq Node \X Nat
      BY DEF Emissions
    <3> QED
      BY <3>4, <3>5, <3>6, <3>7
  <2>3. /\ Cardinality(Emissions') = Cardinality(Emissions) + 1 /\ IsFiniteSet(Emissions')
        /\ Cardinality(Emissions) \in Nat
    BY <2>2, Recounted DEF CountInv, CountTyped
  <2>4. built \in Seq(Key) /\ Len(built') = Len(built) + 1 /\ Len(built) \in Nat
    BY <1>0, <1>5 DEF IngestTypeOK
  <2>5. Objs[n][sent[n] + 1] \in Wanted
    <3>1. Objs[n] \in Seq(Key) /\ sent[n] < Len(Objs[n])
      <4>1. CASE bpc[n] = "emit"
        BY <1>0, <4>1 DEF BuildInv, CallResults
      <4>2. CASE bpc[n] # "emit"
        <5>1. UNCHANGED built
          BY <1>1, <4>2 DEF BuildStep, ReadDir, OpenFile, Offload, Inline, Assemble, EntryFailed,
                            Emit, EmitStopped, ReadFails, objectsVars
        <5> QED
          BY <2>4, <5>1
      <4> QED
        BY <4>1, <4>2
    <3>2. sent[n] + 1 \in DOMAIN Objs[n]
      BY <2>1, <3>1
    <3>3. Objs[n][sent[n] + 1] \in ToSet(Objs[n])
      BY <3>2 DEF ToSet
    <3> QED
      BY <1>1, <3>3 DEF Wanted
  <2>6. ToSet(built') = ToSet(built) \cup {Objs[n][sent[n] + 1]}
    BY <1>5, <2>4, ChannelElements
  <2>7. InFlight' = InFlight \cup {Objs[n][sent[n] + 1]}
    BY <1>1, <2>6 DEF InFlight
  <2>8. CountTyped' /\ ClaimsCounted'
    BY <1>1, <1>2, <1>3, <2>3, <2>5, <2>7 DEF CountInv, CountTyped, ClaimsCounted
  <2>9. Len(ch) \in Nat /\ nStored \in Nat /\ nDeduped \in Nat /\ Cardinality(Busy) \in Nat
        /\ Yielded \in Nat /\ Carried \in Nat
    BY <1>0, FS_CardinalityType DEF CountInv, CountTyped, TypeOK, Yielded, Carried
  <2>10. HandedOut' = HandedOut + 1
    BY <1>3, <2>3, <2>9 DEF HandedOut
  <2>11. HeldByWorkers' = HeldByWorkers /\ HeldByWorkers \in Nat
    BY <1>1, <1>3, <2>9 DEF HeldByWorkers
  <2>12. Accounted' = Accounted + 1
    BY <1>1, <1>3, <2>4, <2>9, <2>11 DEF Accounted
  <2>13. AllCounted'
    BY <1>1, <2>10, <2>12 DEF CountInv, AllCounted
  <2> QED
    BY <2>8, <2>13 DEF CountInv
<1> QED
  BY <1>0, <1>1, <1>4, <1>5, EmitFrame

\* The distributor takes an object from the build or from the Reader, and sends it.
LEMMA CountDistribute ==
  ASSUME IndInv, CountInv, [Next]_vars, Distribute
  PROVE  CountInv'
<1> USE IngestAssumption DEF distVars, chanVars, workVars, groupVars, storeVars, statVars, histVars,
        packVars, ingestVars, objectsVars, buildVars
<1>0. TypeOK /\ IngestTypeOK /\ ReaderInv /\ Holding /\ EndsClean
  BY DEF IndInv, BuildInv
<1>1. UNCHANGED <<source, stream, sent, wpc, wobj, seen, nStored, nDeduped>>
  BY DEF Distribute, NextBuilt, NextMagic, NextRecord, IteratorEnds, IteratorFails, Send,
         SendCancelled, Drain, Stopped, Receive, CancelBuild, P!ReadMagic, P!ReadRecord, P!ReadEnd,
         P!StreamFails, P!packVars, runVars
<1>2. Wanted' = Wanted /\ Busy' = Busy /\ Claimed' = Claimed /\ Emissions' = Emissions
  BY <1>1, WantedKept DEF Busy, Claimed, Emissions
<1>3. /\ Len(built) \in Nat /\ Len(ch) \in Nat /\ nStored \in Nat /\ nDeduped \in Nat /\ pos \in Nat
      /\ built \in Seq(Key) /\ ch \in Seq(P!Object)
      /\ Cardinality(Busy) \in Nat /\ Cardinality(Emissions) \in Nat
  BY <1>0, FS_CardinalityType DEF CountInv, CountTyped, TypeOK, IngestTypeOK
<1>13. HeldByWorkers' = HeldByWorkers /\ HeldByWorkers \in Nat /\ Yielded \in Nat
  BY <1>1, <1>2, <1>3 DEF HeldByWorkers, Yielded
<1>4. ASSUME InFlight' \subseteq Wanted, pos' = pos PROVE CountTyped' /\ ClaimsCounted'
  BY <1>1, <1>2, <1>4 DEF CountInv, CountTyped, ClaimsCounted
<1>5. CASE faults' # {} /\ InFlight' \subseteq Wanted /\ pos' = pos
  BY <1>4, <1>5 DEF CountInv, AllCounted
<1>6. CASE NextBuilt
  <2>1. /\ dpc = "next" /\ dpc' = "send" /\ built # <<>> /\ built' = Tail(built)
        /\ dobj'.key = Head(built) /\ pos' = pos /\ ch' = ch /\ faults' = faults
    BY <1>6 DEF NextBuilt, Receive
  <2>2. ToSet(built) = {Head(built)} \cup ToSet(built')
    BY <1>3, <2>1, ChannelElements
  <2>3. InFlight' \subseteq InFlight
    BY <1>1, <2>1, <2>2 DEF InFlight
  <2>4. Len(built)' = Len(built) - 1 /\ Carried' = 1 /\ Carried = 0 /\ Yielded' = Yielded
    BY <1>3, <2>1 DEF Carried, Yielded
  <2>5. HandedOut' = HandedOut /\ Accounted' = Accounted
    BY <1>2, <1>3, <1>13, <2>1, <2>4 DEF HandedOut, Accounted
  <2>6. AllCounted'
    BY <2>1, <2>5 DEF CountInv, AllCounted
  <2> QED
    BY <1>4, <2>1, <2>3, <2>6 DEF CountInv, ClaimsCounted
<1>7. CASE NextMagic
  <2>1. /\ source = "pack" /\ pos = 1 /\ pos' = 2
        /\ UNCHANGED <<dpc, dobj, built, ch, faults>>
    BY <1>7 DEF NextMagic, P!ReadMagic, runVars
  <2>2. InFlight' = InFlight /\ Carried' = Carried
    BY <1>1, <2>1 DEF InFlight, Carried
  <2>3. Yielded = 0 /\ Yielded' = 0
    BY <2>1 DEF Yielded
  <2>4. CountTyped' /\ ClaimsCounted'
    BY <1>1, <1>2, <2>1, <2>2 DEF CountInv, CountTyped, ClaimsCounted
  <2>5. HandedOut' = HandedOut /\ Accounted' = Accounted
    BY <1>2, <1>13, <2>1, <2>2, <2>3 DEF HandedOut, Accounted
  <2>6. AllCounted'
    BY <2>1, <2>5 DEF CountInv, AllCounted
  <2> QED
    BY <2>4, <2>6 DEF CountInv
<1>8. CASE NextRecord
  <2>1. PICK o \in P!Object : P!ReadRecord(o) /\ dobj' = o
    BY <1>8 DEF NextRecord
  <2>2. /\ source = "pack" /\ pos > 1 /\ pos' = pos + 1 /\ pos \in DOMAIN stream
        /\ stream[pos] = P!Record(o) /\ dpc = "next" /\ dpc' = "send"
        /\ UNCHANGED <<built, ch, faults>>
    BY <1>0, <1>8, <2>1 DEF NextRecord, P!ReadRecord, P!AtEnd, TypeOK, ReaderInv
  <2>3. o.key \in Wanted
    BY <2>2 DEF Wanted, P!Record
  <2>4. InFlight' \subseteq InFlight \cup {o.key}
    BY <1>1, <2>1, <2>2 DEF InFlight
  <2>5. Yielded' = Yielded + 1 /\ Carried' = 1 /\ Carried = 0 /\ Yielded \in Nat
    BY <1>3, <2>2 DEF Yielded, Carried
  <2>6. CountTyped' /\ ClaimsCounted'
    BY <1>1, <1>2, <2>2, <2>3, <2>4 DEF CountInv, CountTyped, ClaimsCounted
  <2>7. HandedOut' = HandedOut + 1
    BY <1>2, <1>3, <2>5 DEF HandedOut
  <2>8. Accounted' = Accounted + 1
    BY <1>3, <1>13, <2>2, <2>5 DEF Accounted
  <2>9. AllCounted'
    BY <2>2, <2>7, <2>8 DEF CountInv, AllCounted
  <2> QED
    BY <2>6, <2>9 DEF CountInv
<1>9. CASE Send
  <2>1. /\ dpc = "send" /\ dpc' = "next" /\ ch' = Append(ch, dobj) /\ dobj \in P!Object
        /\ UNCHANGED <<built, pos, faults>>
    BY <1>0, <1>9 DEF Send, Holding
  <2>2. ToSet(ch') = ToSet(ch) \cup {dobj}
    BY <1>3, <2>1, ChannelElements
  <2>3. InFlight' \subseteq InFlight
    BY <1>1, <2>1, <2>2 DEF InFlight
  <2>4. Len(ch)' = Len(ch) + 1 /\ Carried' = 0 /\ Carried = 1 /\ Yielded' = Yielded
    BY <1>3, <2>1 DEF Carried, Yielded
  <2>5. HandedOut' = HandedOut /\ Accounted' = Accounted
    BY <1>2, <1>3, <1>13, <2>1, <2>4 DEF HandedOut, Accounted
  <2>6. AllCounted'
    BY <2>1, <2>5 DEF CountInv, AllCounted
  <2> QED
    BY <1>4, <2>1, <2>3, <2>6 DEF CountInv, ClaimsCounted
<1>10. CASE IteratorEnds
  <2>1. dpc = "next" /\ dpc' = "ended" /\ UNCHANGED <<built, ch, faults, pos>>
    BY <1>10 DEF IteratorEnds, P!ReadEnd, P!packVars
  <2>2. InFlight' \subseteq InFlight /\ Carried' = Carried /\ Yielded' = Yielded
    BY <1>1, <2>1 DEF InFlight, Carried, Yielded
  <2>3. HandedOut' = HandedOut /\ Accounted' = Accounted
    BY <1>2, <1>13, <2>1, <2>2 DEF HandedOut, Accounted
  <2>4. AllCounted'
    BY <2>1, <2>3 DEF CountInv, AllCounted
  <2> QED
    BY <1>4, <2>1, <2>2, <2>4 DEF CountInv, ClaimsCounted
<1>11. CASE IteratorFails
  <2>1. dpc = "next" /\ dpc' = "ended" /\ UNCHANGED <<built, ch, pos>> /\ faults' # {}
    BY <1>11 DEF IteratorFails, P!StreamFails, P!packVars
  <2>2. InFlight' \subseteq InFlight
    BY <1>1, <2>1 DEF InFlight
  <2> QED
    BY <1>5, <2>1, <2>2 DEF CountInv, ClaimsCounted
<1>12. CASE SendCancelled \/ Drain \/ Stopped
  <2>1. faults # {} /\ faults' = faults /\ pos' = pos /\ ch' = ch /\ dpc' # "send"
    BY <1>0, <1>12 DEF SendCancelled, Drain, Stopped, IndInv, ErrorsReach, runVars
  <2>2. ToSet(built') \subseteq ToSet(built)
    <3>1. UNCHANGED built \/ (built # <<>> /\ built' = Tail(built))
      BY <1>12 DEF SendCancelled, Drain, Stopped, Receive, CancelBuild
    <3>2. built # <<>> => ToSet(built) = {Head(built)} \cup ToSet(Tail(built))
      BY <1>3, ChannelElements
    <3> QED
      BY <3>1, <3>2
  <2>3. InFlight' \subseteq InFlight
    BY <1>1, <2>1, <2>2 DEF InFlight
  <2> QED
    BY <1>5, <2>1, <2>3 DEF CountInv, ClaimsCounted
<1> QED
  BY <1>6, <1>7, <1>8, <1>9, <1>10, <1>11, <1>12 DEF Distribute

\* A worker's steps: what it holds is counted when it lets go of it.
LEMMA CountWork ==
  ASSUME IndInv, CountInv, [Next]_vars, NEW w \in Writer, Work(w)
  PROVE  CountInv'
<1> USE IngestAssumption DEF distVars, chanVars, workVars, groupVars, storeVars, statVars, histVars,
        packVars, ingestVars, objectsVars, buildVars
<1>0. TypeOK /\ IngestTypeOK /\ Holding
  BY DEF IndInv, BuildInv
<1>1. UNCHANGED <<source, stream, sent, pos, built, dpc, dobj>>
  BY DEF Work, Take, Leave, Duplicate, Claim, HasHit, HasMiss, HasFails, Prepare, PrepareFails,
         append, AppendFails, SealFails, BatchSync, BatchSyncFails, Report, Skip, WorkerFails
<1>2. Wanted' = Wanted /\ Emissions' = Emissions /\ Yielded' = Yielded /\ Carried' = Carried
  BY <1>1, WantedKept DEF Emissions, Yielded, Carried
<1>3. /\ Len(built) \in Nat /\ Len(ch) \in Nat /\ nStored \in Nat /\ nDeduped \in Nat
      /\ ch \in Seq(P!Object) /\ Yielded \in Nat /\ Carried \in Nat
      /\ Cardinality(Busy) \in Nat /\ Cardinality(Emissions) \in Nat /\ Cardinality(Claimed) \in Nat
      /\ Cardinality(seen) \in Nat
  BY <1>0, FS_CardinalityType DEF CountInv, CountTyped, TypeOK, IngestTypeOK, Yielded, Carried
<1>4. /\ IsFiniteSet(Busy) /\ IsFiniteSet(Claimed) /\ IsFiniteSet(seen)
      /\ InFlight \subseteq Wanted /\ AllCounted /\ nStored + Cardinality(Claimed) <= Cardinality(seen)
  BY DEF CountInv, CountTyped, ClaimsCounted
<1>5. /\ IsFiniteSet(Busy \cup {w}) /\ IsFiniteSet(Busy \ {w})
      /\ w \notin Busy => Cardinality(Busy \cup {w}) = Cardinality(Busy) + 1 /\ Busy \ {w} = Busy
      /\ w \in Busy => Cardinality(Busy \ {w}) = Cardinality(Busy) - 1 /\ Busy \cup {w} = Busy
  BY <1>4, Recounted
<1>6. /\ IsFiniteSet(Claimed \cup {w}) /\ IsFiniteSet(Claimed \ {w})
      /\ w \notin Claimed =>
           Cardinality(Claimed \cup {w}) = Cardinality(Claimed) + 1 /\ Claimed \ {w} = Claimed
      /\ w \in Claimed =>
           Cardinality(Claimed \ {w}) = Cardinality(Claimed) - 1 /\ Claimed \cup {w} = Claimed
  BY <1>4, Recounted
<1>7. /\ w \in Busy <=> wpc[w] \in {"seen", "has", "prepare", "append"}
      /\ w \in Claimed <=> wpc[w] \in {"has", "prepare", "append"}
  BY DEF Busy, Claimed
<1>8. HandedOut' = HandedOut
  BY <1>2 DEF HandedOut
<1>9. ASSUME IsFiniteSet(Busy'), IsFiniteSet(Claimed'), IsFiniteSet(seen'), InFlight' \subseteq InFlight,
             (nStored + Cardinality(Claimed) <= Cardinality(seen))',
             faults' # {} \/ (faults' = faults /\ (Len(ch) + HeldByWorkers)' = Len(ch) + HeldByWorkers),
             Len(ch)' \in Nat, HeldByWorkers' \in Nat
      PROVE  CountInv'
  <2>1. CountTyped'
    BY <1>1, <1>2, <1>9 DEF CountInv, CountTyped
  <2>2. ClaimsCounted'
    BY <1>2, <1>4, <1>9 DEF ClaimsCounted
  <2>3. ASSUME (Len(ch) + HeldByWorkers)' = Len(ch) + HeldByWorkers PROVE Accounted' = Accounted
    <3>1. Len(built)' = Len(built)
      BY <1>1
    <3> QED
      BY <1>2, <2>3, <3>1 DEF Accounted
  <2>4. AllCounted'
    BY <1>4, <1>8, <1>9, <2>3 DEF AllCounted
  <2> QED
    BY <2>1, <2>2, <2>4 DEF CountInv
\* Nothing moves but the worker, within or outside its claim.
<1>10. ASSUME UNCHANGED <<ch, wobj, seen, nStored, nDeduped, faults>>, NEW step, Move(w, step),
              wpc[w] # "seen", step # "seen",
              wpc[w] \in {"has", "prepare", "append"} <=> step \in {"has", "prepare", "append"}
       PROVE  CountInv'
  <2>1. Busy' = Busy /\ Claimed' = Claimed
    BY <1>0, <1>5, <1>6, <1>7, <1>10, WorkerMoved
  <2>2. {v \in Writer : wpc'[v] = "seen"} = {v \in Writer : wpc[v] = "seen"}
    BY <1>0, <1>10 DEF Move, TypeOK
  <2>3. InFlight' = InFlight
    BY <1>1, <1>10, <2>2 DEF InFlight
  <2>4. HeldByWorkers' = HeldByWorkers /\ HeldByWorkers \in Nat
    BY <1>3, <1>10, <2>1 DEF HeldByWorkers
  <2> QED
    BY <1>3, <1>4, <1>9, <1>10, <2>1, <2>3, <2>4
<1>11. CASE HasMiss(w) \/ Prepare(w) \/ BatchSync(w) \/ Leave(w) \/ Report(w)
  <2>1. UNCHANGED <<ch, wobj, seen, nStored, nDeduped, faults>>
    BY <1>11 DEF HasMiss, Prepare, BatchSync, Leave, Report
  <2>2. \/ Move(w, "prepare") /\ wpc[w] = "has"
        \/ Move(w, "append") /\ wpc[w] = "prepare"
        \/ Move(w, "recv") /\ wpc[w] = "sync"
        \/ Move(w, "ended") /\ wpc[w] \in {"recv", "fail"}
    BY <1>11 DEF HasMiss, Prepare, BatchSync, Leave, Report
  <2> QED
    BY <1>10, <2>1, <2>2
<1>12. CASE Take(w)
  <2>1. /\ wpc[w] = "recv" /\ Move(w, "seen") /\ ch # <<>> /\ ch' = Tail(ch)
        /\ wobj' = [wobj EXCEPT ![w] = Head(ch)] /\ UNCHANGED <<seen, nStored, nDeduped, faults>>
    BY <1>12 DEF Take
  <2>2. Busy' = Busy \cup {w} /\ w \notin Busy /\ Claimed' = Claimed
    <3>1. w \notin Busy /\ w \notin Claimed
      BY <1>7, <2>1
    <3>2. Busy' = Busy \cup {w} /\ Claimed' = Claimed \ {w}
      BY <1>0, <2>1, WorkerMoved
    <3> QED
      BY <1>6, <3>1, <3>2
  <2>3. Len(ch)' = Len(ch) - 1 /\ Len(ch)' \in Nat
    BY <1>3, <2>1
  <2>4. HeldByWorkers' = HeldByWorkers + 1 /\ HeldByWorkers \in Nat
    <3>1. Cardinality(Busy)' = Cardinality(Busy) + 1
      BY <1>5, <2>2
    <3>2. nStored' = nStored /\ nDeduped' = nDeduped
      BY <2>1
    <3>3. nStored \in Nat /\ nDeduped \in Nat /\ Cardinality(Busy) \in Nat
      BY <1>3
    <3> QED
      BY <3>1, <3>2, <3>3 DEF HeldByWorkers
  <2>5. ToSet(ch) = {Head(ch)} \cup ToSet(ch')
    BY <1>3, <2>1, ChannelElements
  <2>6. \A v \in Writer : wpc'[v] = "seen" =>
          (v # w /\ wpc[v] = "seen" /\ wobj'[v] = wobj[v]) \/ wobj'[v] = Head(ch)
    BY <1>0, <2>1 DEF Move, TypeOK
  <2>7. {wobj'[v].key : v \in {u \in Writer : wpc'[u] = "seen"}}
          \subseteq {wobj[v].key : v \in {u \in Writer : wpc[u] = "seen"}} \cup {Head(ch).key}
    BY <2>6
  <2>8. InFlight' \subseteq InFlight
    BY <1>1, <2>1, <2>5, <2>7 DEF InFlight
  <2> QED
    BY <1>3, <1>4, <1>5, <1>9, <2>1, <2>2, <2>3, <2>4, <2>8
<1>13. CASE Duplicate(w) \/ HasHit(w)
  <2>1. /\ wpc[w] \in {"seen", "has"} /\ Move(w, "recv") /\ nDeduped' = nDeduped + 1
        /\ wobj' = [wobj EXCEPT ![w] = NoObj] /\ UNCHANGED <<ch, seen, nStored, faults>>
    BY <1>13 DEF Duplicate, HasHit, Skip
  <2>2. Busy' = Busy \ {w} /\ w \in Busy /\ Claimed' = Claimed \ {w}
    BY <1>0, <1>7, <2>1, WorkerMoved
  <2>3. HeldByWorkers' = HeldByWorkers /\ HeldByWorkers \in Nat
    <3>1. Cardinality(Busy)' = Cardinality(Busy) - 1
      BY <1>5, <2>2
    <3>2. nStored' = nStored /\ nDeduped' = nDeduped + 1
      BY <2>1
    <3>3. nStored \in Nat /\ nDeduped \in Nat /\ Cardinality(Busy) \in Nat
      BY <1>3
    <3> QED
      BY <3>1, <3>2, <3>3 DEF HeldByWorkers
  <2>4. \A v \in Writer : wpc'[v] = "seen" => wpc[v] = "seen" /\ wobj'[v] = wobj[v]
    BY <1>0, <2>1 DEF Move, TypeOK
  <2>5. InFlight' \subseteq InFlight
    BY <1>1, <2>1, <2>4 DEF InFlight
  <2>6. (nStored + Cardinality(Claimed) <= Cardinality(seen))'
    <3>1. Cardinality(Claimed)' \in {Cardinality(Claimed), Cardinality(Claimed) - 1}
      BY <1>6, <2>2
    <3> QED
      BY <1>3, <1>4, <2>1, <3>1
  <2> QED
    BY <1>3, <1>4, <1>5, <1>6, <1>9, <2>1, <2>2, <2>3, <2>5, <2>6
<1>14. CASE Claim(w)
  <2>1. /\ wpc[w] = "seen" /\ Move(w, "has") /\ wobj[w].key \notin seen
        /\ seen' = seen \cup {wobj[w].key} /\ UNCHANGED <<ch, wobj, nStored, nDeduped, faults>>
    BY <1>14 DEF Claim
  <2>2. Busy' = Busy /\ Claimed' = Claimed \cup {w} /\ w \notin Claimed
    BY <1>0, <1>5, <1>7, <2>1, WorkerMoved
  <2>3. HeldByWorkers' = HeldByWorkers /\ HeldByWorkers \in Nat
    BY <1>3, <2>1, <2>2 DEF HeldByWorkers
  <2>4. \A v \in Writer : wpc'[v] = "seen" => wpc[v] = "seen" /\ wobj'[v] = wobj[v]
    BY <1>0, <2>1 DEF Move, TypeOK
  <2>5. InFlight' \subseteq InFlight
    BY <1>1, <2>1, <2>4 DEF InFlight
  <2>6. Cardinality(seen') = Cardinality(seen) + 1 /\ IsFiniteSet(seen')
    BY <1>4, <2>1, Recounted
  <2>7. (nStored + Cardinality(Claimed) <= Cardinality(seen))'
    BY <1>3, <1>4, <1>6, <2>1, <2>2, <2>6
  <2> QED
    BY <1>3, <1>4, <1>6, <1>9, <2>1, <2>2, <2>3, <2>5, <2>6, <2>7
<1>15. CASE append(w)
  <2>1. /\ wpc[w] = "append" /\ nStored' = nStored + 1 /\ wobj' = [wobj EXCEPT ![w] = NoObj]
        /\ UNCHANGED <<ch, seen, nDeduped, faults>>
        /\ \E step \in {"sync", "recv"} : Move(w, step)
    BY <1>15 DEF append
  <2>2. Busy' = Busy \ {w} /\ w \in Busy /\ Claimed' = Claimed \ {w} /\ w \in Claimed
    BY <1>0, <1>7, <2>1, WorkerMoved
  <2>3. HeldByWorkers' = HeldByWorkers /\ HeldByWorkers \in Nat
    <3>1. Cardinality(Busy)' = Cardinality(Busy) - 1
      BY <1>5, <2>2
    <3>2. nStored' = nStored + 1 /\ nDeduped' = nDeduped
      BY <2>1
    <3>3. nStored \in Nat /\ nDeduped \in Nat /\ Cardinality(Busy) \in Nat
      BY <1>3
    <3> QED
      BY <3>1, <3>2, <3>3 DEF HeldByWorkers
  <2>4. \A v \in Writer : wpc'[v] = "seen" => wpc[v] = "seen" /\ wobj'[v] = wobj[v]
    BY <1>0, <2>1 DEF Move, TypeOK
  <2>5. InFlight' \subseteq InFlight
    BY <1>1, <2>1, <2>4 DEF InFlight
  <2>6. (nStored + Cardinality(Claimed) <= Cardinality(seen))'
    <3>1. Cardinality(Claimed)' \in {Cardinality(Claimed) - 1}
      BY <1>6, <2>2
    <3> QED
      BY <1>3, <1>4, <2>1, <3>1
  <2> QED
    BY <1>3, <1>4, <1>5, <1>6, <1>9, <2>1, <2>2, <2>3, <2>5, <2>6
<1>16. CASE HasFails(w) \/ PrepareFails(w) \/ AppendFails(w) \/ SealFails(w) \/ BatchSyncFails(w)
  <2>1. /\ wpc[w] # "seen" /\ Move(w, "fail") /\ faults' # {}
        /\ UNCHANGED <<ch, wobj, seen, nStored, nDeduped>>
    BY <1>16 DEF HasFails, PrepareFails, AppendFails, SealFails, BatchSyncFails, WorkerFails
  <2>2. Busy' = Busy \ {w} /\ Claimed' = Claimed \ {w}
    BY <1>0, <2>1, WorkerMoved
  <2>3. Cardinality(Busy)' \in Nat
    BY <1>5, <2>2, FS_CardinalityType
  <2>4. HeldByWorkers' \in Nat
    BY <1>3, <2>1, <2>3 DEF HeldByWorkers
  <2>5. \A v \in Writer : wpc'[v] = "seen" => wpc[v] = "seen" /\ wobj'[v] = wobj[v]
    BY <1>0, <2>1 DEF Move, TypeOK
  <2>6. InFlight' \subseteq InFlight
    BY <1>1, <2>1, <2>5 DEF InFlight
  <2>7. (nStored + Cardinality(Claimed) <= Cardinality(seen))'
    <3>1. Cardinality(Claimed)' \in {Cardinality(Claimed), Cardinality(Claimed) - 1}
      BY <1>6, <2>2
    <3> QED
      BY <1>3, <1>4, <2>1, <3>1
  <2> QED
    BY <1>3, <1>4, <1>5, <1>6, <1>9, <2>1, <2>2, <2>4, <2>6, <2>7
<1> QED
  BY <1>11, <1>12, <1>13, <1>14, <1>15, <1>16 DEF Work

LEMMA CountStep == IndInv /\ CountInv /\ [Next]_vars => CountInv'
<1> SUFFICES ASSUME IndInv, CountInv, [Next]_vars PROVE CountInv'
  OBVIOUS
<1> USE DEF distVars, chanVars, workVars, groupVars, storeVars, statVars, histVars, packVars,
            ingestVars, objectsVars, buildVars, runVars
<1>1. ASSUME UNCHANGED <<source, stream, sent, pos, built, dpc, dobj, ch, wpc, wobj, seen, nStored,
                         nDeduped>>, faults' = {} => faults = {}
      PROVE  CountInv'
  <2>1. /\ Emissions' = Emissions /\ Busy' = Busy /\ Claimed' = Claimed /\ InFlight' = InFlight
        /\ Wanted' = Wanted /\ Yielded' = Yielded /\ Carried' = Carried
    BY <1>1 DEF Emissions, Busy, Claimed, InFlight, Wanted, Yielded, Carried
  <2>2. HandedOut' = HandedOut /\ Accounted' = Accounted
    BY <1>1, <2>1 DEF HandedOut, Accounted, HeldByWorkers
  <2>3. CountTyped' /\ ClaimsCounted'
    BY <1>1, <2>1 DEF CountInv, CountTyped, ClaimsCounted
  <2> QED
    BY <1>1, <2>2, <2>3 DEF CountInv, AllCounted
<1>2. CASE BuildEnds
  BY <1>1, <1>2 DEF BuildEnds, BuildReturns
<1>3. CASE Return \/ CloseStore \/ Done \/ UNCHANGED vars \/ \E k \in OtherKeys : OtherAppend(k)
  BY <1>1, <1>3 DEF Return, CloseStore, Done, vars, OtherAppend
<1>4. CASE ReturnSyncFails
  BY <1>1, <1>4 DEF ReturnSyncFails
<1> QED
  BY <1>2, <1>3, <1>4, CountBuild, CountDistribute, CountWork DEF Next

\* After a run without an error nothing is in flight, so what was handed out has
\* been counted, and the keys claimed are those of the input.
LEMMA CountEnd ==
  ASSUME IndInv, CountInv, result = "ok"
  PROVE  nStored + nDeduped = InputSize /\ nStored <= Cardinality(Wanted)
<1> USE IngestAssumption, WriteParallelAssumption
<1>1. GroupEnded /\ egErr = "none" /\ faults = {} /\ dpc = "ended"
      /\ \A w \in Writer : wpc[w] = "ended"
  BY DEF IndInv, ErrorsReach, GroupEnded, TypeOK
<1>2. built = <<>> /\ ch = <<>>
  <2>1. PICK w \in Writer : wpc[w] = "ended"
    BY <1>1
  <2> QED
    BY <1>1, <2>1 DEF IndInv, EndsClean, Drained, TypeOK
<1>3. Busy = {} /\ Claimed = {}
  BY <1>1 DEF Busy, Claimed
<1>4. nStored \in Nat /\ nDeduped \in Nat /\ Cardinality({}) = 0
  BY FS_EmptySet DEF IndInv, TypeOK
<1>5. Accounted = nStored + nDeduped
  BY <1>1, <1>2, <1>3, <1>4 DEF Accounted, HeldByWorkers, Carried
<1>6. HandedOut = nStored + nDeduped
  BY <1>1, <1>5 DEF CountInv, AllCounted
<1>7. InFlight = seen
  <2>1. ToSet(<<>>) = {}
    BY DEF ToSet
  <2> QED
    BY <1>1, <1>2, <2>1 DEF InFlight
<1>8. Wanted \subseteq seen => nStored <= Cardinality(Wanted)
  <2>1. seen \subseteq Wanted /\ nStored + Cardinality(Claimed) <= Cardinality(seen)
    BY <1>7 DEF CountInv, ClaimsCounted
  <2>2. nStored <= Cardinality(seen)
    <3>1. Cardinality(seen) \in Nat
      BY FS_CardinalityType DEF CountInv, CountTyped
    <3> QED
      BY <1>3, <1>4, <2>1, <3>1
  <2>3. Wanted \subseteq seen => Wanted = seen
    BY <2>1
  <2> QED
    BY <2>2, <2>3
<1>9. CASE source = "tree"
  <2>1. pos = 1 /\ Cardinality(Emissions) \in Nat
    BY <1>9, FS_CardinalityType DEF CountInv, CountTyped
  <2>2. \A n \in Node : sent[n] = Len(Objs[n])
    BY <1>1, <1>9, CleanBuild, RootComplete DEF IndInv
  <2>3. Emissions = UNION {{n} \X DOMAIN Objs[n] : n \in Node}
    <3>1. \A n \in Node : DOMAIN Objs[n] = 1..sent[n] /\ DOMAIN Objs[n] \subseteq Nat
      BY <2>2
    <3>2. Emissions \subseteq UNION {{n} \X DOMAIN Objs[n] : n \in Node}
      <4> SUFFICES ASSUME NEW x \in Emissions
                   PROVE  x \in {x[1]} \X DOMAIN Objs[x[1]] /\ x[1] \in Node
        OBVIOUS
      <4>1. x \in Node \X Nat /\ x[2] \in 1..sent[x[1]]
        BY DEF Emissions
      <4> QED
        BY <3>1, <4>1
    <3>3. UNION {{n} \X DOMAIN Objs[n] : n \in Node} \subseteq Emissions
      <4> SUFFICES ASSUME NEW n \in Node, NEW x \in {n} \X DOMAIN Objs[n] PROVE x \in Emissions
        OBVIOUS
      <4>1. PICK i \in DOMAIN Objs[n] : x = <<n, i>>
        OBVIOUS
      <4>2. i \in 1..sent[n] /\ i \in Nat /\ <<n, i>>[1] = n /\ <<n, i>>[2] = i
        BY <3>1
      <4> QED
        BY <4>1, <4>2 DEF Emissions
    <3> QED
      BY <3>2, <3>3
  <2>4. HandedOut = InputSize
    BY <1>9, <2>1, <2>3 DEF HandedOut, InputSize, Yielded
  <2>5. Wanted \subseteq seen
    <3> SUFFICES ASSUME NEW n \in Node, NEW i \in DOMAIN Objs[n] PROVE Objs[n][i] \in seen
      BY <1>9 DEF Wanted, ToSet
    <3>1. i \in 1..sent[n]
      BY <2>2
    <3> QED
      BY <1>1, <1>7, <1>9, <3>1 DEF IndInv, NothingDropped, EmittedHeld
  <2> QED
    BY <1>6, <1>8, <2>4, <2>5
<1>10. CASE source = "pack"
  <2>1. /\ pos \in 2..Len(stream) /\ stream[pos] = P!EndMark /\ stream \in Seq(P!Unit)
        /\ Emissions = {}
    BY <1>1, <1>10 DEF IndInv, EndsClean, ReaderInv, CountInv, CountTyped
  <2>2. pos = Len(stream) /\ stream[1] = P!Magic
    BY <2>1 DEF IndInv, ReaderInv
  <2>3. HandedOut = InputSize
    BY <1>4, <1>10, <2>1, <2>2 DEF HandedOut, InputSize, Yielded
  <2>4. \A i \in DOMAIN stream : stream[i].unit = "record" => i \in 2..(pos - 1)
    BY <2>1, <2>2, RecordUnits
  <2>5. \A i \in 2..(pos - 1) : stream[i].obj.key \in InFlight
    BY <1>1, <1>10 DEF IndInv, NothingDropped, EmittedHeld
  <2>6. Wanted \subseteq seen
    BY <1>7, <1>10, <2>4, <2>5 DEF Wanted
  <2> QED
    BY <1>6, <1>8, <2>3, <2>6
<1> QED
  BY <1>9, <1>10 DEF IndInv, TypeOK

\* WriteStats: after a success every object of the input is counted once, as stored
\* or as deduplicated, and no key is stored twice, however the workers raced.
THEOREM StatsAlwaysExact == Spec => []StatsExact
<1>1. IndInv /\ CountInv => StatsExact
  BY CountEnd DEF StatsExact
<1>2. IndInv /\ IndInv' /\ CountInv /\ [Next]_vars => CountInv'
  BY CountStep
<1> QED
  BY RunInvariant, CountInit, <1>1, <1>2, PTL DEF Spec
=============================================================================

-------------------------- MODULE PackStoreProofs --------------------------
(***************************************************************************)
(* Machine-checked proofs about PackStore, for any number of keys, writers *)
(* and files and every segment size.  The store is one that is not         *)
(* reopened over a dirty page cache (~ReopenDirty).  Without that, the run *)
(* packstore_reopen shows AckedStored false, and OpenNeverCorrupt and      *)
(* SealedDurable fail in the same instance.                                *)
(*                                                                         *)
(* First lemmas about the calls that several actions share, then one lemma *)
(* per conjunct of IndInv with a step per action, then the theorems.       *)
(***************************************************************************)
EXTENDS PackStore, FiniteSetTheorems, NaturalsLemmas, TLAPS

----------------------------------------------------------------------------
(* The file calls.                                                          *)

\* The name suffixes of a segment file.
Name == {"none", "active", "sealed"}

\* The records of a file are keys.
LEMMA KeysType == ASSUME TypeOK, NEW f \in File PROVE Keys(f) \subseteq Key
<1>1. body[f] \in Seq(Key)
  BY DEF TypeOK
<1> QED
  BY <1>1 DEF Keys, ToSet

\* An append adds its element to the elements of a sequence, and no other.
LEMMA AppendSet ==
  ASSUME NEW S, NEW q \in Seq(S), NEW e \in S
  PROVE  Append(q, e) \in Seq(S) /\ ToSet(Append(q, e)) = ToSet(q) \cup {e}
<1>0. Append(q, e) \in Seq(S)
  OBVIOUS
<1>1. PICK r \in Seq(S) : r = Append(q, e)
  BY <1>0
<1>2. /\ DOMAIN q = 1..Len(q) /\ Len(q) \in Nat
      /\ DOMAIN r = 1..(Len(q) + 1) /\ r[Len(q) + 1] = e
      /\ \A i \in 1..Len(q) : r[i] = q[i]
  BY <1>1
<1>3. 1..(Len(q) + 1) = (1..Len(q)) \cup {Len(q) + 1}
  BY <1>2
<1>4. ToSet(r) = ToSet(q) \cup {e}
  BY <1>2, <1>3 DEF ToSet
<1> QED
  BY <1>1, <1>4

\* A directory operation leaves a directory, one of those that a power loss may leave.
LEMMA SetDirType ==
  ASSUME TypeOK, NEW f \in File, NEW n \in Name, SetDir(f, n)
  PROVE  /\ dir' \in [File -> Name] /\ dir' \in dirStates'
         /\ dirStates' \subseteq [File -> Name]
<1>1. dir' \in [File -> Name]
  BY DEF TypeOK, SetDir, Name
<1> QED
  BY <1>1 DEF TypeOK, SetDir, Name

\* fsync keeps the types.
LEMMA FileSyncType ==
  ASSUME TypeOK, NEW f \in File, FileSync(f)
  PROVE  /\ synced' \in [File -> SUBSET Key]
         /\ foot' \in [File -> {"none", "cached", "dropped", "durable"}]
<1>1. Keys(f) \ dropped[f] \in SUBSET Key
  BY KeysType
<1> QED
  BY <1>1 DEF TypeOK, FileSync

\* So does an fsync that fails.
LEMMA FileSyncFailsType ==
  ASSUME TypeOK, NEW f \in File, FileSyncFails(f)
  PROVE  /\ dropped' \in [File -> SUBSET Key]
         /\ foot' \in [File -> {"none", "cached", "dropped", "durable"}]
<1>1. PICK D \in SUBSET (Keys(f) \ synced[f]) : dropped' = [dropped EXCEPT ![f] = @ \cup D]
  BY DEF FileSyncFails
<1>2. D \subseteq Key
  BY KeysType
<1>3. \A g \in File : dropped[g] \cup D \in SUBSET Key
  BY <1>2 DEF TypeOK
<1>4. PICK ft \in {"none", "cached", "dropped", "durable"} : foot' = [foot EXCEPT ![f] = ft]
  BY DEF FileSyncFails, TypeOK
<1> QED
  BY <1>1, <1>3, <1>4 DEF TypeOK

\* One more directory that a power loss may leave.
LEMMA NewDirectory ==
  ASSUME TypeOK, dirStates' = dirStates \cup {dir'},
         \A d \in dirStates : GoodDirectory(d)',
         \A f, g \in File : dir'[f] = "active" /\ dir'[g] = "active" => f = g,
         \A f \in File : /\ dir'[f] = "sealed" => foot'[f] = "durable" /\ ~junk'[f]
                         /\ f >= nextID' => dir'[f] = "none"
  PROVE  Directories'
<1> DEFINE Good(d) == /\ \A f, g \in File : d[f] = "active" /\ d[g] = "active" => f = g
                      /\ \A f \in File :
                           /\ d[f] = "sealed" => foot'[f] = "durable" /\ ~junk'[f] /\ dir'[f] # "active"
                           /\ f >= nextID' => d[f] = "none"
<1>1. \A d \in dirStates : Good(d)
  BY DEF GoodDirectory
<1>2. Good(dir')
  <2>1. \A f \in File : dir'[f] = "sealed" => dir'[f] # "active"
    OBVIOUS
  <2> QED
    BY <2>1, Zenon
<1>3. (\A d \in dirStates' : Good(d)) => Directories'
  BY DEF Directories, GoodDirectory
<1> HIDE DEF Good
<1> QED
  BY <1>1, <1>2, <1>3

\* Removing a file harms no directory.
LEMMA RemoveKeeps ==
  ASSUME TypeOK, Directories, NEW f \in File, SetDir(f, "none"), UNCHANGED <<foot, junk, nextID>>
  PROVE  Directories'
<1>1. dir' = [dir EXCEPT ![f] = "none"] /\ dirStates' = dirStates \cup {dir'}
  BY DEF SetDir
<1>2. GoodDirectory(dir) /\ \A g \in File : dir'[g] = IF g = f THEN "none" ELSE dir[g]
  BY <1>1 DEF TypeOK, Directories
<1>3. \A d \in dirStates : GoodDirectory(d)'
  BY <1>2 DEF Directories, GoodDirectory
<1> QED
  BY <1>1, <1>2, <1>3, NewDirectory DEF GoodDirectory

\* An fsync of a file and what a failed one leaves agree with Pages.
LEMMA FileSyncPages ==
  ASSUME TypeOK, Pages, NEW f \in File, FileSync(f), UNCHANGED <<body, dropped>>
  PROVE  Pages' /\ \A g \in File : synced[g] \subseteq synced'[g]
<1>1. \A g \in File : synced'[g] = IF g = f THEN Keys(f) \ dropped[f] ELSE synced[g]
  BY DEF TypeOK, FileSync
<1>2. \A g \in File : g # f => foot'[g] = foot[g]
  BY DEF TypeOK, FileSync
<1>3. ASSUME NEW g \in File PROVE synced[g] \subseteq synced'[g]
  <2>1. synced[g] \subseteq Keys(g) /\ synced[g] \cap dropped[g] = {}
    BY DEF Pages
  <2> QED
    BY <1>1, <2>1
<1>4. \A g \in File : /\ synced'[g] \subseteq Keys(g) /\ synced'[g] \cap dropped[g] = {}
                      /\ foot'[g] = "durable" => Keys(g) \subseteq synced'[g] \cup dropped[g]
  BY <1>1, <1>2 DEF Pages
<1> QED
  BY <1>3, <1>4 DEF Pages, Keys

\* A failed one drops pages that were not durable.
LEMMA FileSyncFailsPages ==
  ASSUME TypeOK, Pages, NEW f \in File, FileSyncFails(f), UNCHANGED <<body, synced>>
  PROVE  Pages'
<1>1. PICK D \in SUBSET (Keys(f) \ synced[f]) : dropped' = [dropped EXCEPT ![f] = @ \cup D]
  BY DEF FileSyncFails
<1>2. \A g \in File : dropped'[g] = IF g = f THEN dropped[f] \cup D ELSE dropped[g]
  BY <1>1 DEF TypeOK
<1>3. \A g \in File : foot'[g] = "durable" => foot[g] = "durable"
  BY DEF TypeOK, FileSyncFails
<1>4. ASSUME NEW g \in File
      PROVE  dropped[g] \subseteq dropped'[g] /\ synced[g] \cap dropped'[g] = {}
  <2>1. synced[g] \cap dropped[g] = {}
    BY DEF Pages
  <2> QED
    BY <1>2, <2>1
<1> QED
  BY <1>3, <1>4 DEF Pages, Keys

----------------------------------------------------------------------------
(* What a power loss leaves.                                                *)

\* The recursive function of Kept, by its values, and that there is one.
KeptStep(s, keep, f, i) ==
  IF i = 0 THEN <<>> ELSE IF s[i] \in keep THEN Append(f[i - 1], s[i]) ELSE f[i - 1]

IsKept(s, keep, n, f) == f = [i \in 0..n |-> KeptStep(s, keep, f, i)]

\* By the least length for which there is none: it extends the one before.
LEMMA KeptExists ==
  ASSUME NEW s, NEW keep, NEW n \in Nat
  PROVE  \E f : IsKept(s, keep, n, f)
<1> DEFINE T == {k \in Nat : ~\E f : IsKept(s, keep, k, f)}
<1> SUFFICES ASSUME T # {} PROVE FALSE
  OBVIOUS
<1>1. PICK k \in T : \A m \in T : k <= m
  BY LeastNat
<1>2. CASE k = 0
  <2> DEFINE f == [i \in 0..0 |-> <<>>]
  <2>1. IsKept(s, keep, 0, f)
    BY DEF IsKept, KeptStep
  <2> QED
    BY <1>2, <2>1
<1>3. CASE k # 0
  <2>1. k - 1 \in Nat /\ k - 1 \notin T
    BY <1>1, <1>3
  <2>2. PICK f : IsKept(s, keep, k - 1, f)
    BY <2>1
  <2> DEFINE g == [i \in 0..k |-> IF i = k THEN KeptStep(s, keep, f, k) ELSE f[i]]
  <2>3. ASSUME NEW i \in 0..k PROVE g[i] = KeptStep(s, keep, g, i)
    <3>1. i # 0 => g[i - 1] = f[i - 1]
      BY <1>3
    <3>2. g[i] = KeptStep(s, keep, f, i)
      <4>1. CASE i = k
        BY <4>1
      <4>2. CASE i # k
        <5>1. i \in 0..(k - 1)
          BY <2>1, <4>2
        <5>2. f[i] = KeptStep(s, keep, f, i)
          BY <2>2, <5>1 DEF IsKept
        <5> QED
          BY <4>2, <5>2
      <4> QED
        BY <4>1, <4>2
    <3> HIDE DEF g
    <3> QED
      BY <3>1, <3>2 DEF KeptStep
  <2>4. g = [i \in 0..k |-> g[i]]
    OBVIOUS
  <2> HIDE DEF g
  <2>5. IsKept(s, keep, k, g)
    BY <2>3, <2>4 DEF IsKept
  <2> QED
    BY <2>5
<1> QED
  BY <1>2, <1>3

\* So Kept is a value of a function that satisfies its recursion.
LEMMA KeptIs ==
  ASSUME NEW s, NEW keep, Len(s) \in Nat
  PROVE  \E f : IsKept(s, keep, Len(s), f) /\ Kept(s, keep) = f[Len(s)]
<1> DEFINE it == CHOOSE f : f = [i \in 0..Len(s) |-> KeptStep(s, keep, f, i)]
<1>1. Kept(s, keep) = it[Len(s)]
  BY Zenon DEF Kept, KeptStep
<1>2. \E f : f = [i \in 0..Len(s) |-> KeptStep(s, keep, f, i)]
  BY KeptExists, Zenon DEF IsKept
<1>3. it = [i \in 0..Len(s) |-> KeptStep(s, keep, it, i)]
  BY <1>2, Zenon
<1> HIDE DEF it
<1> QED
  BY <1>1, <1>3, Zenon DEF IsKept

\* The records that remain are those of s that are in keep.
LEMMA KeptValue ==
  ASSUME NEW S, NEW s \in Seq(S), NEW keep
  PROVE  Kept(s, keep) \in Seq(S) /\ ToSet(Kept(s, keep)) = ToSet(s) \cap keep
<1>0. Len(s) \in Nat /\ DOMAIN s = 1..Len(s)
  OBVIOUS
<1>1. PICK f : IsKept(s, keep, Len(s), f) /\ Kept(s, keep) = f[Len(s)]
  BY <1>0, KeptIs
<1> DEFINE Upto(i) == {s[j] : j \in 1..i} \cap keep
           T == {i \in 0..Len(s) : ~(f[i] \in Seq(S) /\ ToSet(f[i]) = Upto(i))}
<1>2. ASSUME T # {} PROVE FALSE
  <2>1. PICK i \in T : \A m \in T : i <= m
    <3>1. T \in SUBSET Nat
      BY <1>0
    <3> HIDE DEF T
    <3> QED
      BY <1>2, <3>1, LeastNat
  <2>2. i \in 0..Len(s) /\ ~(f[i] \in Seq(S) /\ ToSet(f[i]) = Upto(i))
    BY <2>1
  <2>3. f[i] = KeptStep(s, keep, f, i)
    BY <1>0, <1>1, <2>2 DEF IsKept
  <2>4. CASE i = 0
    <3>1. f[i] = <<>>
      BY <2>3, <2>4 DEF KeptStep
    <3>2. ToSet(<<>>) = {} /\ Upto(0) = {} /\ <<>> \in Seq(S)
      BY DEF ToSet
    <3> QED
      BY <2>2, <2>4, <3>1, <3>2
  <2>5. CASE i # 0
    <3>1. i - 1 \in 0..Len(s) /\ ~(i <= i - 1) /\ i \in 1..Len(s)
      BY <1>0, <2>2, <2>5
    <3>2. i - 1 \notin T
      <4> HIDE DEF T
      <4> QED
        BY <2>1, <3>1
    <3>3. f[i - 1] \in Seq(S) /\ ToSet(f[i - 1]) = Upto(i - 1)
      BY <3>1, <3>2
    <3>4. s[i] \in S
      BY <3>1
    <3>5. \A q \in Seq(S) : Append(q, s[i]) \in Seq(S) /\ ToSet(Append(q, s[i])) = ToSet(q) \cup {s[i]}
      BY <3>4, AppendSet
    <3>6. 1..i = (1..(i - 1)) \cup {i}
      BY <1>0, <3>1
    <3>7. Upto(i) = IF s[i] \in keep THEN Upto(i - 1) \cup {s[i]} ELSE Upto(i - 1)
      BY <3>6
    <3> HIDE DEF Upto
    <3> QED
      BY <2>2, <2>3, <2>5, <3>3, <3>5, <3>7 DEF KeptStep
  <2> QED
    BY <2>4, <2>5
<1>3. f[Len(s)] \in Seq(S) /\ ToSet(f[Len(s)]) = Upto(Len(s))
  <2>1. Len(s) \in 0..Len(s)
    BY <1>0
  <2>2. Len(s) \notin T
    BY <1>2, Zenon
  <2> HIDE DEF Upto
  <2> QED
    BY <2>1, <2>2
<1>4. Upto(Len(s)) = ToSet(s) \cap keep
  BY <1>0 DEF ToSet
<1> QED
  BY <1>1, <1>3, <1>4

\* The durable prefix of a sequence of records.
LEMMA SolidLemma ==
  ASSUME NEW s \in Seq(Key), NEW D, NEW E, D \subseteq E
  PROVE  /\ Solid(s, D) \subseteq ToSet(s)
         /\ Solid(s, D) \subseteq Solid(s, E)
         /\ ToSet(s) \subseteq D => Solid(s, D) = ToSet(s)
         /\ \A k \in Key : Solid(s, D) \subseteq Solid(Append(s, k), E)
<1>1. DOMAIN s = 1..Len(s) /\ Len(s) \in Nat
  OBVIOUS
<1>2. Solid(s, D) \subseteq ToSet(s) /\ Solid(s, D) \subseteq Solid(s, E)
  BY DEF Solid, ToSet
<1>3. ToSet(s) \subseteq D => Solid(s, D) = ToSet(s)
  <2> SUFFICES ASSUME ToSet(s) \subseteq D, NEW j \in DOMAIN s
               PROVE  \A h \in 1..j : s[h] \in D
    BY <1>2 DEF Solid, ToSet
  <2>1. \A h \in 1..j : h \in DOMAIN s
    BY <1>1
  <2> QED
    BY <2>1 DEF ToSet
<1>4. ASSUME NEW k \in Key PROVE Solid(s, D) \subseteq Solid(Append(s, k), E)
  <2> DEFINE t == Append(s, k)
  <2>1. \A i \in DOMAIN s : i \in DOMAIN t /\ t[i] = s[i]
    BY <1>1
  <2> HIDE DEF t
  <2> SUFFICES ASSUME NEW j \in DOMAIN s, \A h \in 1..j : s[h] \in D
               PROVE  j \in DOMAIN t /\ t[j] = s[j] /\ \A h \in 1..j : t[h] \in E
    BY DEF Solid, t
  <2>2. \A h \in 1..j : h \in DOMAIN s
    BY <1>1
  <2> QED
    BY <2>1, <2>2
<1> QED
  BY <1>2, <1>3, <1>4

\* Of a file that keeps its name, all of its durable prefix stays.
LEMMA LeftValue ==
  ASSUME TypeOK, NEW f \in File, NEW d, NEW keep \in SUBSET Key, synced[f] \subseteq keep
  PROVE  /\ Left(f, d, keep) \in Seq(Key)
         /\ Solid(body[f], synced[f]) \subseteq ToSet(Left(f, d, keep))
<1>1. PICK s \in Seq(Key) : s = body[f]
  BY DEF TypeOK
<1>2. Len(s) \in Nat /\ DOMAIN s = 1..Len(s)
  OBVIOUS
<1>3. CASE d[f] = "active"
  <2> DEFINE holes == {i \in 1..Len(s) : s[i] \notin keep}
  <2>1. PICK n \in 0..Len(s) : /\ Left(f, d, keep) = SubSeq(s, 1, n)
                               /\ n = Len(s) \/ n + 1 \in holes
    <3>1. CASE holes = {}
      <4>1. Left(f, d, keep) = SubSeq(s, 1, Len(s))
        BY <1>1, <1>3, <3>1, Zenon DEF Left
      <4>2. Len(s) \in 0..Len(s)
        BY <1>2
      <4> QED
        BY <4>1, <4>2
    <3>2. CASE holes # {}
      <4> DEFINE m == CHOOSE i \in holes : \A j \in holes : i <= j
      <4>1. Left(f, d, keep) = SubSeq(s, 1, m - 1)
        BY <1>1, <1>3, <3>2, Zenon DEF Left
      <4>2. holes \in SUBSET Nat
        BY <1>2
      <4>3. m \in holes
        <5> HIDE DEF holes
        <5>1. \E i \in holes : \A j \in holes : i <= j
          BY <3>2, <4>2, LeastNat
        <5> QED
          BY <5>1, Zenon
      <4> HIDE DEF m
      <4>4. m - 1 \in 0..Len(s) /\ (m - 1) + 1 = m
        BY <1>2, <4>3
      <4> QED
        BY <4>1, <4>3, <4>4
    <3> QED
      BY <3>1, <3>2
  <2>2. SubSeq(s, 1, n) \in Seq(Key) /\ ToSet(SubSeq(s, 1, n)) = {s[i] : i \in 1..n}
    <3>0. SubSeq(s, 1, n) \in Seq(Key)
      BY <1>2
    <3>1. PICK q \in Seq(Key) : q = SubSeq(s, 1, n)
      BY <3>0
    <3>2. DOMAIN q = 1..n /\ \A i \in 1..n : q[i] = s[i]
      BY <1>2, <3>1
    <3>3. ToSet(q) = {s[i] : i \in 1..n}
      BY <3>2 DEF ToSet
    <3> QED
      BY <3>1, <3>3
  <2>3. Solid(body[f], synced[f]) \subseteq {s[i] : i \in 1..n}
    <3> SUFFICES ASSUME NEW j \in 1..Len(s), \A h \in 1..j : s[h] \in synced[f]
                 PROVE  j \in 1..n
      BY <1>1, <1>2 DEF Solid
    <3>1. n + 1 \in holes => ~(n + 1 <= j)
      BY <1>2
    <3> HIDE DEF holes
    <3>2. n = Len(s) \/ ~(n + 1 <= j)
      BY <2>1, <3>1
    <3>3. j \in Nat /\ n \in Nat /\ 1 <= j /\ j <= Len(s)
      BY <1>2
    <3>4. j <= n
      <4>1. CASE n = Len(s)
        BY <3>3, <4>1
      <4>2. CASE ~(n + 1 <= j)
        BY <3>3, <4>2
      <4> QED
        BY <3>2, <4>1, <4>2
    <3> QED
      BY <3>3, <3>4
  <2> QED
    BY <2>1, <2>2, <2>3
<1>4. CASE d[f] # "active"
  <2>1. Left(f, d, keep) = Kept(s, keep)
    BY <1>1, <1>4 DEF Left
  <2>2. Solid(body[f], synced[f]) \subseteq ToSet(s) \cap keep
    BY <1>1, <1>2 DEF Solid, ToSet
  <2> QED
    BY <2>1, <2>2, KeptValue
<1> QED
  BY <1>3, <1>4

\* A power loss leaves a directory of those it may leave, in it the durable part of every
\* file, and a durable footer in a sealed file that had one.
LEMMA PowerLossEffect ==
  ASSUME TypeOK, PowerLoss
  PROVE  /\ dir' \in dirStates /\ dirStates' = {dir'}
         /\ body' \in [File -> Seq(Key)]
         /\ synced' = [f \in File |-> ToSet(body'[f])]
         /\ dropped' = [f \in File |-> {}]
         /\ foot' \in [File -> {"none", "durable"}] /\ junk' \in [File -> BOOLEAN]
         /\ \A f \in File : /\ dir'[f] # "none" => Solid(body[f], synced[f]) \subseteq ToSet(body'[f])
                            /\ dir'[f] = "sealed" /\ foot[f] = "durable" => foot'[f] = "durable"
                            /\ junk'[f] => junk[f]
<1>1. PICK d \in dirStates, keep \in [File -> SUBSET Key], footer \in SUBSET File :
        LET on == {f \in File : d[f] # "none"} IN
        /\ \A f \in File : IF f \in on THEN synced[f] \subseteq keep[f] /\ keep[f] \subseteq Keys(f)
                           ELSE keep[f] = {}
        /\ \A f \in File : IF f \in on
                           THEN (foot[f] = "durable" => f \in footer) /\ (foot[f] = "none" => f \notin footer)
                           ELSE f \notin footer
        /\ dir' = d /\ dirStates' = {d}
        /\ body' = [f \in File |-> IF f \in on THEN Left(f, d, keep[f]) ELSE <<>>]
        /\ synced' = [f \in File |-> ToSet(body'[f])]
        /\ foot' = [f \in File |->
                      IF f \in footer /\ (d[f] = "sealed" \/ body'[f] = body[f]) THEN "durable" ELSE "none"]
        /\ junk' = [f \in File |-> f \in on /\ junk[f]]
  BY Zenon DEF PowerLoss
<1>2. \A f \in File : d[f] # "none" => /\ Left(f, d, keep[f]) \in Seq(Key)
                                       /\ Solid(body[f], synced[f]) \subseteq ToSet(Left(f, d, keep[f]))
  BY <1>1, LeftValue
<1>3. body' \in [File -> Seq(Key)]
  BY <1>1, <1>2
<1>4. \A f \in File : dir'[f] # "none" => Solid(body[f], synced[f]) \subseteq ToSet(body'[f])
  BY <1>1, <1>2
<1>5. junk' \in [File -> BOOLEAN]
  BY <1>1, Zenon
<1>6. dropped' = [f \in File |-> {}]
  BY DEF PowerLoss
<1> QED
  BY <1>1, <1>3, <1>4, <1>5, <1>6
----------------------------------------------------------------------------
(* The end of a section of appendMu.                                        *)

\* What a writer makes of the result: it goes on, fails or has its answer.
LEMMA WriterResult ==
  ASSUME TypeOK, Holder, NEW ok \in BOOLEAN, mby \in Writer, WriterGets(mby, ok)
  PROVE  /\ wpc' = [wpc EXCEPT ![mby] = wpc'[mby]] /\ wpc'[mby] \in {"next", "failsync", "idle"}
         /\ wkey' = [wkey EXCEPT ![mby] = NoKey]
         /\ wapp' = [wapp EXCEPT ![mby] = TRUE] \/ wapp' = [wapp EXCEPT ![mby] = FALSE]
         /\ wdone' = [wdone EXCEPT ![mby] = wdone'[mby]]
         /\ \/ wdone'[mby] = {}
            \/ /\ ok /\ wpc[mby] = "append" /\ wpc'[mby] = "next"
               /\ wdone'[mby] = wdone[mby] \cup {mkey}
         /\ \/ acked' = acked
            \/ ok /\ wpc[mby] = "sync" /\ acked' = acked \cup wdone[mby]
            \/ ok /\ wpc[mby] = "put" /\ mpc # "append" /\ acked' = acked \cup {mkey}
<1> USE DEF SetWriter, TypeOK
<1>1. CASE wpc[mby] = "append"
  BY <1>1 DEF WriterGets
<1>2. CASE wpc[mby] = "sync"
  BY <1>2 DEF WriterGets
<1>3. CASE wpc[mby] = "failsync"
  BY <1>3 DEF WriterGets
<1>4. CASE wpc[mby] = "put"
  BY <1>4 DEF WriterGets
<1> QED
  BY <1>1, <1>2, <1>3, <1>4 DEF WriterGets

\* It goes to the writer or to Compact that holds the lock.
LEMMA ReturnHolder ==
  ASSUME TypeOK, Holder, NEW ok \in BOOLEAN, Return(ok), mpc \notin {"free", "compact", "wipe"}
  PROVE  Holder'
<1> USE PackAssumption DEF writerVars, compactVars, Release, Chain
<1>1. CASE mby \in Writer
  <2>1. WriterGets(mby, ok) /\ Release /\ UNCHANGED compactVars
    BY <1>1 DEF Return
  <2> QED
    BY <1>1, <2>1, WriterResult DEF TypeOK, Holder
<1>2. CASE mby = "compact"
  <2>1. CompactGets(ok)
    BY <1>2 DEF Return
  <2>2. CASE ~ok
    BY <1>2, <2>1, <2>2 DEF CompactGets, TypeOK, Holder
  <2>3. CASE ok
    BY <1>2, <2>1, <2>3 DEF CompactGets, TypeOK, Holder
  <2> QED
    BY <2>2, <2>3
<1> QED
  BY <1>1, <1>2 DEF TypeOK, Holder

\* The types of what it changes.
LEMMA ReturnType ==
  ASSUME TypeOK, Holder, NEW ok \in BOOLEAN, Return(ok), mpc \notin {"free", "compact", "wipe"}
  PROVE  /\ mpc' \in {"free", "compact"} /\ mby' \in {"none", "compact"}
         /\ mkey' = NoKey /\ msync' \in BOOLEAN
         /\ wpc' \in [Writer -> {"idle", "next", "append", "put", "sync", "failsync"}]
         /\ wkey' \in [Writer -> Key \cup {NoKey}]
         /\ wdone' \in [Writer -> SUBSET Key]
         /\ wapp' \in [Writer -> BOOLEAN]
         /\ cpc' \in {"idle", "seal", "select", "copy", "sync", "detach", "unlink"}
         /\ live' \subseteq Key /\ victims' \subseteq File /\ pending' \subseteq Key
         /\ acked' \subseteq Key
<1> USE PackAssumption DEF writerVars, compactVars, Release, Chain
<1>1. CASE mby \in Writer
  <2>1. WriterGets(mby, ok) /\ Release /\ UNCHANGED compactVars
    BY <1>1 DEF Return
  <2>2. wpc[mby] \in {"append", "put"} => mkey \in Key
    BY <1>1 DEF TypeOK, Holder
  <2>3. wdone'[mby] \subseteq Key /\ acked' \subseteq Key
    BY <1>1, <2>1, <2>2, WriterResult DEF TypeOK
  <2>4. wapp' \in [Writer -> BOOLEAN]
    <3>1. wapp' = [wapp EXCEPT ![mby] = TRUE] \/ wapp' = [wapp EXCEPT ![mby] = FALSE]
      BY <1>1, <2>1, WriterResult
    <3>2. wapp \in [Writer -> BOOLEAN]
      BY DEF TypeOK
    <3> QED
      BY <1>1, <3>1, <3>2, Zenon
  <2>5. /\ wpc' \in [Writer -> {"idle", "next", "append", "put", "sync", "failsync"}]
        /\ wkey' \in [Writer -> Key \cup {NoKey}]
        /\ wdone' \in [Writer -> SUBSET Key]
    <3>1. /\ wpc' = [wpc EXCEPT ![mby] = wpc'[mby]] /\ wpc'[mby] \in {"next", "failsync", "idle"}
          /\ wkey' = [wkey EXCEPT ![mby] = NoKey]
          /\ wdone' = [wdone EXCEPT ![mby] = wdone'[mby]]
      BY <1>1, <2>1, WriterResult
    <3>2. wpc' \in [Writer -> {"idle", "next", "append", "put", "sync", "failsync"}]
      BY <3>1 DEF TypeOK
    <3>3. wkey' \in [Writer -> Key \cup {NoKey}]
      BY <3>1 DEF TypeOK
    <3>4. wdone' \in [Writer -> SUBSET Key]
      BY <2>3, <3>1 DEF TypeOK
    <3> QED
      BY <3>2, <3>3, <3>4
  <2> QED
    BY <1>1, <2>1, <2>3, <2>4, <2>5 DEF TypeOK
<1>2. CASE mby = "compact"
  BY <1>2 DEF Return, CompactGets, TypeOK
<1> QED
  BY <1>1, <1>2 DEF TypeOK, Holder

\* What it does to the sets of keys that the other parts of the invariant are about.
LEMMA ReturnKeys ==
  ASSUME TypeOK, Holder, NEW ok \in BOOLEAN, Return(ok), mpc \notin {"free", "compact", "wipe"}
  PROVE  /\ \/ acked' = acked
            \/ /\ ok /\ mpc = "sync" /\ cpc = "idle"
               /\ \E w \in Writer : acked' = acked \cup wdone[w]
            \/ /\ ok /\ mpc \in {"header"} \cup Chain /\ cpc = "idle" /\ msync /\ mkey \in Key
               /\ acked' = acked \cup {mkey}
         /\ \A w \in Writer : \/ wdone'[w] \subseteq wdone[w]
                              \/ /\ ok /\ mpc # "sync" /\ mkey \in Key
                                 /\ wdone'[w] = wdone[w] \cup {mkey}
         /\ \/ cpc' = "idle" /\ (cpc = "idle" => UNCHANGED compactVars)
               /\ (cpc # "idle" => victims' = {} /\ pending' = {})
            \/ /\ ok /\ cpc \in {"seal", "copy", "sync"} /\ UNCHANGED <<live, victims>>
               /\ cpc' = CASE cpc = "seal" -> "select" [] cpc = "copy" -> "copy" [] OTHER -> "detach"
               /\ pending' = pending \ {mkey}
<1> USE PackAssumption DEF compactVars, Chain
<1>1. CASE mby \in Writer
  <2>1. WriterGets(mby, ok) /\ UNCHANGED compactVars /\ cpc = "idle"
    BY <1>1 DEF Return, Holder
  <2>2. wpc[mby] \in {"append", "put"} => mkey \in Key /\ mpc # "sync" /\ msync = (wpc[mby] = "put")
    BY <1>1 DEF TypeOK, Holder
  <2>3. wpc[mby] = "sync" => mpc = "sync"
    BY <1>1 DEF Holder
  <2>4. \A w \in Writer : w # mby => wdone'[w] = wdone[w]
    BY <1>1, <2>1, WriterResult DEF TypeOK
  <2>5. wpc[mby] = "put" /\ mpc # "append" => mpc \in Chain \cup {"header"}
    BY <1>1 DEF Holder
  <2>6. \/ acked' = acked
        \/ ok /\ wpc[mby] = "sync" /\ acked' = acked \cup wdone[mby]
        \/ ok /\ wpc[mby] = "put" /\ mpc # "append" /\ acked' = acked \cup {mkey}
    BY <1>1, <2>1, WriterResult
  <2>7. \/ wdone'[mby] = {}
        \/ ok /\ wpc[mby] = "append" /\ wdone'[mby] = wdone[mby] \cup {mkey}
    BY <1>1, <2>1, WriterResult
  <2> QED
    BY <1>1, <2>1, <2>2, <2>3, <2>4, <2>5, <2>6, <2>7
<1>2. CASE mby = "compact"
  BY <1>2 DEF Return, CompactGets, TypeOK, Holder, writerVars
<1> QED
  BY <1>1, <1>2 DEF TypeOK, Holder

\* appendLocked never runs without a key.
LEMMA AppendsKey == TypeOK /\ Holder /\ mpc = "append" => mkey \in Key
BY PackAssumption DEF TypeOK, Holder, Chain

\* WriteAt adds the key of the call to the active file and leaves the others alone.
LEMMA WriteRecordEffect ==
  ASSUME TypeOK, Holder, WriteRecord
  PROVE  /\ active \in File /\ mkey \in Key
         /\ \A g \in File : g # active => body'[g] = body[g]
         /\ body'[active] = Append(body[active], mkey)
         /\ ToSet(body'[active]) = ToSet(body[active]) \cup {mkey}
<1>1. active \in File /\ mkey \in Key /\ body[active] \in Seq(Key)
  BY AppendsKey DEF WriteRecord, TypeOK
<1>2. /\ \A g \in File : g # active => body'[g] = body[g]
      /\ body'[active] = Append(body[active], mkey)
  BY <1>1 DEF WriteRecord, TypeOK
<1> QED
  BY <1>1, <1>2, AppendSet

\* What is stored stays stored as long as its files are published and lose no record.
LEMMA StoredKept ==
  ASSUME \A f \in sealed \cup ({active} \ {0}) :
           f \in sealed' \cup ({active'} \ {0}) /\ ToSet(body[f]) \subseteq ToSet(body'[f])
  PROVE  Stored \subseteq Stored'
BY DEF Stored, Keys

\* The same for what is in no victim.
LEMMA SurvivorsKept ==
  ASSUME \A f \in (sealed \ victims) \cup ({active} \ {0}) :
           f \in (sealed' \ victims') \cup ({active'} \ {0}) /\ ToSet(body[f]) \subseteq ToSet(body'[f])
  PROVE  Survivors \subseteq Survivors'
BY DEF Survivors, Keys

\* Nothing else changes: the acknowledged records are where they were.
LEMMA AckedSame ==
  ASSUME AckedDurable, acked' \subseteq acked, UNCHANGED <<body, synced>>,
         \A f \in Safe : f \in Holding' /\ \A d \in dirStates' : d[f] # "none"
  PROVE  AckedDurable'
<1>1. \A f \in Safe : f \in Safe'
  BY DEF Safe
<1> QED
  BY <1>1 DEF AckedDurable

\* The files grow, and new acknowledgements X are covered.
LEMMA AckedKept ==
  ASSUME AckedDurable, NEW X, acked' \subseteq acked \cup X,
         \A f \in Safe : /\ f \in Holding' /\ \A d \in dirStates' : d[f] # "none"
                         /\ Solid(body[f], synced[f]) \subseteq Solid(body'[f], synced'[f]),
         \A k \in X : \E f \in Safe' : k \in Solid(body'[f], synced'[f])
  PROVE  AckedDurable'
<1> SUFFICES ASSUME NEW k \in acked' PROVE \E f \in Safe' : k \in Solid(body'[f], synced'[f])
  BY DEF AckedDurable
<1>1. CASE k \in acked
  <2>1. PICK f \in Safe : k \in Solid(body[f], synced[f])
    BY <1>1 DEF AckedDurable
  <2>2. f \in Safe'
    BY DEF Safe
  <2> QED
    BY <2>1, <2>2
<1> QED
  BY <1>1

\* In a session every acknowledged record is in a published file.
LEMMA AckedFound ==
  ASSUME TypeOK, AckedDurable, up = "up", NEW k \in acked
  PROVE  \E f \in sealed \cup ({active} \ {0}) : k \in Keys(f)
<1>1. PICK f \in Safe : k \in Solid(body[f], synced[f])
  BY DEF AckedDurable
<1>2. f \in sealed \cup ({active} \ {0}) /\ f \in File
  BY DEF Safe, Holding, TypeOK
<1>3. body[f] \in Seq(Key)
  BY <1>2 DEF TypeOK
<1>4. Solid(body[f], synced[f]) \subseteq Keys(f)
  BY <1>3, SolidLemma DEF Keys
<1> QED
  BY <1>1, <1>2, <1>4

----------------------------------------------------------------------------
(* Open.                                                                    *)

\* load accepts every directory of the invariant.
LEMMA LoadSucceeds == TypeOK /\ Directories => ~LoadFails
<1> SUFFICES ASSUME TypeOK, Directories PROVE ~LoadFails
  OBVIOUS
<1>1. GoodDirectory(dir)
  BY DEF TypeOK, Directories
<1>2. Existing("active") = {} \/ \E f : Existing("active") = {f}
  BY <1>1 DEF GoodDirectory, Existing
<1>3. Cardinality(Existing("active")) \in {0, 1}
  BY <1>2, FS_EmptySet, FS_Singleton
<1>4. \A f \in Existing("sealed") : FooterValid(f)
  BY <1>1 DEF GoodDirectory, Existing, FooterValid
<1> QED
  BY <1>3, <1>4 DEF LoadFails

\* The session it begins: every file is published under its name, and what is sealed
\* is durable, for the page cache was clean.
LEMMA OpenEffect ==
  ASSUME ~ReopenDirty, TypeOK, Directories, Pages, Open
  PROVE  /\ up = "down" /\ up' = "up"
         /\ active' \in File \cup {0} /\ sealed' = {f \in File : dir'[f] = "sealed"}
         /\ \A f \in File : /\ dir'[f] = "active" => f = active'
                            /\ f = active' => dir'[f] = "active"
                            /\ dir'[f] = "none" => dir[f] = "none"
                            /\ dir[f] # "none" => /\ dropped[f] = {}
                                                  /\ \A d \in dirStates' : d[f] # "none"
                            /\ dir'[f] = "sealed" => /\ foot'[f] = "durable" /\ foot[f] = "durable"
                                                     /\ Keys(f) \subseteq synced[f]
         /\ UNCHANGED <<body, synced, dropped, nextID, failed, muVars, writerVars, compactVars,
                        wipeVars, histVars>>
<1>1. /\ up = "down" /\ up' = "up" /\ CacheClean /\ recoverActive
      /\ UNCHANGED <<body, synced, dropped, nextID, failed, muVars, writerVars, compactVars,
                     wipeVars, histVars>>
  BY LoadSucceeds DEF Open, MayOpen
<1>2. GoodDirectory(dir)
  BY DEF TypeOK, Directories
<1> DEFINE resumed == Existing("active") \ Unrenamed
<1>3. /\ dir' = [f \in File |-> IF f \in Unrenamed THEN "sealed" ELSE dir[f]]
      /\ dirStates' = IF Unrenamed = {} THEN dirStates ELSE {dir'}
      /\ sealed' = Existing("sealed") \cup Unrenamed
      /\ active' = IF resumed = {} THEN 0 ELSE CHOOSE f \in resumed : TRUE
      /\ foot' = [f \in File |-> IF f \in resumed THEN "none" ELSE foot[f]]
  BY <1>1, Zenon DEF recoverActive
<1>4. \A f \in Unrenamed : f \in File /\ dir[f] = "active" /\ foot[f] = "durable"
  BY <1>1 DEF Unrenamed, Existing, FooterValid, CacheClean
<1>5. \A f \in File : dir'[f] = IF f \in Unrenamed THEN "sealed" ELSE dir[f]
  BY <1>3
<1>6. \A f \in File : f \in resumed <=> dir'[f] = "active"
  BY <1>5 DEF Existing
<1>7. \A f, g \in File : dir'[f] = "active" /\ dir'[g] = "active" => f = g
  <2>1. \A f \in File : dir'[f] = "active" => dir[f] = "active"
    BY <1>5
  <2> QED
    BY <1>2, <2>1 DEF GoodDirectory
<1>8. /\ active' \in File \cup {0}
      /\ \A f \in File : /\ dir'[f] = "active" => f = active'
                         /\ f = active' => dir'[f] = "active"
  <2>1. resumed \subseteq File
    BY DEF Existing
  <2>2. CASE resumed = {}
    <3>1. active' = 0
      BY <1>3, <2>2
    <3> QED
      BY PackAssumption, <1>6, <2>2, <3>1
  <2>3. CASE resumed # {}
    <3>1. active' \in resumed
      BY <1>3, <2>3, Zenon
    <3> QED
      BY <1>6, <1>7, <2>1, <3>1
  <2> QED
    BY <2>2, <2>3
<1>9. sealed' = {f \in File : dir'[f] = "sealed"}
  BY <1>3, <1>4, <1>5 DEF Existing
<1>10. ASSUME NEW f \in File, dir[f] # "none"
       PROVE  /\ dropped[f] = {} /\ \A d \in dirStates' : d[f] # "none"
  <2>1. f \in Existing("active") \cup Existing("sealed")
    BY <1>10 DEF Existing, TypeOK
  <2>2. dropped[f] = {} /\ \A d \in dirStates : d[f] # "none"
    BY <1>1, <2>1 DEF CacheClean
  <2>3. dir'[f] # "none"
    BY <1>5, <1>10
  <2> QED
    BY <1>3, <2>2, <2>3
<1>11. ASSUME NEW f \in File, dir'[f] = "sealed"
       PROVE  foot'[f] = "durable" /\ foot[f] = "durable" /\ Keys(f) \subseteq synced[f]
  <2>1. foot[f] = "durable" /\ dir[f] # "none"
    BY <1>2, <1>4, <1>5, <1>11 DEF GoodDirectory
  <2>2. f \notin resumed
    BY <1>6, <1>11
  <2>3. dropped[f] = {} /\ Keys(f) \subseteq synced[f] \cup dropped[f]
    BY <1>10, <2>1 DEF Pages
  <2> QED
    BY <1>3, <2>1, <2>2, <2>3
<1>12. \A f \in File : dir'[f] = "none" => dir[f] = "none"
  BY <1>5
<1> HIDE DEF resumed
<1> QED
  BY <1>1, <1>8, <1>9, <1>10, <1>11, <1>12

\* appendMu goes from caller to caller: every chain of steps ends at the writer or at the
\* Compact that began it, with the arguments it began with.
LEMMA HolderStep == IndInv /\ [Next]_vars => Holder'
<1> SUFFICES ASSUME IndInv, [Next]_vars PROVE Holder'
  OBVIOUS
<1> USE DEF diskVars, procVars, muVars, writerVars, compactVars, wipeVars, histVars
<1>0. TypeOK /\ Holder /\ Idle
  BY DEF IndInv
<1>1. CASE Refuse
  BY <1>0, <1>1, ReturnHolder DEF Refuse
<1>2. CASE CreateFile
  BY PackAssumption, <1>0, <1>2 DEF CreateFile, SetDir, TypeOK, Holder, Idle, Chain
<1>3. CASE CreateFails
  BY <1>0, <1>3, ReturnHolder DEF CreateFails
<1>4. CASE PublishActive
  BY PackAssumption, <1>0, <1>4 DEF PublishActive, DirSync, TypeOK, Holder, Idle, Chain
<1>5. CASE HeaderFails
  BY <1>0, <1>5, ReturnHolder DEF HeaderFails
<1>6. CASE AlreadyActive
  BY <1>0, <1>6, ReturnHolder DEF AlreadyActive
<1>7. CASE WriteRecord
  BY PackAssumption, <1>0, <1>7 DEF WriteRecord, TypeOK, Holder, Idle, Chain
<1>8. CASE WriteRecordFails
  BY <1>0, <1>8, ReturnHolder DEF WriteRecordFails
<1>9. CASE PutSync
  BY PackAssumption, <1>0, <1>9 DEF PutSync, FileSync, TypeOK, Holder, Idle, Chain
<1>10. CASE NoRotation
  BY <1>0, <1>10, ReturnHolder DEF NoRotation
<1>11. CASE Rotate
  BY PackAssumption, <1>0, <1>11 DEF Rotate, TypeOK, Holder, Idle, Chain
<1>12. CASE SyncActive
  BY <1>0, <1>12, ReturnHolder DEF SyncActive
<1>13. CASE SyncFails
  BY <1>0, <1>13, ReturnHolder DEF SyncFails, Poison
<1>14. CASE WriteFooter
  BY PackAssumption, <1>0, <1>14 DEF WriteFooter, TypeOK, Holder, Idle, Chain
<1>15. CASE WriteFooterFails
  BY <1>0, <1>15, ReturnHolder DEF WriteFooterFails, Poison
<1>16. CASE FooterSync
  BY PackAssumption, <1>0, <1>16 DEF FooterSync, FileSync, TypeOK, Holder, Idle, Chain
<1>17. CASE Rename
  BY PackAssumption, <1>0, <1>17 DEF Rename, SetDir, TypeOK, Holder, Idle, Chain
<1>18. CASE Swap
  BY <1>0, <1>18, ReturnHolder DEF Swap, Poison
<1>19. CASE SealFails
  BY <1>0, <1>19, ReturnHolder DEF SealFails, Poison
<1>20. ASSUME NEW w \in Writer, NEW k \in Key, BatchNext(w, k) PROVE Holder'
  BY PackAssumption, <1>0, <1>20 DEF BatchNext, SetWriter, TypeOK, Holder, Idle, Chain
<1>21. ASSUME NEW w \in Writer, NEW k \in Key, Put(w, k) PROVE Holder'
  BY PackAssumption, <1>0, <1>21 DEF Put, MayWrite, SetWriter, TypeOK, Holder, Idle, Chain
<1>22. ASSUME NEW w \in Writer, BatchStart(w) PROVE Holder'
  BY PackAssumption, <1>0, <1>22
     DEF BatchStart, MayWrite, SetWriter, TypeOK, Holder, Idle, Chain
<1>23. ASSUME NEW w \in Writer, BatchFails(w) PROVE Holder'
  BY PackAssumption, <1>0, <1>23 DEF BatchFails, SetWriter, TypeOK, Holder, Idle, Chain
<1>24. ASSUME NEW w \in Writer, LockAppend(w) PROVE Holder'
  BY PackAssumption, <1>0, <1>24 DEF LockAppend, Enter, TypeOK, Holder, Idle, Chain
<1>25. ASSUME NEW w \in Writer, LockSync(w) PROVE Holder'
  BY PackAssumption, <1>0, <1>25 DEF LockSync, Enter, TypeOK, Holder, Idle, Chain
<1>26. ASSUME NEW L \in SUBSET Key, Compact(L) PROVE Holder'
  BY PackAssumption, <1>0, <1>26 DEF Compact, TypeOK, Holder, Idle, Chain
<1>27. CASE selectVictims
  BY PackAssumption, <1>0, <1>27
     DEF selectVictims, CompactReturns, Release, TypeOK, Holder, Idle, Chain
<1>28. CASE CopyFails
  BY PackAssumption, <1>0, <1>28
     DEF CopyFails, CompactReturns, Release, TypeOK, Holder, Idle, Chain
<1>29. CASE CopySync
  BY PackAssumption, <1>0, <1>29 DEF CopySync, TypeOK, Holder, Idle, Chain
<1>30. CASE Detach
  BY PackAssumption, <1>0, <1>30 DEF Detach, TypeOK, Holder, Idle, Chain
<1>31. CASE CompactEnds
  BY PackAssumption, <1>0, <1>31
     DEF CompactEnds, CompactReturns, Release, DirSync, TypeOK, Holder, Idle, Chain
<1>32. ASSUME NEW k \in Key, copyLive(k) PROVE Holder'
  BY PackAssumption, <1>0, <1>32 DEF copyLive, TypeOK, Holder, Idle, Chain
<1>33. ASSUME NEW f \in File, Unlink(f) PROVE Holder'
  BY PackAssumption, <1>0, <1>33 DEF Unlink, SetDir, TypeOK, Holder, Idle, Chain
<1>34. CASE Wipe
  BY PackAssumption, <1>0, <1>34 DEF Wipe, TypeOK, Holder, Idle, Chain
<1>35. CASE WipeActive
  BY PackAssumption, <1>0, <1>35 DEF WipeActive, WipeRemove, SetDir, TypeOK, Holder, Idle, Chain
<1>36. ASSUME NEW f \in File, WipeSealed(f) PROVE Holder'
  BY PackAssumption, <1>0, <1>36 DEF WipeSealed, WipeRemove, SetDir, TypeOK, Holder, Idle, Chain
<1>37. ASSUME NEW ok \in BOOLEAN, WipeEnds(ok) PROVE Holder'
  BY PackAssumption, <1>0, <1>37 DEF WipeEnds, DirSync, Release, TypeOK, Holder, Idle, Chain
<1>38. CASE Close
  BY PackAssumption, <1>0, <1>38
     DEF Close, Down, Release, FileSync, FileSyncFails, TypeOK, Holder, Idle, Chain
<1>39. CASE Kill
  BY PackAssumption, <1>0, <1>39 DEF Kill, Down, Release, TypeOK, Holder, Idle, Chain
<1>40. CASE PowerLoss
  BY PackAssumption, <1>0, <1>40 DEF PowerLoss, Down, Release, TypeOK, Holder, Idle, Chain
<1>41. CASE Open
  BY PackAssumption, <1>0, <1>41 DEF Open, MayOpen, recoverActive, TypeOK, Holder, Idle, Chain
<1>42. CASE OpenRenames
  BY PackAssumption, <1>0, <1>42 DEF OpenRenames, MayOpen, SetDir, TypeOK, Holder, Idle, Chain
<1>43. CASE UNCHANGED vars
  BY PackAssumption, <1>0, <1>43 DEF vars, TypeOK, Holder, Idle, Chain
<1> QED
  BY <1>1, <1>2, <1>3, <1>4, <1>5, <1>6, <1>7, <1>8, <1>9, <1>10, <1>11, <1>12, <1>13, <1>14,
     <1>15, <1>16, <1>17, <1>18, <1>19, <1>20, <1>21, <1>22, <1>23, <1>24, <1>25, <1>26, <1>27,
     <1>28, <1>29, <1>30, <1>31, <1>32, <1>33, <1>34, <1>35, <1>36, <1>37, <1>38, <1>39, <1>40,
     <1>41, <1>42, <1>43
     DEF Next, Section, WriteStep, CompactStep, WipeStep, Environment

\* A store that is down runs nothing, and only a healthy write path gets past the first
\* check of appendLocked.
LEMMA IdleStep == IndInv /\ [Next]_vars => Idle'
<1> SUFFICES ASSUME IndInv, [Next]_vars PROVE Idle'
  OBVIOUS
<1> USE DEF diskVars, procVars, muVars, writerVars, compactVars, wipeVars, histVars
<1>0. TypeOK /\ Holder /\ Idle
  BY DEF IndInv
<1>1. CASE Refuse
  BY PackAssumption, <1>0, <1>1
     DEF Refuse, Return, WriterGets, CompactGets, Release, SetWriter, TypeOK, Holder, Idle,
         Chain
<1>2. CASE CreateFile
  BY PackAssumption, <1>0, <1>2 DEF CreateFile, SetDir, TypeOK, Holder, Idle, Chain
<1>3. CASE CreateFails
  BY PackAssumption, <1>0, <1>3
     DEF CreateFails, Return, WriterGets, CompactGets, Release, SetWriter, TypeOK, Holder,
         Idle, Chain
<1>4. CASE PublishActive
  BY PackAssumption, <1>0, <1>4 DEF PublishActive, DirSync, TypeOK, Holder, Idle, Chain
<1>5. CASE HeaderFails
  BY PackAssumption, <1>0, <1>5
     DEF HeaderFails, SetDir, Return, WriterGets, CompactGets, Release, SetWriter, TypeOK,
         Holder, Idle, Chain
<1>6. CASE AlreadyActive
  BY PackAssumption, <1>0, <1>6
     DEF AlreadyActive, Return, WriterGets, CompactGets, Release, SetWriter, TypeOK, Holder,
         Idle, Chain
<1>7. CASE WriteRecord
  BY PackAssumption, <1>0, <1>7 DEF WriteRecord, TypeOK, Holder, Idle, Chain
<1>8. CASE WriteRecordFails
  BY PackAssumption, <1>0, <1>8
     DEF WriteRecordFails, Return, WriterGets, CompactGets, Release, SetWriter, TypeOK,
         Holder, Idle, Chain
<1>9. CASE PutSync
  BY PackAssumption, <1>0, <1>9 DEF PutSync, FileSync, TypeOK, Holder, Idle, Chain
<1>10. CASE NoRotation
  BY PackAssumption, <1>0, <1>10
     DEF NoRotation, Return, WriterGets, CompactGets, Release, SetWriter, TypeOK, Holder,
         Idle, Chain
<1>11. CASE Rotate
  BY PackAssumption, <1>0, <1>11 DEF Rotate, TypeOK, Holder, Idle, Chain
<1>12. CASE SyncActive
  BY PackAssumption, <1>0, <1>12
     DEF SyncActive, FileSync, Return, WriterGets, CompactGets, Release, SetWriter, TypeOK,
         Holder, Idle, Chain
<1>13. CASE SyncFails
  BY PackAssumption, <1>0, <1>13
     DEF SyncFails, FileSyncFails, Poison, Return, WriterGets, CompactGets, Release,
         SetWriter, TypeOK, Holder, Idle, Chain
<1>14. CASE WriteFooter
  BY PackAssumption, <1>0, <1>14 DEF WriteFooter, TypeOK, Holder, Idle, Chain
<1>15. CASE WriteFooterFails
  BY PackAssumption, <1>0, <1>15
     DEF WriteFooterFails, Poison, Return, WriterGets, CompactGets, Release, SetWriter,
         TypeOK, Holder, Idle, Chain
<1>16. CASE FooterSync
  BY PackAssumption, <1>0, <1>16 DEF FooterSync, FileSync, TypeOK, Holder, Idle, Chain
<1>17. CASE Rename
  BY PackAssumption, <1>0, <1>17 DEF Rename, SetDir, TypeOK, Holder, Idle, Chain
<1>18. CASE Swap
  BY PackAssumption, <1>0, <1>18
     DEF Swap, DirSync, Poison, Return, WriterGets, CompactGets, Release, SetWriter, TypeOK,
         Holder, Idle, Chain
<1>19. CASE SealFails
  BY PackAssumption, <1>0, <1>19
     DEF SealFails, Poison, Return, WriterGets, CompactGets, Release, SetWriter, TypeOK,
         Holder, Idle, Chain
<1>20. ASSUME NEW w \in Writer, NEW k \in Key, BatchNext(w, k) PROVE Idle'
  BY PackAssumption, <1>0, <1>20 DEF BatchNext, SetWriter, TypeOK, Holder, Idle, Chain
<1>21. ASSUME NEW w \in Writer, NEW k \in Key, Put(w, k) PROVE Idle'
  BY PackAssumption, <1>0, <1>21 DEF Put, MayWrite, SetWriter, TypeOK, Holder, Idle, Chain
<1>22. ASSUME NEW w \in Writer, BatchStart(w) PROVE Idle'
  BY PackAssumption, <1>0, <1>22
     DEF BatchStart, MayWrite, SetWriter, TypeOK, Holder, Idle, Chain
<1>23. ASSUME NEW w \in Writer, BatchFails(w) PROVE Idle'
  BY PackAssumption, <1>0, <1>23 DEF BatchFails, SetWriter, TypeOK, Holder, Idle, Chain
<1>24. ASSUME NEW w \in Writer, LockAppend(w) PROVE Idle'
  BY PackAssumption, <1>0, <1>24 DEF LockAppend, Enter, TypeOK, Holder, Idle, Chain
<1>25. ASSUME NEW w \in Writer, LockSync(w) PROVE Idle'
  BY PackAssumption, <1>0, <1>25 DEF LockSync, Enter, TypeOK, Holder, Idle, Chain
<1>26. ASSUME NEW L \in SUBSET Key, Compact(L) PROVE Idle'
  BY PackAssumption, <1>0, <1>26 DEF Compact, TypeOK, Holder, Idle, Chain
<1>27. CASE selectVictims
  BY PackAssumption, <1>0, <1>27
     DEF selectVictims, CompactReturns, Release, TypeOK, Holder, Idle, Chain
<1>28. CASE CopyFails
  BY PackAssumption, <1>0, <1>28
     DEF CopyFails, CompactReturns, Release, TypeOK, Holder, Idle, Chain
<1>29. CASE CopySync
  BY PackAssumption, <1>0, <1>29 DEF CopySync, TypeOK, Holder, Idle, Chain
<1>30. CASE Detach
  BY PackAssumption, <1>0, <1>30 DEF Detach, TypeOK, Holder, Idle, Chain
<1>31. CASE CompactEnds
  BY PackAssumption, <1>0, <1>31
     DEF CompactEnds, CompactReturns, Release, DirSync, TypeOK, Holder, Idle, Chain
<1>32. ASSUME NEW k \in Key, copyLive(k) PROVE Idle'
  BY PackAssumption, <1>0, <1>32 DEF copyLive, TypeOK, Holder, Idle, Chain
<1>33. ASSUME NEW f \in File, Unlink(f) PROVE Idle'
  BY PackAssumption, <1>0, <1>33 DEF Unlink, SetDir, TypeOK, Holder, Idle, Chain
<1>34. CASE Wipe
  BY PackAssumption, <1>0, <1>34 DEF Wipe, TypeOK, Holder, Idle, Chain
<1>35. CASE WipeActive
  BY PackAssumption, <1>0, <1>35 DEF WipeActive, WipeRemove, SetDir, TypeOK, Holder, Idle, Chain
<1>36. ASSUME NEW f \in File, WipeSealed(f) PROVE Idle'
  BY PackAssumption, <1>0, <1>36 DEF WipeSealed, WipeRemove, SetDir, TypeOK, Holder, Idle, Chain
<1>37. ASSUME NEW ok \in BOOLEAN, WipeEnds(ok) PROVE Idle'
  BY PackAssumption, <1>0, <1>37 DEF WipeEnds, DirSync, Release, TypeOK, Holder, Idle, Chain
<1>38. CASE Close
  BY PackAssumption, <1>0, <1>38
     DEF Close, Down, Release, FileSync, FileSyncFails, TypeOK, Holder, Idle, Chain
<1>39. CASE Kill
  BY PackAssumption, <1>0, <1>39 DEF Kill, Down, Release, TypeOK, Holder, Idle, Chain
<1>40. CASE PowerLoss
  BY PackAssumption, <1>0, <1>40 DEF PowerLoss, Down, Release, TypeOK, Holder, Idle, Chain
<1>41. CASE Open
  BY PackAssumption, <1>0, <1>41 DEF Open, MayOpen, recoverActive, TypeOK, Holder, Idle, Chain
<1>42. CASE OpenRenames
  BY PackAssumption, <1>0, <1>42 DEF OpenRenames, MayOpen, SetDir, TypeOK, Holder, Idle, Chain
<1>43. CASE UNCHANGED vars
  BY PackAssumption, <1>0, <1>43 DEF vars, TypeOK, Holder, Idle, Chain
<1> QED
  BY <1>1, <1>2, <1>3, <1>4, <1>5, <1>6, <1>7, <1>8, <1>9, <1>10, <1>11, <1>12, <1>13, <1>14,
     <1>15, <1>16, <1>17, <1>18, <1>19, <1>20, <1>21, <1>22, <1>23, <1>24, <1>25, <1>26, <1>27,
     <1>28, <1>29, <1>30, <1>31, <1>32, <1>33, <1>34, <1>35, <1>36, <1>37, <1>38, <1>39, <1>40,
     <1>41, <1>42, <1>43
     DEF Next, Section, WriteStep, CompactStep, WipeStep, Environment

\* Every action keeps every type.
LEMMA TypeStep == IndInv /\ [Next]_vars => TypeOK'
<1> SUFFICES ASSUME IndInv, [Next]_vars PROVE TypeOK'
  OBVIOUS
<1> USE DEF diskVars, procVars, muVars, writerVars, compactVars, wipeVars, histVars
<1>0. TypeOK /\ Holder /\ Idle
  BY DEF IndInv
<1>1. CASE Refuse
  BY PackAssumption, <1>0, <1>1, ReturnType DEF Refuse, TypeOK
<1>2. CASE CreateFile
  <2>1. /\ dir' \in [File -> Name] /\ dir' \in dirStates' /\ dirStates' \subseteq [File -> Name]
    BY <1>0, <1>2, SetDirType DEF CreateFile, Name
  <2>2. body' \in [File -> Seq(Key)] /\ synced' \in [File -> SUBSET Key]
    BY <1>0, <1>2 DEF CreateFile, TypeOK
  <2>3. /\ dropped' \in [File -> SUBSET Key] /\ junk' \in [File -> BOOLEAN]
        /\ foot' \in [File -> {"none", "cached", "dropped", "durable"}]
    BY <1>0, <1>2 DEF CreateFile, TypeOK
  <2>4. nextID' \in Nat \ {0}
    BY <1>0, <1>2 DEF CreateFile, TypeOK
  <2> QED
    BY <1>0, <1>2, <2>1, <2>2, <2>3, <2>4 DEF CreateFile, TypeOK, Name
<1>3. CASE CreateFails
  <2>1. nextID' \in Nat \ {0}
    BY PackAssumption, <1>0, <1>3 DEF CreateFails, TypeOK
  <2> QED
    BY <1>0, <1>3, <2>1, ReturnType DEF CreateFails, TypeOK
<1>4. CASE PublishActive
  <2>1. nextID - 1 \in File
    BY <1>4 DEF PublishActive, IndInv, ActiveFile
  <2> QED
    BY PackAssumption, <1>0, <1>4, <2>1 DEF PublishActive, DirSync, TypeOK
<1>5. CASE HeaderFails
  <2>1. nextID - 1 \in File
    BY <1>5 DEF HeaderFails, IndInv, ActiveFile
  <2> QED
    BY PackAssumption, <1>0, <1>5, <2>1, SetDirType, ReturnType
       DEF HeaderFails, TypeOK, Name, Chain
<1>6. CASE AlreadyActive
  BY PackAssumption, <1>0, <1>6, ReturnType DEF AlreadyActive, TypeOK
<1>7. CASE WriteRecord
  <2>1. active \in File /\ mkey \in Key /\ body[active] \in Seq(Key)
    BY <1>0, <1>7, AppendsKey DEF WriteRecord, TypeOK
  <2>2. body' \in [File -> Seq(Key)]
    BY <1>0, <1>7, <2>1 DEF WriteRecord, TypeOK
  <2> QED
    BY <1>0, <1>7, <2>2 DEF WriteRecord, TypeOK
<1>8. CASE WriteRecordFails
  BY PackAssumption, <1>0, <1>8, ReturnType DEF WriteRecordFails, TypeOK
<1>9. CASE PutSync
  BY PackAssumption, <1>0, <1>9, FileSyncType DEF PutSync, TypeOK, Name, Holder, Idle, Chain
<1>10. CASE NoRotation
  BY PackAssumption, <1>0, <1>10, ReturnType DEF NoRotation, TypeOK
<1>11. CASE Rotate
  BY PackAssumption, <1>0, <1>11 DEF Rotate, TypeOK, Holder, Idle, Chain
<1>12. CASE SyncActive
  BY PackAssumption, <1>0, <1>12, FileSyncType, ReturnType
     DEF SyncActive, TypeOK, Name, Holder, Idle, Chain
<1>13. CASE SyncFails
  BY PackAssumption, <1>0, <1>13, FileSyncFailsType, ReturnType
     DEF SyncFails, Poison, TypeOK, Name, Holder, Idle, Chain
<1>14. CASE WriteFooter
  BY PackAssumption, <1>0, <1>14 DEF WriteFooter, TypeOK, Holder, Idle, Chain
<1>15. CASE WriteFooterFails
  <2>1. junk' \in [File -> BOOLEAN] /\ failed' \in BOOLEAN
    BY <1>0, <1>15, Zenon DEF WriteFooterFails, Poison, TypeOK
  <2> QED
    BY <1>0, <1>15, <2>1, ReturnType DEF WriteFooterFails, Poison, TypeOK
<1>16. CASE FooterSync
  BY PackAssumption, <1>0, <1>16, FileSyncType DEF FooterSync, TypeOK, Name, Holder, Idle, Chain
<1>17. CASE Rename
  BY PackAssumption, <1>0, <1>17, SetDirType DEF Rename, TypeOK, Name, Holder, Idle, Chain
<1>18. CASE Swap
  <2>1. \E ok \in BOOLEAN : Return(ok)
    BY <1>18 DEF Swap, Poison
  <2>2. failed' \in BOOLEAN
    BY <1>0, <1>18, Zenon DEF Swap, Poison, TypeOK
  <2>3. active \in File
    BY <1>0, <1>18 DEF Swap, TypeOK, Idle, Chain
  <2> QED
    BY <1>0, <1>18, <2>1, <2>2, <2>3, ReturnType DEF Swap, DirSync, TypeOK
<1>19. CASE SealFails
  BY PackAssumption, <1>0, <1>19, ReturnType DEF SealFails, Poison, TypeOK
<1>20. ASSUME NEW w \in Writer, NEW k \in Key, BatchNext(w, k) PROVE TypeOK'
  <2>1. /\ wpc' = [wpc EXCEPT ![w] = "next"] \/ wpc' = [wpc EXCEPT ![w] = "append"]
        /\ wkey' = [wkey EXCEPT ![w] = NoKey] \/ wkey' = [wkey EXCEPT ![w] = k]
        /\ wdone' = [wdone EXCEPT ![w] = wdone[w] \cup {k}] \/ wdone' = [wdone EXCEPT ![w] = wdone[w]]
        /\ wapp' = [wapp EXCEPT ![w] = wapp[w]]
    BY <1>20, Zenon DEF BatchNext, SetWriter
  <2>2. /\ wpc \in [Writer -> {"idle", "next", "append", "put", "sync", "failsync"}]
        /\ wkey \in [Writer -> Key \cup {NoKey}] /\ wdone \in [Writer -> SUBSET Key]
        /\ wapp \in [Writer -> BOOLEAN]
    BY <1>0 DEF TypeOK
  <2>3. wpc' \in [Writer -> {"idle", "next", "append", "put", "sync", "failsync"}]
    BY <2>1, <2>2
  <2>4. wkey' \in [Writer -> Key \cup {NoKey}]
    BY <2>1, <2>2
  <2>5. wdone' \in [Writer -> SUBSET Key]
    BY <2>1, <2>2
  <2>6. wapp' \in [Writer -> BOOLEAN]
    BY <2>1, <2>2
  <2> QED
    BY <1>0, <1>20, <2>3, <2>4, <2>5, <2>6 DEF BatchNext, TypeOK
<1>21. ASSUME NEW w \in Writer, NEW k \in Key, Put(w, k) PROVE TypeOK'
  BY PackAssumption, <1>0, <1>21 DEF Put, MayWrite, SetWriter, TypeOK, Holder, Idle, Chain
<1>22. ASSUME NEW w \in Writer, BatchStart(w) PROVE TypeOK'
  BY PackAssumption, <1>0, <1>22
     DEF BatchStart, MayWrite, SetWriter, TypeOK, Holder, Idle, Chain
<1>23. ASSUME NEW w \in Writer, BatchFails(w) PROVE TypeOK'
  BY PackAssumption, <1>0, <1>23 DEF BatchFails, SetWriter, TypeOK, Holder, Idle, Chain
<1>24. ASSUME NEW w \in Writer, LockAppend(w) PROVE TypeOK'
  BY PackAssumption, <1>0, <1>24 DEF LockAppend, Enter, TypeOK, Holder, Idle, Chain
<1>25. ASSUME NEW w \in Writer, LockSync(w) PROVE TypeOK'
  BY PackAssumption, <1>0, <1>25 DEF LockSync, Enter, TypeOK, Holder, Idle, Chain
<1>26. ASSUME NEW L \in SUBSET Key, Compact(L) PROVE TypeOK'
  BY PackAssumption, <1>0, <1>26 DEF Compact, TypeOK, Holder, Idle, Chain
<1>27. CASE selectVictims
  <2>1. PICK V \in SUBSET sealed :
          \/ CompactReturns
          \/ /\ cpc' = "copy" /\ victims' = V
             /\ pending' = (UNION {Keys(f) : f \in V}) \cap live
             /\ UNCHANGED <<live, muVars>>
    BY <1>27 DEF selectVictims
  <2>2. (UNION {Keys(f) : f \in V}) \cap live \subseteq Key
    BY <1>0, Zenon DEF TypeOK
  <2>3. CASE CompactReturns
    BY PackAssumption, <1>0, <1>27, <2>3 DEF selectVictims, CompactReturns, Release, TypeOK
  <2>4. CASE ~CompactReturns
    BY <1>0, <1>27, <2>1, <2>2, <2>4 DEF selectVictims, TypeOK
  <2> QED
    BY <2>3, <2>4
<1>28. CASE CopyFails
  BY PackAssumption, <1>0, <1>28
     DEF CopyFails, CompactReturns, Release, TypeOK, Holder, Idle, Chain
<1>29. CASE CopySync
  BY PackAssumption, <1>0, <1>29 DEF CopySync, TypeOK, Holder, Idle, Chain
<1>30. CASE Detach
  BY PackAssumption, <1>0, <1>30 DEF Detach, TypeOK, Holder, Idle, Chain
<1>31. CASE CompactEnds
  BY PackAssumption, <1>0, <1>31
     DEF CompactEnds, CompactReturns, Release, DirSync, TypeOK, Holder, Idle, Chain
<1>32. ASSUME NEW k \in Key, copyLive(k) PROVE TypeOK'
  BY PackAssumption, <1>0, <1>32 DEF copyLive, TypeOK, Holder, Idle, Chain
<1>33. ASSUME NEW f \in File, Unlink(f) PROVE TypeOK'
  BY PackAssumption, <1>0, <1>33, SetDirType DEF Unlink, TypeOK, Name, Holder, Idle, Chain
<1>34. CASE Wipe
  BY PackAssumption, <1>0, <1>34 DEF Wipe, TypeOK, Holder, Idle, Chain
<1>35. CASE WipeActive
  <2>1. /\ dir' \in [File -> Name] /\ dir' \in dirStates' /\ dirStates' \subseteq [File -> Name]
        /\ werr' \in BOOLEAN
    BY <1>0, <1>35, SetDirType DEF WipeActive, WipeRemove, TypeOK, Name
  <2> QED
    BY <1>0, <1>35, <2>1 DEF WipeActive, TypeOK, Name
<1>36. ASSUME NEW f \in File, WipeSealed(f) PROVE TypeOK'
  <2>1. /\ dir' \in [File -> Name] /\ dir' \in dirStates' /\ dirStates' \subseteq [File -> Name]
        /\ werr' \in BOOLEAN
    BY <1>0, <1>36, SetDirType DEF WipeSealed, WipeRemove, TypeOK, Name
  <2> QED
    BY <1>0, <1>36, <2>1 DEF WipeSealed, TypeOK, Name
<1>37. ASSUME NEW ok \in BOOLEAN, WipeEnds(ok) PROVE TypeOK'
  BY PackAssumption, <1>0, <1>37 DEF WipeEnds, DirSync, Release, TypeOK, Holder, Idle, Chain
<1>38. CASE Close
  <2>1. /\ synced' \in [File -> SUBSET Key] /\ dropped' \in [File -> SUBSET Key]
        /\ foot' \in [File -> {"none", "cached", "dropped", "durable"}]
    BY <1>0, <1>38, FileSyncType, FileSyncFailsType DEF Close, TypeOK
  <2> QED
    BY PackAssumption, <1>0, <1>38, <2>1 DEF Close, Down, Release, TypeOK
<1>39. CASE Kill
  BY PackAssumption, <1>0, <1>39 DEF Kill, Down, Release, TypeOK, Holder, Idle, Chain
<1>40. CASE PowerLoss
  <2>1. Down /\ UNCHANGED <<nextID, acked>>
    BY <1>40 DEF PowerLoss
  <2>2. /\ dir' \in [File -> {"none", "active", "sealed"}]
        /\ dir' \in dirStates' /\ dirStates' \subseteq [File -> {"none", "active", "sealed"}]
        /\ dropped' \in [File -> SUBSET Key]
        /\ foot' \in [File -> {"none", "cached", "dropped", "durable"}]
    BY <1>0, <1>40, PowerLossEffect DEF TypeOK
  <2>3. body' \in [File -> Seq(Key)] /\ junk' \in [File -> BOOLEAN]
    BY <1>0, <1>40, PowerLossEffect
  <2>4. synced' \in [File -> SUBSET Key]
    <3>1. \A q \in Seq(Key) : ToSet(q) \subseteq Key
      BY DEF ToSet
    <3>2. synced' = [f \in File |-> ToSet(body'[f])]
      BY <1>0, <1>40, PowerLossEffect
    <3> QED
      BY <2>3, <3>1, <3>2
  <2> QED
    BY PackAssumption, <1>0, <2>1, <2>2, <2>3, <2>4 DEF Down, Release, TypeOK
<1>41. CASE Open
  <2>1. CASE LoadFails
    BY <1>0, <1>41, <2>1 DEF Open, TypeOK
  <2>2. CASE ~LoadFails
    <3>1. up' = "up" /\ recoverActive
      BY <1>41, <2>2 DEF Open
    <3>2. active' \in File \cup {0}
      BY <3>1 DEF recoverActive, Existing
    <3>3. junk' \in [File -> BOOLEAN]
      BY <3>1, Zenon DEF recoverActive
    <3>4. dir' \in [File -> {"none", "active", "sealed"}]
      BY <1>0, <3>1 DEF recoverActive, TypeOK
    <3>5. foot' \in [File -> {"none", "cached", "dropped", "durable"}]
      BY <1>0, <3>1 DEF recoverActive, TypeOK
    <3>6. dir' \in dirStates' /\ dirStates' \subseteq [File -> {"none", "active", "sealed"}]
      <4>1. Unrenamed = {} => dir' = dir
        BY <1>0, <3>1 DEF recoverActive, TypeOK
      <4> QED
        BY <1>0, <3>1, <3>4, <4>1 DEF recoverActive, TypeOK
    <3>7. sealed' \subseteq File
      BY <3>1 DEF recoverActive, Existing, Unrenamed
    <3> QED
      BY <1>0, <1>41, <3>1, <3>2, <3>3, <3>4, <3>5, <3>6, <3>7 DEF Open, TypeOK
  <2> QED
    BY <2>1, <2>2
<1>42. CASE OpenRenames
  BY PackAssumption, <1>0, <1>42, SetDirType
     DEF OpenRenames, MayOpen, Unrenamed, Existing, TypeOK, Name, Holder, Idle, Chain
<1>43. CASE UNCHANGED vars
  BY PackAssumption, <1>0, <1>43 DEF vars, TypeOK, Holder, Idle, Chain
<1> QED
  BY <1>1, <1>2, <1>3, <1>4, <1>5, <1>6, <1>7, <1>8, <1>9, <1>10, <1>11, <1>12, <1>13, <1>14,
     <1>15, <1>16, <1>17, <1>18, <1>19, <1>20, <1>21, <1>22, <1>23, <1>24, <1>25, <1>26, <1>27,
     <1>28, <1>29, <1>30, <1>31, <1>32, <1>33, <1>34, <1>35, <1>36, <1>37, <1>38, <1>39, <1>40,
     <1>41, <1>42, <1>43
     DEF Next, Section, WriteStep, CompactStep, WipeStep, Environment

\* No order of creations, renames, removals, failed calls and crashes leaves two active
\* files or a sealed one without its footer in any directory a power loss may uncover.
LEMMA DirectoriesStep == ~ReopenDirty /\ IndInv /\ [Next]_vars => Directories'
<1> SUFFICES ASSUME ~ReopenDirty, IndInv, [Next]_vars PROVE Directories'
  OBVIOUS
<1> USE DEF diskVars, procVars, muVars, writerVars, compactVars, wipeVars, histVars
<1>0. TypeOK /\ Holder /\ Idle /\ Directories /\ Pages /\ ActiveFile /\ SealedNamed /\ SealedDurable
     /\ Attached /\ Victims
  BY DEF IndInv
<1>1. CASE CreateFile
  <2>1. /\ dir' = [dir EXCEPT ![nextID] = "active"] /\ dirStates' = dirStates \cup {dir'}
        /\ nextID \in File /\ nextID' = nextID + 1
        /\ foot' = [foot EXCEPT ![nextID] = "none"] /\ junk' = [junk EXCEPT ![nextID] = FALSE]
    BY <1>1 DEF CreateFile, SetDir
  <2>2. GoodDirectory(dir) /\ \A g \in File : dir[g] # "active"
    BY PackAssumption, <1>0, <1>1 DEF CreateFile, TypeOK, Idle, Attached, Directories
  <2>3. \A g \in File : /\ dir'[g] = IF g = nextID THEN "active" ELSE dir[g]
                        /\ g # nextID => foot'[g] = foot[g] /\ junk'[g] = junk[g]
                        /\ g >= nextID' => g >= nextID /\ g # nextID
    <3>1. \A g \in File : g >= nextID' => g >= nextID /\ g # nextID
      BY PackAssumption, <1>0, <2>1 DEF TypeOK
    <3> QED
      BY <1>0, <2>1, <3>1 DEF TypeOK
  <2>4. ASSUME NEW d \in dirStates PROVE GoodDirectory(d)'
    <3>1. GoodDirectory(d) /\ d[nextID] = "none"
      BY <1>0, <2>1 DEF TypeOK, Directories, GoodDirectory
    <3>2. \A g \in File : d[g] = "sealed" => g # nextID
      BY <3>1
    <3>3. ASSUME NEW g \in File, d[g] = "sealed"
          PROVE  foot'[g] = "durable" /\ ~junk'[g] /\ dir'[g] # "active"
      BY <2>2, <2>3, <3>1, <3>2, <3>3 DEF GoodDirectory
    <3>4. ASSUME NEW g \in File, g >= nextID' PROVE d[g] = "none"
      BY <2>3, <3>1, <3>4 DEF GoodDirectory
    <3> QED
      BY <3>1, <3>3, <3>4 DEF GoodDirectory
  <2>5. ASSUME NEW g \in File, dir'[g] = "active" PROVE g = nextID
    BY <2>2, <2>3, <2>5
  <2>6. ASSUME NEW g \in File
        PROVE  /\ dir'[g] = "sealed" => foot'[g] = "durable" /\ ~junk'[g]
               /\ g >= nextID' => dir'[g] = "none"
    <3>1. /\ dir[g] = "sealed" => foot[g] = "durable" /\ ~junk[g]
          /\ g >= nextID => dir[g] = "none"
      BY <2>2 DEF GoodDirectory
    <3> QED
      BY <2>3, <3>1
  <2> QED
    BY <1>0, <2>1, <2>4, <2>5, <2>6, NewDirectory
<1>2. CASE CreateFails
  BY PackAssumption, <1>0, <1>2
     DEF CreateFails, TypeOK, Idle, Chain, Directories, GoodDirectory, ActiveFile
<1>3. CASE PublishActive
  BY PackAssumption, <1>0, <1>3
     DEF PublishActive, DirSync, TypeOK, Idle, Chain, Directories, GoodDirectory, ActiveFile
<1>4. CASE HeaderFails
  BY <1>0, <1>4, RemoveKeeps DEF HeaderFails, ActiveFile
<1>5. CASE WriteRecordFails
  BY PackAssumption, <1>0, <1>5
     DEF WriteRecordFails, TypeOK, Idle, Chain, Directories, GoodDirectory, ActiveFile
<1>6. CASE PutSync
  BY PackAssumption, <1>0, <1>6
     DEF PutSync, FileSync, TypeOK, Idle, Chain, Directories, GoodDirectory, ActiveFile
<1>7. CASE SyncActive
  BY PackAssumption, <1>0, <1>7
     DEF SyncActive, FileSync, TypeOK, Idle, Chain, Directories, GoodDirectory, ActiveFile
<1>8. CASE SyncFails
  BY PackAssumption, <1>0, <1>8
     DEF SyncFails, FileSyncFails, Poison, TypeOK, Idle, Chain, Directories, GoodDirectory,
         ActiveFile
<1>9. CASE WriteFooter
  BY PackAssumption, <1>0, <1>9
     DEF WriteFooter, TypeOK, Idle, Chain, Directories, GoodDirectory, ActiveFile
<1>10. CASE WriteFooterFails
  BY PackAssumption, <1>0, <1>10
     DEF WriteFooterFails, Poison, TypeOK, Idle, Chain, Directories, GoodDirectory, ActiveFile
<1>11. CASE FooterSync
  BY PackAssumption, <1>0, <1>11
     DEF FooterSync, FileSync, TypeOK, Idle, Chain, Directories, GoodDirectory, ActiveFile
<1>12. CASE Rename
  <2>1. /\ dir' = [dir EXCEPT ![active] = "sealed"] /\ dirStates' = dirStates \cup {dir'}
        /\ UNCHANGED <<foot, junk, nextID>>
    BY <1>12 DEF Rename, SetDir
  <2>2. /\ active \in File /\ dir[active] = "active"
        /\ foot[active] = "durable" /\ ~junk[active]
    BY <1>0, <1>12 DEF Rename, TypeOK, Idle, Chain, ActiveFile
  <2>3. GoodDirectory(dir) /\ \A g \in File : dir'[g] = IF g = active THEN "sealed" ELSE dir[g]
    BY <1>0, <2>1, <2>2 DEF TypeOK, Directories
  <2>4. \A g \in File : dir'[g] # "active"
    BY <2>2, <2>3 DEF GoodDirectory
  <2>5. \A g \in File : /\ dir'[g] = "sealed" => foot'[g] = "durable" /\ ~junk'[g]
                        /\ g >= nextID' => dir'[g] = "none"
    BY <2>1, <2>2, <2>3 DEF GoodDirectory
  <2>6. \A d \in dirStates : GoodDirectory(d)'
    BY <1>0, <2>1, <2>4 DEF Directories, GoodDirectory
  <2> QED
    BY <1>0, <2>1, <2>4, <2>5, <2>6, NewDirectory
<1>13. CASE Swap
  BY PackAssumption, <1>0, <1>13
     DEF Swap, DirSync, Poison, TypeOK, Idle, Chain, Directories, GoodDirectory, ActiveFile
<1>14. CASE CompactEnds
  BY PackAssumption, <1>0, <1>14
     DEF CompactEnds, CompactReturns, Release, DirSync, TypeOK, Idle, Chain, Directories,
         GoodDirectory, ActiveFile
<1>15. ASSUME NEW f \in File, Unlink(f) PROVE Directories'
  <2>1. CASE SetDir(f, "none")
    BY PackAssumption, <1>0, <1>15, <2>1, RemoveKeeps DEF Unlink, TypeOK
  <2>2. CASE UNCHANGED <<dir, dirStates>>
    BY <1>0, <1>15, <2>2 DEF Unlink, Directories, GoodDirectory
  <2> QED
    BY <1>15, <2>1, <2>2 DEF Unlink
<1>16. CASE WipeActive
  <2>1. CASE SetDir(wactive, "none")
    BY PackAssumption, <1>0, <1>16, <2>1, RemoveKeeps DEF WipeActive, TypeOK
  <2>2. CASE UNCHANGED <<dir, dirStates>>
    BY <1>0, <1>16, <2>2 DEF WipeActive, Directories, GoodDirectory
  <2> QED
    BY <1>16, <2>1, <2>2 DEF WipeActive, WipeRemove
<1>17. ASSUME NEW f \in File, WipeSealed(f) PROVE Directories'
  <2>1. CASE SetDir(f, "none")
    BY PackAssumption, <1>0, <1>17, <2>1, RemoveKeeps DEF WipeSealed, TypeOK
  <2>2. CASE UNCHANGED <<dir, dirStates>>
    BY <1>0, <1>17, <2>2 DEF WipeSealed, Directories, GoodDirectory
  <2> QED
    BY <1>17, <2>1, <2>2 DEF WipeSealed, WipeRemove
<1>18. ASSUME NEW ok \in BOOLEAN, WipeEnds(ok) PROVE Directories'
  BY PackAssumption, <1>0, <1>18
     DEF WipeEnds, DirSync, Release, TypeOK, Idle, Chain, Directories, GoodDirectory,
         ActiveFile
<1>19. CASE Close
  BY PackAssumption, <1>0, <1>19
     DEF Close, Down, Release, FileSync, FileSyncFails, TypeOK, Idle, Chain, Directories,
         GoodDirectory, ActiveFile
<1>20. CASE PowerLoss
  BY PackAssumption, <1>0, <1>20
     DEF PowerLoss, Down, Release, TypeOK, Idle, Chain, Directories, GoodDirectory, ActiveFile
<1>21. CASE Open
  BY PackAssumption, <1>0, <1>21
     DEF Open, MayOpen, recoverActive, LoadFails, CacheClean, Existing, Unrenamed,
         FooterValid, TypeOK, Idle, Chain, Directories, GoodDirectory, ActiveFile
<1>22. CASE OpenRenames
  <2>1. PICK f \in Unrenamed : dir' = [dir EXCEPT ![f] = "sealed"] /\ dirStates' = dirStates \cup {dir'}
    BY <1>22 DEF OpenRenames, SetDir
  <2>2. f \in File /\ dir[f] = "active" /\ foot[f] = "durable" /\ ~junk[f]
    BY <1>22, <2>1 DEF OpenRenames, MayOpen, CacheClean, Unrenamed, FooterValid, Existing
  <2>3. GoodDirectory(dir) /\ \A g \in File : dir'[g] = IF g = f THEN "sealed" ELSE dir[g]
    BY <1>0, <2>1, <2>2 DEF TypeOK, Directories
  <2>4. \A g \in File : dir'[g] # "active"
    BY <2>2, <2>3 DEF GoodDirectory
  <2>5. UNCHANGED <<foot, junk, nextID>>
    BY <1>22 DEF OpenRenames
  <2>6. \A g \in File : /\ dir'[g] = "sealed" => foot'[g] = "durable" /\ ~junk'[g]
                        /\ g >= nextID' => dir'[g] = "none"
    BY <2>2, <2>3, <2>5 DEF GoodDirectory
  <2>7. \A d \in dirStates : GoodDirectory(d)'
    BY <1>0, <2>4, <2>5 DEF Directories, GoodDirectory
  <2> QED
    BY <1>0, <2>1, <2>4, <2>6, <2>7, NewDirectory
<1>23. CASE Refuse \/ AlreadyActive \/ WriteRecord \/ NoRotation \/ Rotate \/ SealFails
  <2>1. UNCHANGED <<dir, dirStates, foot, junk, nextID>>
    BY <1>23
       DEF Refuse, Return, WriterGets, CompactGets, Release, SetWriter, AlreadyActive,
           WriteRecord, NoRotation, Rotate, SealFails, Poison
  <2> QED
    BY PackAssumption, <1>0, <2>1
       DEF TypeOK, Idle, Chain, Directories, GoodDirectory, ActiveFile
<1>24. CASE (\E w \in Writer, k \in Key : BatchNext(w, k)) \/ (\E w \in Writer, k \in Key :
          Put(w, k)) \/ (\E w \in Writer : BatchStart(w)) \/ (\E w \in Writer : BatchFails(w))
          \/ (\E w \in Writer : LockAppend(w)) \/ (\E w \in Writer : LockSync(w)) \/ (\E L \in
          SUBSET Key : Compact(L)) \/ selectVictims \/ CopyFails \/ CopySync \/ Detach \/ (\E
          k \in Key : copyLive(k)) \/ Wipe \/ Kill
  <2>1. UNCHANGED <<dir, dirStates, foot, junk, nextID>>
    BY <1>24
       DEF BatchNext, SetWriter, Put, MayWrite, BatchStart, BatchFails, LockAppend, Enter,
           LockSync, Compact, selectVictims, CompactReturns, Release, CopyFails, CopySync,
           Detach, copyLive, Wipe, Kill, Down
  <2> QED
    BY PackAssumption, <1>0, <2>1
       DEF TypeOK, Idle, Chain, Directories, GoodDirectory, ActiveFile
<1>25. CASE UNCHANGED vars
  BY PackAssumption, <1>0, <1>25
     DEF vars, TypeOK, Idle, Chain, Directories, GoodDirectory, ActiveFile
<1> QED
  BY <1>1, <1>2, <1>3, <1>4, <1>5, <1>6, <1>7, <1>8, <1>9, <1>10, <1>11, <1>12, <1>13, <1>14,
     <1>15, <1>16, <1>17, <1>18, <1>19, <1>20, <1>21, <1>22, <1>23, <1>24, <1>25
     DEF Next, Section, WriteStep, CompactStep, WipeStep, Environment

\* fsync, failed fsync and power loss keep apart what is durable and what was dropped.
LEMMA PagesStep == IndInv /\ [Next]_vars => Pages'
<1> SUFFICES ASSUME IndInv, [Next]_vars PROVE Pages'
  OBVIOUS
<1> USE DEF diskVars, procVars, muVars, writerVars, compactVars, wipeVars, histVars
<1>0. TypeOK /\ Holder /\ Idle /\ Directories /\ Pages /\ ActiveFile /\ SealedNamed /\ SealedDurable
     /\ Attached /\ Victims
  BY DEF IndInv
<1>1. CASE CreateFile
  BY PackAssumption, <1>0, <1>1
     DEF CreateFile, SetDir, TypeOK, Keys, Pages, Idle, ActiveFile, Chain
<1>2. CASE WriteRecord
  <2>1. /\ UNCHANGED <<synced, dropped, foot>> /\ foot[active] = "none"
    BY <1>0, <1>2 DEF WriteRecord, ActiveFile
  <2> QED
    BY <1>0, <1>2, <2>1, WriteRecordEffect DEF Pages, Keys
<1>3. CASE PutSync
  BY <1>0, <1>3, FileSyncPages DEF PutSync, TypeOK, Idle, Chain
<1>4. CASE SyncActive
  <2>1. CASE active = 0
    BY <1>0, <1>4, <2>1 DEF SyncActive, Pages, Keys
  <2>2. CASE active # 0
    BY <1>0, <1>4, <2>2, FileSyncPages DEF SyncActive, TypeOK
  <2> QED
    BY <2>1, <2>2
<1>5. CASE SyncFails
  BY <1>0, <1>5, FileSyncFailsPages DEF SyncFails, TypeOK, Idle, Chain
<1>6. CASE WriteFooter
  BY PackAssumption, <1>0, <1>6 DEF WriteFooter, TypeOK, Keys, Pages, Idle, ActiveFile, Chain
<1>7. CASE FooterSync
  BY <1>0, <1>7, FileSyncPages DEF FooterSync, TypeOK, Idle, Chain
<1>8. CASE Close
  <2>1. CASE active = 0
    BY <1>0, <1>8, <2>1 DEF Close, Pages, Keys
  <2>2. CASE active # 0
    BY <1>0, <1>8, <2>2, FileSyncPages, FileSyncFailsPages DEF Close, TypeOK
  <2> QED
    BY <2>1, <2>2
<1>9. CASE PowerLoss
  BY <1>0, <1>9, PowerLossEffect DEF Pages, Keys
<1>10. CASE Open
  <2>1. UNCHANGED <<body, synced, dropped>> /\ \A f \in File : foot'[f] \in {"none", foot[f]}
    BY <1>0, <1>10 DEF Open, recoverActive
  <2> QED
    BY <1>0, <2>1 DEF Pages, Keys
<1>11. CASE Refuse \/ CreateFails \/ PublishActive \/ HeaderFails \/ AlreadyActive \/
          WriteRecordFails \/ NoRotation \/ Rotate \/ WriteFooterFails \/ Rename \/ Swap \/
          SealFails
  <2>1. UNCHANGED <<body, synced, dropped, foot>>
    BY <1>11
       DEF Refuse, Return, WriterGets, CompactGets, Release, SetWriter, CreateFails,
           PublishActive, DirSync, HeaderFails, SetDir, AlreadyActive, WriteRecordFails,
           NoRotation, Rotate, WriteFooterFails, Poison, Rename, Swap, SealFails
  <2> QED
    BY PackAssumption, <1>0, <2>1 DEF TypeOK, Keys, Pages, Idle, ActiveFile, Chain
<1>12. CASE (\E w \in Writer, k \in Key : BatchNext(w, k)) \/ (\E w \in Writer, k \in Key :
          Put(w, k)) \/ (\E w \in Writer : BatchStart(w)) \/ (\E w \in Writer : BatchFails(w))
          \/ (\E w \in Writer : LockAppend(w)) \/ (\E w \in Writer : LockSync(w)) \/ (\E L \in
          SUBSET Key : Compact(L)) \/ selectVictims \/ CopyFails \/ CopySync \/ Detach \/
          CompactEnds \/ (\E k \in Key : copyLive(k)) \/ (\E f \in File : Unlink(f)) \/ Wipe
          \/ WipeActive \/ (\E f \in File : WipeSealed(f)) \/ (\E ok \in BOOLEAN :
          WipeEnds(ok)) \/ Kill \/ OpenRenames
  <2>1. UNCHANGED <<body, synced, dropped, foot>>
    BY <1>12
       DEF BatchNext, SetWriter, Put, MayWrite, BatchStart, BatchFails, LockAppend, Enter,
           LockSync, Compact, selectVictims, CompactReturns, Release, CopyFails, CopySync,
           Detach, CompactEnds, DirSync, copyLive, Unlink, SetDir, Wipe, WipeActive,
           WipeRemove, WipeSealed, WipeEnds, Kill, Down, OpenRenames, MayOpen
  <2> QED
    BY PackAssumption, <1>0, <2>1 DEF TypeOK, Keys, Pages, Idle, ActiveFile, Chain
<1>13. CASE UNCHANGED vars
  BY PackAssumption, <1>0, <1>13 DEF vars, TypeOK, Keys, Pages, Idle, ActiveFile, Chain
<1> QED
  BY <1>1, <1>2, <1>3, <1>4, <1>5, <1>6, <1>7, <1>8, <1>9, <1>10, <1>11, <1>12, <1>13
     DEF Next, Section, WriteStep, CompactStep, WipeStep, Environment

\* Until a call fails, the active file has lost no page and has the name and the footer of
\* the step that its seal has reached.
LEMMA ActiveFileStep == ~ReopenDirty /\ IndInv /\ [Next]_vars => ActiveFile'
<1> SUFFICES ASSUME ~ReopenDirty, IndInv, [Next]_vars PROVE ActiveFile'
  OBVIOUS
<1> USE DEF diskVars, procVars, muVars, writerVars, compactVars, wipeVars, histVars
<1>0. TypeOK /\ Holder /\ Idle /\ Directories /\ Pages /\ ActiveFile /\ SealedNamed /\ SealedDurable
     /\ Attached /\ Victims
  BY DEF IndInv
<1>1. CASE Refuse
  BY PackAssumption, <1>0, <1>1, ReturnType
     DEF Refuse, TypeOK, Holder, Idle, Chain, Directories, GoodDirectory, ActiveFile,
         SealedNamed, SealedDurable
<1>2. CASE CreateFile
  BY PackAssumption, <1>0, <1>2
     DEF CreateFile, SetDir, TypeOK, Holder, Idle, Chain, Directories, GoodDirectory,
         ActiveFile, SealedNamed, SealedDurable
<1>3. CASE CreateFails
  BY PackAssumption, <1>0, <1>3, ReturnType
     DEF CreateFails, TypeOK, Holder, Idle, Chain, Directories, GoodDirectory, ActiveFile,
         SealedNamed, SealedDurable
<1>4. CASE PublishActive
  BY PackAssumption, <1>0, <1>4
     DEF PublishActive, DirSync, TypeOK, Holder, Idle, Chain, Directories, GoodDirectory,
         ActiveFile, SealedNamed, SealedDurable
<1>5. CASE HeaderFails
  BY PackAssumption, <1>0, <1>5, ReturnType
     DEF HeaderFails, SetDir, TypeOK, Holder, Idle, Chain, Directories, GoodDirectory,
         ActiveFile, SealedNamed, SealedDurable
<1>6. CASE AlreadyActive
  BY PackAssumption, <1>0, <1>6, ReturnType
     DEF AlreadyActive, TypeOK, Holder, Idle, Chain, Directories, GoodDirectory, ActiveFile,
         SealedNamed, SealedDurable
<1>7. CASE WriteRecord
  BY PackAssumption, <1>0, <1>7
     DEF WriteRecord, TypeOK, Holder, Idle, Chain, Directories, GoodDirectory, ActiveFile,
         SealedNamed, SealedDurable
<1>8. CASE WriteRecordFails
  BY PackAssumption, <1>0, <1>8, ReturnType
     DEF WriteRecordFails, TypeOK, Holder, Idle, Chain, Directories, GoodDirectory,
         ActiveFile, SealedNamed, SealedDurable
<1>9. CASE PutSync
  BY PackAssumption, <1>0, <1>9
     DEF PutSync, FileSync, TypeOK, Holder, Idle, Chain, Directories, GoodDirectory,
         ActiveFile, SealedNamed, SealedDurable
<1>10. CASE NoRotation
  BY PackAssumption, <1>0, <1>10, ReturnType
     DEF NoRotation, TypeOK, Holder, Idle, Chain, Directories, GoodDirectory, ActiveFile,
         SealedNamed, SealedDurable
<1>11. CASE Rotate
  BY PackAssumption, <1>0, <1>11
     DEF Rotate, TypeOK, Holder, Idle, Chain, Directories, GoodDirectory, ActiveFile,
         SealedNamed, SealedDurable
<1>12. CASE SyncActive
  BY PackAssumption, <1>0, <1>12, ReturnType DEF SyncActive, FileSync, TypeOK, Idle, Chain, ActiveFile
<1>13. CASE SyncFails
  BY PackAssumption, <1>0, <1>13, ReturnType
     DEF SyncFails, FileSyncFails, Poison, TypeOK, Holder, Idle, Chain, Directories,
         GoodDirectory, ActiveFile, SealedNamed, SealedDurable
<1>14. CASE WriteFooter
  BY PackAssumption, <1>0, <1>14
     DEF WriteFooter, TypeOK, Holder, Idle, Chain, Directories, GoodDirectory, ActiveFile,
         SealedNamed, SealedDurable
<1>15. CASE WriteFooterFails
  BY PackAssumption, <1>0, <1>15, ReturnType
     DEF WriteFooterFails, Poison, TypeOK, Holder, Idle, Chain, Directories, GoodDirectory,
         ActiveFile, SealedNamed, SealedDurable
<1>16. CASE FooterSync
  BY PackAssumption, <1>0, <1>16
     DEF FooterSync, FileSync, TypeOK, Holder, Idle, Chain, Directories, GoodDirectory,
         ActiveFile, SealedNamed, SealedDurable
<1>17. CASE Rename
  BY PackAssumption, <1>0, <1>17
     DEF Rename, SetDir, TypeOK, Holder, Idle, Chain, Directories, GoodDirectory, ActiveFile,
         SealedNamed, SealedDurable
<1>18. CASE Swap
  BY PackAssumption, <1>0, <1>18, ReturnType
     DEF Swap, DirSync, Poison, TypeOK, Holder, Idle, Chain, Directories, GoodDirectory,
         ActiveFile, SealedNamed, SealedDurable
<1>19. CASE SealFails
  BY PackAssumption, <1>0, <1>19, ReturnType
     DEF SealFails, Poison, TypeOK, Holder, Idle, Chain, Directories, GoodDirectory,
         ActiveFile, SealedNamed, SealedDurable
<1>20. ASSUME NEW w \in Writer, NEW k \in Key, BatchNext(w, k) PROVE ActiveFile'
  BY PackAssumption, <1>0, <1>20
     DEF BatchNext, SetWriter, TypeOK, Holder, Idle, Chain, Directories, GoodDirectory,
         ActiveFile, SealedNamed, SealedDurable
<1>21. ASSUME NEW w \in Writer, NEW k \in Key, Put(w, k) PROVE ActiveFile'
  BY PackAssumption, <1>0, <1>21
     DEF Put, MayWrite, SetWriter, TypeOK, Holder, Idle, Chain, Directories, GoodDirectory,
         ActiveFile, SealedNamed, SealedDurable
<1>22. ASSUME NEW w \in Writer, BatchStart(w) PROVE ActiveFile'
  BY PackAssumption, <1>0, <1>22
     DEF BatchStart, MayWrite, SetWriter, TypeOK, Holder, Idle, Chain, Directories,
         GoodDirectory, ActiveFile, SealedNamed, SealedDurable
<1>23. ASSUME NEW w \in Writer, BatchFails(w) PROVE ActiveFile'
  BY PackAssumption, <1>0, <1>23
     DEF BatchFails, SetWriter, TypeOK, Holder, Idle, Chain, Directories, GoodDirectory,
         ActiveFile, SealedNamed, SealedDurable
<1>24. ASSUME NEW w \in Writer, LockAppend(w) PROVE ActiveFile'
  BY PackAssumption, <1>0, <1>24
     DEF LockAppend, Enter, TypeOK, Holder, Idle, Chain, Directories, GoodDirectory,
         ActiveFile, SealedNamed, SealedDurable
<1>25. ASSUME NEW w \in Writer, LockSync(w) PROVE ActiveFile'
  BY PackAssumption, <1>0, <1>25
     DEF LockSync, Enter, TypeOK, Holder, Idle, Chain, Directories, GoodDirectory, ActiveFile,
         SealedNamed, SealedDurable
<1>26. ASSUME NEW L \in SUBSET Key, Compact(L) PROVE ActiveFile'
  BY PackAssumption, <1>0, <1>26
     DEF Compact, TypeOK, Holder, Idle, Chain, Directories, GoodDirectory, ActiveFile,
         SealedNamed, SealedDurable
<1>27. CASE selectVictims
  BY PackAssumption, <1>0, <1>27
     DEF selectVictims, CompactReturns, Release, TypeOK, Holder, Idle, Chain, Directories,
         GoodDirectory, ActiveFile, SealedNamed, SealedDurable
<1>28. CASE CopyFails
  BY PackAssumption, <1>0, <1>28
     DEF CopyFails, CompactReturns, Release, TypeOK, Holder, Idle, Chain, Directories,
         GoodDirectory, ActiveFile, SealedNamed, SealedDurable
<1>29. CASE CopySync
  BY PackAssumption, <1>0, <1>29
     DEF CopySync, TypeOK, Holder, Idle, Chain, Directories, GoodDirectory, ActiveFile,
         SealedNamed, SealedDurable
<1>30. CASE Detach
  BY PackAssumption, <1>0, <1>30
     DEF Detach, TypeOK, Holder, Idle, Chain, Directories, GoodDirectory, ActiveFile,
         SealedNamed, SealedDurable
<1>31. CASE CompactEnds
  BY PackAssumption, <1>0, <1>31
     DEF CompactEnds, CompactReturns, Release, DirSync, TypeOK, Holder, Idle, Chain,
         Directories, GoodDirectory, ActiveFile, SealedNamed, SealedDurable
<1>32. ASSUME NEW k \in Key, copyLive(k) PROVE ActiveFile'
  BY PackAssumption, <1>0, <1>32
     DEF copyLive, TypeOK, Holder, Idle, Chain, Directories, GoodDirectory, ActiveFile,
         SealedNamed, SealedDurable
<1>33. ASSUME NEW f \in File, Unlink(f) PROVE ActiveFile'
  BY PackAssumption, <1>0, <1>33
     DEF Unlink, SetDir, Victims, TypeOK, Holder, Idle, Chain, Directories, GoodDirectory,
         ActiveFile, SealedNamed, SealedDurable
<1>34. CASE Wipe
  BY PackAssumption, <1>0, <1>34
     DEF Wipe, TypeOK, Holder, Idle, Chain, Directories, GoodDirectory, ActiveFile,
         SealedNamed, SealedDurable
<1>35. CASE WipeActive
  BY PackAssumption, <1>0, <1>35
     DEF WipeActive, WipeRemove, SetDir, TypeOK, Holder, Idle, Chain, Directories,
         GoodDirectory, ActiveFile, SealedNamed, SealedDurable
<1>36. ASSUME NEW f \in File, WipeSealed(f) PROVE ActiveFile'
  BY PackAssumption, <1>0, <1>36
     DEF WipeSealed, WipeRemove, SetDir, TypeOK, Holder, Idle, Chain, Directories,
         GoodDirectory, ActiveFile, SealedNamed, SealedDurable
<1>37. ASSUME NEW ok \in BOOLEAN, WipeEnds(ok) PROVE ActiveFile'
  BY PackAssumption, <1>0, <1>37
     DEF WipeEnds, DirSync, Release, TypeOK, Holder, Idle, Chain, Directories, GoodDirectory,
         ActiveFile, SealedNamed, SealedDurable
<1>38. CASE Close
  BY PackAssumption, <1>0, <1>38
     DEF Close, Down, Release, FileSync, FileSyncFails, TypeOK, Holder, Idle, Chain,
         Directories, GoodDirectory, ActiveFile, SealedNamed, SealedDurable
<1>39. CASE Kill
  BY PackAssumption, <1>0, <1>39
     DEF Kill, Down, Release, TypeOK, Holder, Idle, Chain, Directories, GoodDirectory,
         ActiveFile, SealedNamed, SealedDurable
<1>40. CASE PowerLoss
  BY PackAssumption, <1>0, <1>40 DEF PowerLoss, Down, Release, ActiveFile
<1>41. CASE Open
  BY PackAssumption, <1>0, <1>41
     DEF Open, MayOpen, recoverActive, LoadFails, CacheClean, Existing, Unrenamed,
         FooterValid, TypeOK, Holder, Idle, Chain, Directories, GoodDirectory, ActiveFile,
         SealedNamed, SealedDurable
<1>42. CASE OpenRenames
  BY PackAssumption, <1>0, <1>42
     DEF OpenRenames, MayOpen, SetDir, TypeOK, Holder, Idle, Chain, Directories,
         GoodDirectory, ActiveFile, SealedNamed, SealedDurable
<1>43. CASE UNCHANGED vars
  BY PackAssumption, <1>0, <1>43
     DEF vars, TypeOK, Holder, Idle, Chain, Directories, GoodDirectory, ActiveFile,
         SealedNamed, SealedDurable
<1> QED
  BY <1>1, <1>2, <1>3, <1>4, <1>5, <1>6, <1>7, <1>8, <1>9, <1>10, <1>11, <1>12, <1>13, <1>14,
     <1>15, <1>16, <1>17, <1>18, <1>19, <1>20, <1>21, <1>22, <1>23, <1>24, <1>25, <1>26, <1>27,
     <1>28, <1>29, <1>30, <1>31, <1>32, <1>33, <1>34, <1>35, <1>36, <1>37, <1>38, <1>39, <1>40,
     <1>41, <1>42, <1>43
     DEF Next, Section, WriteStep, CompactStep, WipeStep, Environment

\* What is published has its final name: Swap publishes after the rename, Open what it finds
\* or renames, and Unlink removes what Detach has taken out of the store.
LEMMA SealedNamedStep == ~ReopenDirty /\ IndInv /\ [Next]_vars => SealedNamed'
<1> SUFFICES ASSUME ~ReopenDirty, IndInv, [Next]_vars PROVE SealedNamed'
  OBVIOUS
<1> USE DEF diskVars, procVars, muVars, writerVars, compactVars, wipeVars, histVars
<1>0. TypeOK /\ Holder /\ Idle /\ Directories /\ Pages /\ ActiveFile /\ SealedNamed /\ SealedDurable
     /\ Attached /\ Victims
  BY DEF IndInv
<1>1. CASE CreateFile
  <2>1. dir[nextID] = "none"
    BY <1>0, <1>1 DEF CreateFile, TypeOK, Directories, GoodDirectory
  <2> QED
    BY <1>0, <1>1, <2>1 DEF CreateFile, SetDir, TypeOK, SealedNamed
<1>2. CASE HeaderFails
  BY PackAssumption, <1>0, <1>2
     DEF HeaderFails, SetDir, TypeOK, Holder, Idle, Chain, Directories, GoodDirectory,
         ActiveFile, SealedNamed
<1>3. CASE Rename
  BY PackAssumption, <1>0, <1>3
     DEF Rename, SetDir, TypeOK, Holder, Idle, Chain, Directories, GoodDirectory, ActiveFile,
         SealedNamed
<1>4. CASE Swap
  BY PackAssumption, <1>0, <1>4
     DEF Swap, DirSync, Poison, TypeOK, Holder, Idle, Chain, Directories, GoodDirectory,
         ActiveFile, SealedNamed
<1>5. CASE Detach
  BY PackAssumption, <1>0, <1>5
     DEF Detach, TypeOK, Holder, Idle, Chain, Directories, GoodDirectory, ActiveFile,
         SealedNamed
<1>6. ASSUME NEW f \in File, Unlink(f) PROVE SealedNamed'
  BY PackAssumption, <1>0, <1>6
     DEF Unlink, SetDir, Victims, TypeOK, Holder, Idle, Chain, Directories, GoodDirectory,
         ActiveFile, SealedNamed
<1>7. CASE Wipe
  BY PackAssumption, <1>0, <1>7
     DEF Wipe, TypeOK, Holder, Idle, Chain, Directories, GoodDirectory, ActiveFile,
         SealedNamed
<1>8. CASE WipeActive
  BY PackAssumption, <1>0, <1>8
     DEF WipeActive, WipeRemove, SetDir, TypeOK, Holder, Idle, Chain, Directories,
         GoodDirectory, ActiveFile, SealedNamed
<1>9. ASSUME NEW f \in File, WipeSealed(f) PROVE SealedNamed'
  BY PackAssumption, <1>0, <1>9
     DEF WipeSealed, WipeRemove, SetDir, TypeOK, Holder, Idle, Chain, Directories,
         GoodDirectory, ActiveFile, SealedNamed
<1>10. CASE Close
  BY PackAssumption, <1>0, <1>10
     DEF Close, Down, Release, FileSync, FileSyncFails, TypeOK, Holder, Idle, Chain,
         Directories, GoodDirectory, ActiveFile, SealedNamed
<1>11. CASE Kill
  BY PackAssumption, <1>0, <1>11
     DEF Kill, Down, Release, TypeOK, Holder, Idle, Chain, Directories, GoodDirectory,
         ActiveFile, SealedNamed
<1>12. CASE PowerLoss
  BY PackAssumption, <1>0, <1>12
     DEF PowerLoss, Down, Release, TypeOK, Holder, Idle, Chain, Directories, GoodDirectory,
         ActiveFile, SealedNamed
<1>13. CASE Open
  BY <1>0, <1>13, OpenEffect DEF SealedNamed
<1>14. CASE OpenRenames
  BY PackAssumption, <1>0, <1>14
     DEF OpenRenames, MayOpen, SetDir, TypeOK, Holder, Idle, Chain, Directories,
         GoodDirectory, ActiveFile, SealedNamed
<1>15. CASE Refuse \/ CreateFails \/ PublishActive \/ AlreadyActive \/ WriteRecord \/
          WriteRecordFails \/ PutSync \/ NoRotation \/ Rotate \/ SyncActive \/ SyncFails \/
          WriteFooter \/ WriteFooterFails \/ FooterSync \/ SealFails
  <2>1. UNCHANGED <<dir, sealed>>
    BY <1>15
       DEF Refuse, Return, WriterGets, CompactGets, Release, SetWriter, CreateFails,
           PublishActive, DirSync, AlreadyActive, WriteRecord, WriteRecordFails, PutSync,
           FileSync, NoRotation, Rotate, SyncActive, SyncFails, FileSyncFails, Poison,
           WriteFooter, WriteFooterFails, FooterSync, SealFails
  <2> QED
    BY PackAssumption, <1>0, <2>1
       DEF TypeOK, Holder, Idle, Chain, Directories, GoodDirectory, ActiveFile, SealedNamed
<1>16. CASE (\E w \in Writer, k \in Key : BatchNext(w, k)) \/ (\E w \in Writer, k \in Key :
          Put(w, k)) \/ (\E w \in Writer : BatchStart(w)) \/ (\E w \in Writer : BatchFails(w))
          \/ (\E w \in Writer : LockAppend(w)) \/ (\E w \in Writer : LockSync(w)) \/ (\E L \in
          SUBSET Key : Compact(L)) \/ selectVictims \/ CopyFails \/ CopySync \/ CompactEnds \/
          (\E k \in Key : copyLive(k)) \/ (\E ok \in BOOLEAN : WipeEnds(ok))
  <2>1. UNCHANGED <<dir, sealed>>
    BY <1>16
       DEF BatchNext, SetWriter, Put, MayWrite, BatchStart, BatchFails, LockAppend, Enter,
           LockSync, Compact, selectVictims, CompactReturns, Release, CopyFails, CopySync,
           CompactEnds, DirSync, copyLive, WipeEnds
  <2> QED
    BY PackAssumption, <1>0, <2>1
       DEF TypeOK, Holder, Idle, Chain, Directories, GoodDirectory, ActiveFile, SealedNamed
<1>17. CASE UNCHANGED vars
  BY PackAssumption, <1>0, <1>17
     DEF vars, TypeOK, Holder, Idle, Chain, Directories, GoodDirectory, ActiveFile,
         SealedNamed
<1> QED
  BY <1>1, <1>2, <1>3, <1>4, <1>5, <1>6, <1>7, <1>8, <1>9, <1>10, <1>11, <1>12, <1>13, <1>14,
     <1>15, <1>16, <1>17
     DEF Next, Section, WriteStep, CompactStep, WipeStep, Environment

\* Swap publishes after the fsync of the file and of the directory; later calls touch no
\* sealed file; Open attaches a file of a clean cache with a durable footer only.
LEMMA SealedDurableStep == ~ReopenDirty /\ IndInv /\ [Next]_vars => SealedDurable'
<1> SUFFICES ASSUME ~ReopenDirty, IndInv, [Next]_vars PROVE SealedDurable'
  OBVIOUS
<1> USE DEF diskVars, procVars, muVars, writerVars, compactVars, wipeVars, histVars
<1>0. TypeOK /\ Holder /\ Idle /\ Directories /\ Pages /\ ActiveFile /\ SealedNamed /\ SealedDurable
     /\ Attached /\ Victims
  BY DEF IndInv
<1>1. CASE CreateFile
  BY PackAssumption, <1>0, <1>1
     DEF CreateFile, SetDir, TypeOK, Keys, Holder, Idle, Chain, Directories, GoodDirectory,
         ActiveFile, SealedNamed, SealedDurable
<1>2. CASE PublishActive
  BY PackAssumption, <1>0, <1>2
     DEF PublishActive, DirSync, TypeOK, Keys, Holder, Idle, Chain, Directories,
         GoodDirectory, ActiveFile, SealedNamed, SealedDurable
<1>3. CASE HeaderFails
  BY PackAssumption, <1>0, <1>3
     DEF HeaderFails, SetDir, TypeOK, Keys, Holder, Idle, Chain, Directories, GoodDirectory,
         ActiveFile, SealedNamed, SealedDurable
<1>4. CASE WriteRecord
  BY PackAssumption, <1>0, <1>4
     DEF WriteRecord, TypeOK, Keys, Holder, Idle, Chain, Directories, GoodDirectory,
         ActiveFile, SealedNamed, SealedDurable
<1>5. CASE PutSync
  BY PackAssumption, <1>0, <1>5
     DEF PutSync, FileSync, TypeOK, Keys, Holder, Idle, Chain, Directories, GoodDirectory,
         ActiveFile, SealedNamed, SealedDurable
<1>6. CASE SyncActive
  BY PackAssumption, <1>0, <1>6
     DEF SyncActive, FileSync, TypeOK, Keys, Holder, Idle, Chain, Directories, GoodDirectory,
         ActiveFile, SealedNamed, SealedDurable
<1>7. CASE SyncFails
  BY PackAssumption, <1>0, <1>7
     DEF SyncFails, FileSyncFails, Poison, TypeOK, Keys, Holder, Idle, Chain, Directories,
         GoodDirectory, ActiveFile, SealedNamed, SealedDurable
<1>8. CASE WriteFooter
  BY PackAssumption, <1>0, <1>8
     DEF WriteFooter, TypeOK, Keys, Holder, Idle, Chain, Directories, GoodDirectory,
         ActiveFile, SealedNamed, SealedDurable
<1>9. CASE FooterSync
  BY PackAssumption, <1>0, <1>9
     DEF FooterSync, FileSync, TypeOK, Keys, Holder, Idle, Chain, Directories, GoodDirectory,
         ActiveFile, SealedNamed, SealedDurable
<1>10. CASE Rename
  BY PackAssumption, <1>0, <1>10
     DEF Rename, SetDir, TypeOK, Keys, Holder, Idle, Chain, Directories, GoodDirectory,
         ActiveFile, SealedNamed, SealedDurable
<1>11. CASE Swap
  <2>1. /\ active \in File /\ dir[active] = "sealed" /\ foot[active] = "durable"
        /\ synced[active] = Keys(active)
    BY <1>0, <1>11 DEF Swap, TypeOK, Idle, Chain, ActiveFile, Pages
  <2> QED
    BY <1>0, <1>11, <2>1 DEF Swap, DirSync, SealedDurable, SealedNamed, Keys
<1>12. CASE Detach
  BY PackAssumption, <1>0, <1>12
     DEF Detach, TypeOK, Keys, Holder, Idle, Chain, Directories, GoodDirectory, ActiveFile,
         SealedNamed, SealedDurable
<1>13. CASE CompactEnds
  BY PackAssumption, <1>0, <1>13
     DEF CompactEnds, CompactReturns, Release, DirSync, TypeOK, Keys, Holder, Idle, Chain,
         Directories, GoodDirectory, ActiveFile, SealedNamed, SealedDurable
<1>14. ASSUME NEW f \in File, Unlink(f) PROVE SealedDurable'
  BY PackAssumption, <1>0, <1>14
     DEF Unlink, SetDir, Victims, TypeOK, Keys, Holder, Idle, Chain, Directories,
         GoodDirectory, ActiveFile, SealedNamed, SealedDurable
<1>15. CASE Wipe
  BY PackAssumption, <1>0, <1>15
     DEF Wipe, TypeOK, Keys, Holder, Idle, Chain, Directories, GoodDirectory, ActiveFile,
         SealedNamed, SealedDurable
<1>16. CASE WipeActive
  BY PackAssumption, <1>0, <1>16
     DEF WipeActive, WipeRemove, SetDir, TypeOK, Keys, Holder, Idle, Chain, Directories,
         GoodDirectory, ActiveFile, SealedNamed, SealedDurable
<1>17. ASSUME NEW f \in File, WipeSealed(f) PROVE SealedDurable'
  BY PackAssumption, <1>0, <1>17
     DEF WipeSealed, WipeRemove, SetDir, TypeOK, Keys, Holder, Idle, Chain, Directories,
         GoodDirectory, ActiveFile, SealedNamed, SealedDurable
<1>18. ASSUME NEW ok \in BOOLEAN, WipeEnds(ok) PROVE SealedDurable'
  BY PackAssumption, <1>0, <1>18
     DEF WipeEnds, DirSync, Release, TypeOK, Keys, Holder, Idle, Chain, Directories,
         GoodDirectory, ActiveFile, SealedNamed, SealedDurable
<1>19. CASE Close
  BY PackAssumption, <1>0, <1>19
     DEF Close, Down, Release, FileSync, FileSyncFails, TypeOK, Keys, Holder, Idle, Chain,
         Directories, GoodDirectory, ActiveFile, SealedNamed, SealedDurable
<1>20. CASE Kill
  BY PackAssumption, <1>0, <1>20
     DEF Kill, Down, Release, TypeOK, Keys, Holder, Idle, Chain, Directories, GoodDirectory,
         ActiveFile, SealedNamed, SealedDurable
<1>21. CASE PowerLoss
  BY PackAssumption, <1>0, <1>21
     DEF PowerLoss, Down, Release, TypeOK, Keys, Holder, Idle, Chain, Directories,
         GoodDirectory, ActiveFile, SealedNamed, SealedDurable
<1>22. CASE Open
  <2>1. \A f \in sealed' : /\ f \in File /\ dir'[f] = "sealed" /\ foot'[f] = "durable"
                           /\ synced[f] = Keys(f)
    BY <1>0, <1>22, OpenEffect DEF Pages
  <2>2. \A f \in sealed', d \in dirStates' : d[f] # "none"
    <3>1. \A f \in sealed' : f \in File /\ dir[f] # "none"
      BY <1>0, <1>22, OpenEffect, <2>1 DEF Open, recoverActive, Existing, Unrenamed
    <3> QED
      BY <1>0, <1>22, <3>1, OpenEffect
  <2> QED
    BY <1>0, <1>22, <2>1, <2>2, OpenEffect DEF SealedDurable, Keys
<1>23. CASE OpenRenames
  BY PackAssumption, <1>0, <1>23
     DEF OpenRenames, MayOpen, SetDir, TypeOK, Keys, Holder, Idle, Chain, Directories,
         GoodDirectory, ActiveFile, SealedNamed, SealedDurable
<1>24. CASE Refuse \/ CreateFails \/ AlreadyActive \/ WriteRecordFails \/ NoRotation \/ Rotate
          \/ WriteFooterFails \/ SealFails
  <2>1. UNCHANGED <<dirStates, body, synced, foot, sealed>>
    BY <1>24
       DEF Refuse, Return, WriterGets, CompactGets, Release, SetWriter, CreateFails,
           AlreadyActive, WriteRecordFails, NoRotation, Rotate, WriteFooterFails, Poison,
           SealFails
  <2> QED
    BY PackAssumption, <1>0, <2>1
       DEF TypeOK, Keys, Holder, Idle, Chain, Directories, GoodDirectory, ActiveFile,
           SealedNamed, SealedDurable
<1>25. CASE (\E w \in Writer, k \in Key : BatchNext(w, k)) \/ (\E w \in Writer, k \in Key :
          Put(w, k)) \/ (\E w \in Writer : BatchStart(w)) \/ (\E w \in Writer : BatchFails(w))
          \/ (\E w \in Writer : LockAppend(w)) \/ (\E w \in Writer : LockSync(w)) \/ (\E L \in
          SUBSET Key : Compact(L)) \/ selectVictims \/ CopyFails \/ CopySync \/ (\E k \in Key
          : copyLive(k))
  <2>1. UNCHANGED <<dirStates, body, synced, foot, sealed>>
    BY <1>25
       DEF BatchNext, SetWriter, Put, MayWrite, BatchStart, BatchFails, LockAppend, Enter,
           LockSync, Compact, selectVictims, CompactReturns, Release, CopyFails, CopySync,
           copyLive
  <2> QED
    BY PackAssumption, <1>0, <2>1
       DEF TypeOK, Keys, Holder, Idle, Chain, Directories, GoodDirectory, ActiveFile,
           SealedNamed, SealedDurable
<1>26. CASE UNCHANGED vars
  BY PackAssumption, <1>0, <1>26
     DEF vars, TypeOK, Keys, Holder, Idle, Chain, Directories, GoodDirectory, ActiveFile,
         SealedNamed, SealedDurable
<1> QED
  BY <1>1, <1>2, <1>3, <1>4, <1>5, <1>6, <1>7, <1>8, <1>9, <1>10, <1>11, <1>12, <1>13, <1>14,
     <1>15, <1>16, <1>17, <1>18, <1>19, <1>20, <1>21, <1>22, <1>23, <1>24, <1>25, <1>26
     DEF Next, Section, WriteStep, CompactStep, WipeStep, Environment

\* No step forgets a file: it is published, in the making, in Compact's or Wipe's hands, or
\* left behind by a call that failed.
LEMMA AttachedStep == ~ReopenDirty /\ IndInv /\ [Next]_vars => Attached'
<1> SUFFICES ASSUME ~ReopenDirty, IndInv, [Next]_vars PROVE Attached'
  OBVIOUS
<1> USE DEF diskVars, procVars, muVars, writerVars, compactVars, wipeVars, histVars
<1>0. TypeOK /\ Holder /\ Idle /\ Directories /\ Pages /\ ActiveFile /\ SealedNamed /\ SealedDurable
     /\ Attached /\ Victims
  BY DEF IndInv
<1>1. CASE Refuse
  BY PackAssumption, <1>0, <1>1, ReturnType, ReturnKeys
     DEF Refuse, TypeOK, Holder, Idle, Chain, ActiveFile, Attached
<1>2. CASE CreateFile
  BY PackAssumption, <1>0, <1>2
     DEF CreateFile, SetDir, TypeOK, Holder, Idle, Chain, ActiveFile, Attached
<1>3. CASE CreateFails
  BY PackAssumption, <1>0, <1>3, ReturnType, ReturnKeys
     DEF CreateFails, TypeOK, Holder, Idle, Chain, ActiveFile, Attached
<1>4. CASE PublishActive
  BY PackAssumption, <1>0, <1>4
     DEF PublishActive, DirSync, TypeOK, Holder, Idle, Chain, ActiveFile, Attached
<1>5. CASE HeaderFails
  BY PackAssumption, <1>0, <1>5, ReturnType, ReturnKeys
     DEF HeaderFails, SetDir, TypeOK, Holder, Idle, Chain, ActiveFile, Attached
<1>6. CASE AlreadyActive
  BY PackAssumption, <1>0, <1>6, ReturnType, ReturnKeys
     DEF AlreadyActive, TypeOK, Holder, Idle, Chain, ActiveFile, Attached
<1>7. CASE WriteRecord
  BY PackAssumption, <1>0, <1>7 DEF WriteRecord, TypeOK, Holder, Idle, Chain, ActiveFile, Attached
<1>8. CASE WriteRecordFails
  BY PackAssumption, <1>0, <1>8, ReturnType, ReturnKeys
     DEF WriteRecordFails, TypeOK, Holder, Idle, Chain, ActiveFile, Attached
<1>9. CASE PutSync
  BY PackAssumption, <1>0, <1>9
     DEF PutSync, FileSync, TypeOK, Holder, Idle, Chain, ActiveFile, Attached
<1>10. CASE NoRotation
  BY PackAssumption, <1>0, <1>10, ReturnType, ReturnKeys
     DEF NoRotation, TypeOK, Holder, Idle, Chain, ActiveFile, Attached
<1>11. CASE Rotate
  BY PackAssumption, <1>0, <1>11 DEF Rotate, TypeOK, Holder, Idle, Chain, ActiveFile, Attached
<1>12. CASE SyncActive
  BY PackAssumption, <1>0, <1>12, ReturnType, ReturnKeys
     DEF SyncActive, FileSync, TypeOK, Holder, Idle, Chain, ActiveFile, Attached
<1>13. CASE SyncFails
  BY PackAssumption, <1>0, <1>13, ReturnType, ReturnKeys
     DEF SyncFails, FileSyncFails, Poison, TypeOK, Holder, Idle, Chain, ActiveFile, Attached
<1>14. CASE WriteFooter
  BY PackAssumption, <1>0, <1>14 DEF WriteFooter, TypeOK, Holder, Idle, Chain, ActiveFile, Attached
<1>15. CASE WriteFooterFails
  BY PackAssumption, <1>0, <1>15, ReturnType, ReturnKeys
     DEF WriteFooterFails, Poison, TypeOK, Holder, Idle, Chain, ActiveFile, Attached
<1>16. CASE FooterSync
  BY PackAssumption, <1>0, <1>16
     DEF FooterSync, FileSync, TypeOK, Holder, Idle, Chain, ActiveFile, Attached
<1>17. CASE Rename
  BY PackAssumption, <1>0, <1>17
     DEF Rename, SetDir, TypeOK, Holder, Idle, Chain, ActiveFile, Attached
<1>18. CASE Swap
  BY PackAssumption, <1>0, <1>18, ReturnType, ReturnKeys
     DEF Swap, DirSync, Poison, TypeOK, Holder, Idle, Chain, ActiveFile, Attached
<1>19. CASE SealFails
  BY PackAssumption, <1>0, <1>19, ReturnType, ReturnKeys
     DEF SealFails, Poison, TypeOK, Holder, Idle, Chain, ActiveFile, Attached
<1>20. ASSUME NEW w \in Writer, NEW k \in Key, BatchNext(w, k) PROVE Attached'
  BY PackAssumption, <1>0, <1>20
     DEF BatchNext, SetWriter, TypeOK, Holder, Idle, Chain, ActiveFile, Attached
<1>21. ASSUME NEW w \in Writer, NEW k \in Key, Put(w, k) PROVE Attached'
  BY PackAssumption, <1>0, <1>21
     DEF Put, MayWrite, SetWriter, TypeOK, Holder, Idle, Chain, ActiveFile, Attached
<1>22. ASSUME NEW w \in Writer, BatchStart(w) PROVE Attached'
  BY PackAssumption, <1>0, <1>22
     DEF BatchStart, MayWrite, SetWriter, TypeOK, Holder, Idle, Chain, ActiveFile, Attached
<1>23. ASSUME NEW w \in Writer, BatchFails(w) PROVE Attached'
  BY PackAssumption, <1>0, <1>23
     DEF BatchFails, SetWriter, TypeOK, Holder, Idle, Chain, ActiveFile, Attached
<1>24. ASSUME NEW w \in Writer, LockAppend(w) PROVE Attached'
  BY PackAssumption, <1>0, <1>24
     DEF LockAppend, Enter, TypeOK, Holder, Idle, Chain, ActiveFile, Attached
<1>25. ASSUME NEW w \in Writer, LockSync(w) PROVE Attached'
  BY PackAssumption, <1>0, <1>25
     DEF LockSync, Enter, TypeOK, Holder, Idle, Chain, ActiveFile, Attached
<1>26. ASSUME NEW L \in SUBSET Key, Compact(L) PROVE Attached'
  BY PackAssumption, <1>0, <1>26 DEF Compact, TypeOK, Holder, Idle, Chain, ActiveFile, Attached
<1>27. CASE selectVictims
  BY PackAssumption, <1>0, <1>27
     DEF selectVictims, CompactReturns, Release, TypeOK, Holder, Idle, Chain, ActiveFile,
         Attached
<1>28. CASE CopyFails
  BY PackAssumption, <1>0, <1>28
     DEF CopyFails, CompactReturns, Release, TypeOK, Holder, Idle, Chain, ActiveFile, Attached
<1>29. CASE CopySync
  BY PackAssumption, <1>0, <1>29 DEF CopySync, TypeOK, Holder, Idle, Chain, ActiveFile, Attached
<1>30. CASE Detach
  BY PackAssumption, <1>0, <1>30 DEF Detach, TypeOK, Holder, Idle, Chain, ActiveFile, Attached
<1>31. CASE CompactEnds
  BY PackAssumption, <1>0, <1>31
     DEF CompactEnds, CompactReturns, Release, DirSync, TypeOK, Holder, Idle, Chain,
         ActiveFile, Attached
<1>32. ASSUME NEW k \in Key, copyLive(k) PROVE Attached'
  BY PackAssumption, <1>0, <1>32 DEF copyLive, TypeOK, Holder, Idle, Chain, ActiveFile, Attached
<1>33. ASSUME NEW f \in File, Unlink(f) PROVE Attached'
  BY PackAssumption, <1>0, <1>33
     DEF Unlink, SetDir, Victims, TypeOK, Holder, Idle, Chain, ActiveFile, Attached
<1>34. CASE Wipe
  BY PackAssumption, <1>0, <1>34 DEF Wipe, TypeOK, Holder, Idle, Chain, ActiveFile, Attached
<1>35. CASE WipeActive
  BY PackAssumption, <1>0, <1>35
     DEF WipeActive, WipeRemove, SetDir, TypeOK, Holder, Idle, Chain, ActiveFile, Attached
<1>36. ASSUME NEW f \in File, WipeSealed(f) PROVE Attached'
  BY PackAssumption, <1>0, <1>36
     DEF WipeSealed, WipeRemove, SetDir, TypeOK, Holder, Idle, Chain, ActiveFile, Attached
<1>37. ASSUME NEW ok \in BOOLEAN, WipeEnds(ok) PROVE Attached'
  BY PackAssumption, <1>0, <1>37
     DEF WipeEnds, DirSync, Release, TypeOK, Holder, Idle, Chain, ActiveFile, Attached
<1>38. CASE Close
  BY PackAssumption, <1>0, <1>38
     DEF Close, Down, Release, FileSync, FileSyncFails, TypeOK, Holder, Idle, Chain,
         ActiveFile, Attached
<1>39. CASE Kill
  BY PackAssumption, <1>0, <1>39
     DEF Kill, Down, Release, TypeOK, Holder, Idle, Chain, ActiveFile, Attached
<1>40. CASE PowerLoss
  BY PackAssumption, <1>0, <1>40
     DEF PowerLoss, Down, Release, TypeOK, Holder, Idle, Chain, ActiveFile, Attached
<1>41. CASE Open
  <2>1. \A f \in File : /\ dir'[f] = "active" => f = active'
                        /\ dir'[f] = "sealed" => f \in sealed'
    BY <1>0, <1>41, OpenEffect
  <2> QED
    BY <2>1 DEF Attached
<1>42. CASE OpenRenames
  BY PackAssumption, <1>0, <1>42
     DEF OpenRenames, MayOpen, SetDir, TypeOK, Holder, Idle, Chain, ActiveFile, Attached
<1>43. CASE UNCHANGED vars
  BY PackAssumption, <1>0, <1>43 DEF vars, TypeOK, Holder, Idle, Chain, ActiveFile, Attached
<1> QED
  BY <1>1, <1>2, <1>3, <1>4, <1>5, <1>6, <1>7, <1>8, <1>9, <1>10, <1>11, <1>12, <1>13, <1>14,
     <1>15, <1>16, <1>17, <1>18, <1>19, <1>20, <1>21, <1>22, <1>23, <1>24, <1>25, <1>26, <1>27,
     <1>28, <1>29, <1>30, <1>31, <1>32, <1>33, <1>34, <1>35, <1>36, <1>37, <1>38, <1>39, <1>40,
     <1>41, <1>42, <1>43
     DEF Next, Section, WriteStep, CompactStep, WipeStep, Environment

\* An append ends with its record in the active file, a Put with it synced.
LEMMA RecordedStep == IndInv /\ [Next]_vars => Recorded'
<1> SUFFICES ASSUME IndInv, [Next]_vars PROVE Recorded'
  OBVIOUS
<1> USE DEF diskVars, procVars, muVars, writerVars, compactVars, wipeVars, histVars
<1>0. TypeOK /\ Holder /\ Idle /\ Directories /\ Pages /\ ActiveFile /\ SealedNamed /\ SealedDurable
     /\ Attached /\ Victims /\ Recorded
  BY DEF IndInv
<1>1. CASE Refuse
  BY PackAssumption, <1>0, <1>1, ReturnType
     DEF Refuse, TypeOK, Keys, Holder, Idle, Chain, ActiveFile, Recorded
<1>2. CASE CreateFile
  BY PackAssumption, <1>0, <1>2
     DEF CreateFile, SetDir, TypeOK, Keys, Holder, Idle, Chain, ActiveFile, Recorded
<1>3. CASE CreateFails
  BY PackAssumption, <1>0, <1>3, ReturnType
     DEF CreateFails, TypeOK, Keys, Holder, Idle, Chain, ActiveFile, Recorded
<1>4. CASE PublishActive
  BY PackAssumption, <1>0, <1>4
     DEF PublishActive, DirSync, TypeOK, Keys, Holder, Idle, Chain, ActiveFile, Recorded
<1>5. CASE HeaderFails
  BY PackAssumption, <1>0, <1>5, ReturnType
     DEF HeaderFails, SetDir, TypeOK, Keys, Holder, Idle, Chain, ActiveFile, Recorded
<1>6. CASE AlreadyActive
  BY PackAssumption, <1>0, <1>6, ReturnType
     DEF AlreadyActive, TypeOK, Keys, Holder, Idle, Chain, ActiveFile, Recorded
<1>7. CASE WriteRecord
  <2>1. mpc' \in {"putsync", "rotate"} /\ active' = active /\ mkey' = mkey /\ ~(mpc' = "rotate" /\ msync')
    BY <1>7 DEF WriteRecord
  <2> QED
    BY <1>0, <1>7, <2>1, WriteRecordEffect DEF Recorded, Keys
<1>8. CASE WriteRecordFails
  BY PackAssumption, <1>0, <1>8, ReturnType
     DEF WriteRecordFails, TypeOK, Keys, Holder, Idle, Chain, ActiveFile, Recorded
<1>9. CASE PutSync
  <2>1. active \in File /\ dropped[active] = {} /\ mkey' = mkey /\ active' = active /\ body' = body
    BY <1>0, <1>9 DEF PutSync, TypeOK, Idle, Chain, ActiveFile
  <2>2. synced'[active] = Keys(active)
    BY <1>0, <1>9, <2>1 DEF PutSync, FileSync, TypeOK
  <2>3. mkey # NoKey => mkey \in Keys(active)
    BY <1>0, <1>9 DEF PutSync, Recorded, Chain
  <2> QED
    BY <2>1, <2>2, <2>3 DEF Recorded, Keys
<1>10. CASE NoRotation
  BY PackAssumption, <1>0, <1>10, ReturnType
     DEF NoRotation, TypeOK, Keys, Holder, Idle, Chain, ActiveFile, Recorded
<1>11. CASE Rotate
  BY PackAssumption, <1>0, <1>11 DEF Rotate, TypeOK, Keys, Holder, Idle, Chain, ActiveFile, Recorded
<1>12. CASE SyncActive
  BY PackAssumption, <1>0, <1>12, ReturnType
     DEF SyncActive, FileSync, TypeOK, Keys, Holder, Idle, Chain, ActiveFile, Recorded
<1>13. CASE SyncFails
  BY PackAssumption, <1>0, <1>13, ReturnType
     DEF SyncFails, FileSyncFails, Poison, TypeOK, Keys, Holder, Idle, Chain, ActiveFile,
         Recorded
<1>14. CASE WriteFooter
  BY PackAssumption, <1>0, <1>14
     DEF WriteFooter, TypeOK, Keys, Holder, Idle, Chain, ActiveFile, Recorded
<1>15. CASE WriteFooterFails
  BY PackAssumption, <1>0, <1>15, ReturnType
     DEF WriteFooterFails, Poison, TypeOK, Keys, Holder, Idle, Chain, ActiveFile, Recorded
<1>16. CASE FooterSync
  BY PackAssumption, <1>0, <1>16
     DEF FooterSync, FileSync, TypeOK, Keys, Holder, Idle, Chain, ActiveFile, Recorded
<1>17. CASE Rename
  BY PackAssumption, <1>0, <1>17
     DEF Rename, SetDir, TypeOK, Keys, Holder, Idle, Chain, ActiveFile, Recorded
<1>18. CASE Swap
  BY PackAssumption, <1>0, <1>18, ReturnType
     DEF Swap, DirSync, Poison, TypeOK, Keys, Holder, Idle, Chain, ActiveFile, Recorded
<1>19. CASE SealFails
  BY PackAssumption, <1>0, <1>19, ReturnType
     DEF SealFails, Poison, TypeOK, Keys, Holder, Idle, Chain, ActiveFile, Recorded
<1>20. ASSUME NEW w \in Writer, NEW k \in Key, BatchNext(w, k) PROVE Recorded'
  BY PackAssumption, <1>0, <1>20
     DEF BatchNext, SetWriter, TypeOK, Keys, Holder, Idle, Chain, ActiveFile, Recorded
<1>21. ASSUME NEW w \in Writer, NEW k \in Key, Put(w, k) PROVE Recorded'
  BY PackAssumption, <1>0, <1>21
     DEF Put, MayWrite, SetWriter, TypeOK, Keys, Holder, Idle, Chain, ActiveFile, Recorded
<1>22. ASSUME NEW w \in Writer, BatchStart(w) PROVE Recorded'
  BY PackAssumption, <1>0, <1>22
     DEF BatchStart, MayWrite, SetWriter, TypeOK, Keys, Holder, Idle, Chain, ActiveFile,
         Recorded
<1>23. ASSUME NEW w \in Writer, BatchFails(w) PROVE Recorded'
  BY PackAssumption, <1>0, <1>23
     DEF BatchFails, SetWriter, TypeOK, Keys, Holder, Idle, Chain, ActiveFile, Recorded
<1>24. ASSUME NEW w \in Writer, LockAppend(w) PROVE Recorded'
  BY PackAssumption, <1>0, <1>24
     DEF LockAppend, Enter, TypeOK, Keys, Holder, Idle, Chain, ActiveFile, Recorded
<1>25. ASSUME NEW w \in Writer, LockSync(w) PROVE Recorded'
  BY PackAssumption, <1>0, <1>25
     DEF LockSync, Enter, TypeOK, Keys, Holder, Idle, Chain, ActiveFile, Recorded
<1>26. ASSUME NEW L \in SUBSET Key, Compact(L) PROVE Recorded'
  BY PackAssumption, <1>0, <1>26
     DEF Compact, TypeOK, Keys, Holder, Idle, Chain, ActiveFile, Recorded
<1>27. CASE selectVictims
  BY PackAssumption, <1>0, <1>27
     DEF selectVictims, CompactReturns, Release, TypeOK, Keys, Holder, Idle, Chain,
         ActiveFile, Recorded
<1>28. CASE CopyFails
  BY PackAssumption, <1>0, <1>28
     DEF CopyFails, CompactReturns, Release, TypeOK, Keys, Holder, Idle, Chain, ActiveFile,
         Recorded
<1>29. CASE CopySync
  BY PackAssumption, <1>0, <1>29
     DEF CopySync, TypeOK, Keys, Holder, Idle, Chain, ActiveFile, Recorded
<1>30. CASE Detach
  BY PackAssumption, <1>0, <1>30 DEF Detach, TypeOK, Keys, Holder, Idle, Chain, ActiveFile, Recorded
<1>31. CASE CompactEnds
  BY PackAssumption, <1>0, <1>31
     DEF CompactEnds, CompactReturns, Release, DirSync, TypeOK, Keys, Holder, Idle, Chain,
         ActiveFile, Recorded
<1>32. ASSUME NEW k \in Key, copyLive(k) PROVE Recorded'
  BY PackAssumption, <1>0, <1>32
     DEF copyLive, TypeOK, Keys, Holder, Idle, Chain, ActiveFile, Recorded
<1>33. ASSUME NEW f \in File, Unlink(f) PROVE Recorded'
  BY PackAssumption, <1>0, <1>33
     DEF Unlink, SetDir, TypeOK, Keys, Holder, Idle, Chain, ActiveFile, Recorded
<1>34. CASE Wipe
  BY PackAssumption, <1>0, <1>34 DEF Wipe, TypeOK, Keys, Holder, Idle, Chain, ActiveFile, Recorded
<1>35. CASE WipeActive
  BY PackAssumption, <1>0, <1>35
     DEF WipeActive, WipeRemove, SetDir, TypeOK, Keys, Holder, Idle, Chain, ActiveFile,
         Recorded
<1>36. ASSUME NEW f \in File, WipeSealed(f) PROVE Recorded'
  BY PackAssumption, <1>0, <1>36
     DEF WipeSealed, WipeRemove, SetDir, TypeOK, Keys, Holder, Idle, Chain, ActiveFile,
         Recorded
<1>37. ASSUME NEW ok \in BOOLEAN, WipeEnds(ok) PROVE Recorded'
  BY PackAssumption, <1>0, <1>37
     DEF WipeEnds, DirSync, Release, TypeOK, Keys, Holder, Idle, Chain, ActiveFile, Recorded
<1>38. CASE Close
  BY PackAssumption, <1>0, <1>38
     DEF Close, Down, Release, FileSync, FileSyncFails, TypeOK, Keys, Holder, Idle, Chain,
         ActiveFile, Recorded
<1>39. CASE Kill
  BY PackAssumption, <1>0, <1>39
     DEF Kill, Down, Release, TypeOK, Keys, Holder, Idle, Chain, ActiveFile, Recorded
<1>40. CASE PowerLoss
  BY PackAssumption, <1>0, <1>40
     DEF PowerLoss, Down, Release, TypeOK, Keys, Holder, Idle, Chain, ActiveFile, Recorded
<1>41. CASE Open
  BY PackAssumption, <1>0, <1>41
     DEF Open, MayOpen, recoverActive, TypeOK, Keys, Holder, Idle, Chain, ActiveFile, Recorded
<1>42. CASE OpenRenames
  BY PackAssumption, <1>0, <1>42
     DEF OpenRenames, MayOpen, SetDir, TypeOK, Keys, Holder, Idle, Chain, ActiveFile, Recorded
<1>43. CASE UNCHANGED vars
  BY PackAssumption, <1>0, <1>43
     DEF vars, TypeOK, Keys, Holder, Idle, Chain, ActiveFile, Recorded
<1> QED
  BY <1>1, <1>2, <1>3, <1>4, <1>5, <1>6, <1>7, <1>8, <1>9, <1>10, <1>11, <1>12, <1>13, <1>14,
     <1>15, <1>16, <1>17, <1>18, <1>19, <1>20, <1>21, <1>22, <1>23, <1>24, <1>25, <1>26, <1>27,
     <1>28, <1>29, <1>30, <1>31, <1>32, <1>33, <1>34, <1>35, <1>36, <1>37, <1>38, <1>39, <1>40,
     <1>41, <1>42, <1>43
     DEF Next, Section, WriteStep, CompactStep, WipeStep, Environment

\* Victims leave the store at Detach, all at once, and no earlier.
LEMMA VictimsStep == ~ReopenDirty /\ IndInv /\ [Next]_vars => Victims'
<1> SUFFICES ASSUME ~ReopenDirty, IndInv, [Next]_vars PROVE Victims'
  OBVIOUS
<1> USE DEF diskVars, procVars, muVars, writerVars, compactVars, wipeVars, histVars
<1>0. TypeOK /\ Holder /\ Idle /\ Directories /\ Pages /\ ActiveFile /\ SealedNamed /\ SealedDurable
     /\ Attached /\ Victims
  BY DEF IndInv
<1>1. CASE Refuse
  BY PackAssumption, <1>0, <1>1, ReturnKeys
     DEF Refuse, TypeOK, Holder, Idle, Chain, ActiveFile, SealedNamed, Victims
<1>2. CASE CreateFile
  BY PackAssumption, <1>0, <1>2
     DEF CreateFile, SetDir, TypeOK, Holder, Idle, Chain, ActiveFile, SealedNamed, Victims
<1>3. CASE CreateFails
  BY PackAssumption, <1>0, <1>3, ReturnKeys
     DEF CreateFails, TypeOK, Holder, Idle, Chain, ActiveFile, SealedNamed, Victims
<1>4. CASE PublishActive
  BY PackAssumption, <1>0, <1>4
     DEF PublishActive, DirSync, TypeOK, Holder, Idle, Chain, ActiveFile, SealedNamed, Victims
<1>5. CASE HeaderFails
  BY PackAssumption, <1>0, <1>5, ReturnKeys
     DEF HeaderFails, SetDir, TypeOK, Holder, Idle, Chain, ActiveFile, SealedNamed, Victims
<1>6. CASE AlreadyActive
  BY PackAssumption, <1>0, <1>6, ReturnKeys
     DEF AlreadyActive, TypeOK, Holder, Idle, Chain, ActiveFile, SealedNamed, Victims
<1>7. CASE WriteRecord
  BY PackAssumption, <1>0, <1>7
     DEF WriteRecord, TypeOK, Holder, Idle, Chain, ActiveFile, SealedNamed, Victims
<1>8. CASE WriteRecordFails
  BY PackAssumption, <1>0, <1>8, ReturnKeys
     DEF WriteRecordFails, TypeOK, Holder, Idle, Chain, ActiveFile, SealedNamed, Victims
<1>9. CASE PutSync
  BY PackAssumption, <1>0, <1>9
     DEF PutSync, FileSync, TypeOK, Holder, Idle, Chain, ActiveFile, SealedNamed, Victims
<1>10. CASE NoRotation
  BY PackAssumption, <1>0, <1>10, ReturnKeys
     DEF NoRotation, TypeOK, Holder, Idle, Chain, ActiveFile, SealedNamed, Victims
<1>11. CASE Rotate
  BY PackAssumption, <1>0, <1>11
     DEF Rotate, TypeOK, Holder, Idle, Chain, ActiveFile, SealedNamed, Victims
<1>12. CASE SyncActive
  BY PackAssumption, <1>0, <1>12, ReturnKeys
     DEF SyncActive, FileSync, TypeOK, Holder, Idle, Chain, ActiveFile, SealedNamed, Victims
<1>13. CASE SyncFails
  BY PackAssumption, <1>0, <1>13, ReturnKeys
     DEF SyncFails, FileSyncFails, Poison, TypeOK, Holder, Idle, Chain, ActiveFile,
         SealedNamed, Victims
<1>14. CASE WriteFooter
  BY PackAssumption, <1>0, <1>14
     DEF WriteFooter, TypeOK, Holder, Idle, Chain, ActiveFile, SealedNamed, Victims
<1>15. CASE WriteFooterFails
  BY PackAssumption, <1>0, <1>15, ReturnKeys
     DEF WriteFooterFails, Poison, TypeOK, Holder, Idle, Chain, ActiveFile, SealedNamed,
         Victims
<1>16. CASE FooterSync
  BY PackAssumption, <1>0, <1>16
     DEF FooterSync, FileSync, TypeOK, Holder, Idle, Chain, ActiveFile, SealedNamed, Victims
<1>17. CASE Rename
  BY PackAssumption, <1>0, <1>17
     DEF Rename, SetDir, TypeOK, Holder, Idle, Chain, ActiveFile, SealedNamed, Victims
<1>18. CASE Swap
  BY PackAssumption, <1>0, <1>18, ReturnKeys
     DEF Swap, DirSync, Poison, TypeOK, Holder, Idle, Chain, ActiveFile, SealedNamed, Victims
<1>19. CASE SealFails
  BY PackAssumption, <1>0, <1>19, ReturnKeys
     DEF SealFails, Poison, TypeOK, Holder, Idle, Chain, ActiveFile, SealedNamed, Victims
<1>20. ASSUME NEW w \in Writer, NEW k \in Key, BatchNext(w, k) PROVE Victims'
  BY PackAssumption, <1>0, <1>20
     DEF BatchNext, SetWriter, TypeOK, Holder, Idle, Chain, ActiveFile, SealedNamed, Victims
<1>21. ASSUME NEW w \in Writer, NEW k \in Key, Put(w, k) PROVE Victims'
  BY PackAssumption, <1>0, <1>21
     DEF Put, MayWrite, SetWriter, TypeOK, Holder, Idle, Chain, ActiveFile, SealedNamed,
         Victims
<1>22. ASSUME NEW w \in Writer, BatchStart(w) PROVE Victims'
  BY PackAssumption, <1>0, <1>22
     DEF BatchStart, MayWrite, SetWriter, TypeOK, Holder, Idle, Chain, ActiveFile,
         SealedNamed, Victims
<1>23. ASSUME NEW w \in Writer, BatchFails(w) PROVE Victims'
  BY PackAssumption, <1>0, <1>23
     DEF BatchFails, SetWriter, TypeOK, Holder, Idle, Chain, ActiveFile, SealedNamed, Victims
<1>24. ASSUME NEW w \in Writer, LockAppend(w) PROVE Victims'
  BY PackAssumption, <1>0, <1>24
     DEF LockAppend, Enter, TypeOK, Holder, Idle, Chain, ActiveFile, SealedNamed, Victims
<1>25. ASSUME NEW w \in Writer, LockSync(w) PROVE Victims'
  BY PackAssumption, <1>0, <1>25
     DEF LockSync, Enter, TypeOK, Holder, Idle, Chain, ActiveFile, SealedNamed, Victims
<1>26. ASSUME NEW L \in SUBSET Key, Compact(L) PROVE Victims'
  BY PackAssumption, <1>0, <1>26
     DEF Compact, TypeOK, Holder, Idle, Chain, ActiveFile, SealedNamed, Victims
<1>27. CASE selectVictims
  BY PackAssumption, <1>0, <1>27
     DEF selectVictims, CompactReturns, Release, TypeOK, Holder, Idle, Chain, ActiveFile,
         SealedNamed, Victims
<1>28. CASE CopyFails
  BY PackAssumption, <1>0, <1>28
     DEF CopyFails, CompactReturns, Release, TypeOK, Holder, Idle, Chain, ActiveFile,
         SealedNamed, Victims
<1>29. CASE CopySync
  BY PackAssumption, <1>0, <1>29
     DEF CopySync, TypeOK, Holder, Idle, Chain, ActiveFile, SealedNamed, Victims
<1>30. CASE Detach
  BY PackAssumption, <1>0, <1>30
     DEF Detach, TypeOK, Holder, Idle, Chain, ActiveFile, SealedNamed, Victims
<1>31. CASE CompactEnds
  BY PackAssumption, <1>0, <1>31
     DEF CompactEnds, CompactReturns, Release, DirSync, TypeOK, Holder, Idle, Chain,
         ActiveFile, SealedNamed, Victims
<1>32. ASSUME NEW k \in Key, copyLive(k) PROVE Victims'
  BY PackAssumption, <1>0, <1>32
     DEF copyLive, TypeOK, Holder, Idle, Chain, ActiveFile, SealedNamed, Victims
<1>33. ASSUME NEW f \in File, Unlink(f) PROVE Victims'
  BY PackAssumption, <1>0, <1>33
     DEF Unlink, SetDir, TypeOK, Holder, Idle, Chain, ActiveFile, SealedNamed, Victims
<1>34. CASE Wipe
  BY PackAssumption, <1>0, <1>34
     DEF Wipe, TypeOK, Holder, Idle, Chain, ActiveFile, SealedNamed, Victims
<1>35. CASE WipeActive
  BY PackAssumption, <1>0, <1>35
     DEF WipeActive, WipeRemove, SetDir, TypeOK, Holder, Idle, Chain, ActiveFile, SealedNamed,
         Victims
<1>36. ASSUME NEW f \in File, WipeSealed(f) PROVE Victims'
  BY PackAssumption, <1>0, <1>36
     DEF WipeSealed, WipeRemove, SetDir, TypeOK, Holder, Idle, Chain, ActiveFile, SealedNamed,
         Victims
<1>37. ASSUME NEW ok \in BOOLEAN, WipeEnds(ok) PROVE Victims'
  BY PackAssumption, <1>0, <1>37
     DEF WipeEnds, DirSync, Release, TypeOK, Holder, Idle, Chain, ActiveFile, SealedNamed,
         Victims
<1>38. CASE Close
  BY PackAssumption, <1>0, <1>38
     DEF Close, Down, Release, FileSync, FileSyncFails, TypeOK, Holder, Idle, Chain,
         ActiveFile, SealedNamed, Victims
<1>39. CASE Kill
  BY PackAssumption, <1>0, <1>39
     DEF Kill, Down, Release, TypeOK, Holder, Idle, Chain, ActiveFile, SealedNamed, Victims
<1>40. CASE PowerLoss
  BY PackAssumption, <1>0, <1>40
     DEF PowerLoss, Down, Release, TypeOK, Holder, Idle, Chain, ActiveFile, SealedNamed,
         Victims
<1>41. CASE Open
  BY PackAssumption, <1>0, <1>41
     DEF Open, MayOpen, recoverActive, TypeOK, Holder, Idle, Chain, ActiveFile, SealedNamed,
         Victims
<1>42. CASE OpenRenames
  BY PackAssumption, <1>0, <1>42
     DEF OpenRenames, MayOpen, SetDir, TypeOK, Holder, Idle, Chain, ActiveFile, SealedNamed,
         Victims
<1>43. CASE UNCHANGED vars
  BY PackAssumption, <1>0, <1>43
     DEF vars, TypeOK, Holder, Idle, Chain, ActiveFile, SealedNamed, Victims
<1> QED
  BY <1>1, <1>2, <1>3, <1>4, <1>5, <1>6, <1>7, <1>8, <1>9, <1>10, <1>11, <1>12, <1>13, <1>14,
     <1>15, <1>16, <1>17, <1>18, <1>19, <1>20, <1>21, <1>22, <1>23, <1>24, <1>25, <1>26, <1>27,
     <1>28, <1>29, <1>30, <1>31, <1>32, <1>33, <1>34, <1>35, <1>36, <1>37, <1>38, <1>39, <1>40,
     <1>41, <1>42, <1>43
     DEF Next, Section, WriteStep, CompactStep, WipeStep, Environment

\* Every acknowledged record keeps a durable copy in a file that every power loss leaves.
LEMMA AckedDurableStep == ~ReopenDirty /\ IndInv /\ [Next]_vars => AckedDurable'
<1> SUFFICES ASSUME ~ReopenDirty, IndInv, [Next]_vars PROVE AckedDurable'
  OBVIOUS
<1> USE DEF diskVars, procVars, muVars, writerVars, compactVars, wipeVars, histVars
<1>0. TypeOK /\ Holder /\ Idle /\ Directories /\ Pages /\ ActiveFile /\ SealedNamed /\ SealedDurable
     /\ Attached /\ Victims /\ Recorded /\ YieldedStored /\ Copied /\ AckedDurable
  BY DEF IndInv
<1>1. CASE CreateFile
  <2>1. /\ acked' = acked /\ dirStates' = dirStates \cup {dir'} /\ nextID \in File
        /\ dir' = [dir EXCEPT ![nextID] = "active"]
        /\ UNCHANGED <<up, sealed, active, cpc, victims>>
    BY <1>1 DEF CreateFile, SetDir
  <2>2. \A f \in Safe : f \in File /\ f # nextID /\ dir'[f] # "none"
    BY <1>0, <2>1 DEF Safe, Holding, TypeOK, Directories, GoodDirectory
  <2>3. \A f \in Safe : body'[f] = body[f] /\ synced'[f] = synced[f]
    BY <1>0, <1>1, <2>2 DEF CreateFile, TypeOK
  <2>4. \A f \in Safe : f \in Holding' /\ \A d \in dirStates' : d[f] # "none"
    BY <2>1, <2>2 DEF Safe, Holding
  <2> QED
    BY <1>0, <2>1, <2>3, <2>4, AckedKept
<1>2. CASE PublishActive
  <2>1. \A g \in Safe : g \in Holding' /\ \A d \in dirStates' : d[g] # "none"
    BY PackAssumption, <1>0, <1>2
       DEF PublishActive, DirSync, Safe, Holding, TypeOK, Holder, Idle, Chain, Directories,
           GoodDirectory, ActiveFile, SealedNamed, Victims
  <2> QED
    BY <1>0, <1>2, <2>1, AckedSame DEF PublishActive, DirSync
<1>3. CASE HeaderFails
  <2>1. /\ Return(FALSE) /\ mpc = "header" /\ dir' = [dir EXCEPT ![nextID - 1] = "none"]
        /\ dirStates' = dirStates \cup {dir'} /\ UNCHANGED <<up, sealed, active, body, synced>>
    BY <1>3 DEF HeaderFails, SetDir
  <2>2. acked' = acked /\ cpc' # "detach"
    BY <1>0, <2>1, ReturnKeys
  <2>3. \A f \in Safe : f \in sealed /\ dir'[f] # "none"
    BY <1>0, <2>1 DEF Safe, Holding, TypeOK, Idle, ActiveFile, SealedNamed
  <2>4. \A f \in Safe : f \in Holding' /\ \A d \in dirStates' : d[f] # "none"
    BY <2>1, <2>2, <2>3 DEF Safe, Holding
  <2> QED
    BY <1>0, <2>1, <2>2, <2>4, AckedSame
<1>4. CASE AlreadyActive
  <2>1. Return(TRUE) /\ mpc = "append" /\ UNCHANGED <<up, sealed, active, dirStates, body, synced>>
    BY <1>4 DEF AlreadyActive
  <2>2. acked' = acked /\ cpc' # "detach"
    BY <1>0, <2>1, ReturnKeys DEF Holder, Chain
  <2> QED
    BY <1>0, <2>1, <2>2, AckedSame DEF Safe, Holding
<1>5. CASE WriteRecord
  <2>1. UNCHANGED <<acked, synced, up, sealed, active, cpc, victims, dirStates>>
    BY <1>5 DEF WriteRecord
  <2>2. \A f \in Safe : f \in File /\ f \in Holding' /\ \A d \in dirStates' : d[f] # "none"
    BY <1>0, <2>1 DEF Safe, Holding, TypeOK
  <2>3. ASSUME NEW f \in Safe PROVE Solid(body[f], synced[f]) \subseteq Solid(body'[f], synced'[f])
    <3>1. f \in File /\ body[f] \in Seq(Key) /\ synced'[f] = synced[f]
      BY <1>0, <2>1, <2>2 DEF TypeOK
    <3>2. \A k \in Key : Solid(body[f], synced[f]) \subseteq Solid(Append(body[f], k), synced[f])
      BY <3>1, SolidLemma
    <3>3. body'[f] = body[f] \/ \E k \in Key : body'[f] = Append(body[f], k)
      BY <1>0, <1>5, <3>1, WriteRecordEffect
    <3> QED
      BY <3>1, <3>2, <3>3
  <2> QED
    BY <1>0, <2>1, <2>2, <2>3, AckedKept
<1>6. CASE PutSync
  <2>1. /\ UNCHANGED <<acked, body, dropped, up, sealed, active, cpc, victims, dirStates>>
        /\ active \in File /\ FileSync(active)
    BY <1>0, <1>6 DEF PutSync, TypeOK, Idle, Chain
  <2>2. \A f \in Safe : f \in File /\ f \in Holding' /\ \A d \in dirStates' : d[f] # "none"
    BY <1>0, <2>1 DEF Safe, Holding, TypeOK
  <2>3. \A f \in File : body[f] \in Seq(Key) /\ body'[f] = body[f] /\ synced[f] \subseteq synced'[f]
    BY <1>0, <2>1, FileSyncPages DEF TypeOK
  <2>4. ASSUME NEW f \in Safe PROVE Solid(body[f], synced[f]) \subseteq Solid(body'[f], synced'[f])
    <3>1. body[f] \in Seq(Key) /\ body'[f] = body[f] /\ synced[f] \subseteq synced'[f]
      BY <2>2, <2>3
    <3> QED
      BY <3>1, SolidLemma
  <2> QED
    BY <1>0, <2>1, <2>2, <2>4, AckedKept
<1>7. CASE NoRotation
  <2>1. /\ Return(TRUE) /\ mpc = "rotate" /\ UNCHANGED <<up, sealed, active, dirStates, body, synced>>
    BY <1>7 DEF NoRotation
  <2>2. cpc' # "detach" /\ up = "up" /\ active # 0
    BY <1>0, <2>1, ReturnKeys DEF Holder, Idle, Chain
  <2>3. ASSUME NEW k \in acked' \ acked
        PROVE  \E f \in Safe' : k \in Solid(body'[f], synced'[f])
    <3>1. k = mkey /\ msync /\ mkey \in Key
      BY <1>0, <2>1, <2>3, ReturnKeys DEF Chain
    <3>2. k \in Keys(active) /\ synced[active] = Keys(active)
      BY PackAssumption, <1>0, <2>1, <3>1 DEF Recorded, Chain
    <3>3. active \in Safe' /\ body[active] \in Seq(Key)
      BY <1>0, <2>1, <2>2 DEF Safe, Holding, TypeOK, ActiveFile
    <3>4. k \in Solid(body[active], synced[active])
      BY <3>2, <3>3, SolidLemma DEF Keys
    <3> QED
      BY <2>1, <3>3, <3>4
  <2>4. \A f \in Safe : f \in Holding' /\ \A d \in dirStates' : d[f] # "none"
    BY <2>1, <2>2 DEF Safe, Holding
  <2>5. \A f \in Safe : Solid(body[f], synced[f]) \subseteq Solid(body'[f], synced'[f])
    BY <2>1
  <2> QED
    BY <1>0, <2>3, <2>4, <2>5, AckedKept
<1>8. CASE SyncActive
  <2>1. /\ mpc = "sync" /\ ~failed /\ Return(TRUE)
        /\ UNCHANGED <<up, sealed, active, dirStates, body, dropped>>
        /\ IF active = 0 THEN UNCHANGED synced
           ELSE synced' = [synced EXCEPT ![active] = Keys(active) \ dropped[active]]
    BY <1>8 DEF SyncActive, FileSync
  <2>2. up = "up"
    BY <1>0, <2>1 DEF Idle
  <2>3. ASSUME NEW f \in sealed \cup ({active} \ {0})
        PROVE  /\ f \in File /\ \A d \in dirStates' : d[f] # "none"
               /\ Solid(body'[f], synced'[f]) = Keys(f)
    <3>1. f \in File /\ body[f] \in Seq(Key) /\ \A d \in dirStates' : d[f] # "none"
      BY <1>0, <2>1 DEF TypeOK, SealedDurable, ActiveFile
    <3>2. ASSUME f = active PROVE synced'[f] = Keys(f)
      <4>1. f # 0 /\ synced' = [synced EXCEPT ![f] = Keys(f) \ dropped[f]] /\ dropped[f] = {}
        BY PackAssumption, <1>0, <2>1, <3>1, <3>2 DEF ActiveFile
      <4> QED
        BY <1>0, <3>1, <4>1 DEF TypeOK
    <3>3. ASSUME f # active PROVE synced'[f] = Keys(f)
      <4>1. f \in sealed /\ synced'[f] = synced[f]
        BY <1>0, <2>1, <3>1, <3>3 DEF TypeOK
      <4> QED
        BY <1>0, <4>1 DEF SealedDurable
    <3>4. synced'[f] = ToSet(body[f])
      BY <3>2, <3>3 DEF Keys
    <3> QED
      BY <2>1, <3>1, <3>4, SolidLemma DEF Keys
  <2>4. ASSUME NEW k \in acked'
        PROVE  \E f \in Holding' \cap (sealed \cup ({active} \ {0})) : k \in Keys(f)
    <3>1. CASE cpc' = "detach"
      <4>1. cpc = "sync" /\ acked' = acked /\ victims' = victims
        BY <1>0, <2>1, <3>1, ReturnKeys
      <4>2. k \in Survivors
        BY <1>0, <4>1 DEF Holder, Copied
      <4>3. PICK f \in (sealed \ victims) \cup ({active} \ {0}) : k \in Keys(f)
        BY <4>2 DEF Survivors
      <4> QED
        BY <2>1, <2>2, <3>1, <4>1, <4>3 DEF Holding
    <3>2. CASE cpc' # "detach"
      <4>1. Holding' = sealed \cup ({active} \ {0})
        BY <2>1, <2>2, <3>2 DEF Holding
      <4>2. CASE k \in acked
        BY <1>0, <2>2, <4>1, <4>2, AckedFound
      <4>3. CASE k \notin acked
        <5>1. PICK w \in Writer : k \in wdone[w]
          BY <1>0, <2>1, <4>3, ReturnKeys DEF Chain
        <5>2. k \in Stored
          BY <1>0, <5>1 DEF YieldedStored
        <5> QED
          BY <4>1, <5>2 DEF Stored
      <4> QED
        BY <4>2, <4>3
    <3> QED
      BY <3>1, <3>2
  <2>5. ASSUME NEW k \in acked' PROVE \E f \in Safe' : k \in Solid(body'[f], synced'[f])
    <3>1. PICK f \in Holding' : f \in sealed \cup ({active} \ {0}) /\ k \in Keys(f)
      BY <2>4
    <3>2. f \in Safe' /\ k \in Solid(body'[f], synced'[f])
      BY <2>3, <3>1 DEF Safe
    <3> QED
      BY <3>2
  <2> QED
    BY <2>5 DEF AckedDurable
<1>9. CASE WriteFooter
  <2>1. \A g \in Safe : g \in Holding' /\ \A d \in dirStates' : d[g] # "none"
    BY PackAssumption, <1>0, <1>9
       DEF WriteFooter, Safe, Holding, TypeOK, Holder, Idle, Chain, Directories,
           GoodDirectory, ActiveFile, SealedNamed, Victims
  <2> QED
    BY <1>0, <1>9, <2>1, AckedSame DEF WriteFooter
<1>10. CASE FooterSync
  <2>1. /\ UNCHANGED <<acked, body, dropped, up, sealed, active, cpc, victims, dirStates>>
        /\ active \in File /\ FileSync(active)
    BY <1>0, <1>10 DEF FooterSync, TypeOK, Idle, Chain
  <2>2. \A f \in Safe : f \in File /\ f \in Holding' /\ \A d \in dirStates' : d[f] # "none"
    BY <1>0, <2>1 DEF Safe, Holding, TypeOK
  <2>3. \A f \in File : body[f] \in Seq(Key) /\ body'[f] = body[f] /\ synced[f] \subseteq synced'[f]
    BY <1>0, <2>1, FileSyncPages DEF TypeOK
  <2>4. ASSUME NEW f \in Safe PROVE Solid(body[f], synced[f]) \subseteq Solid(body'[f], synced'[f])
    <3>1. body[f] \in Seq(Key) /\ body'[f] = body[f] /\ synced[f] \subseteq synced'[f]
      BY <2>2, <2>3
    <3> QED
      BY <3>1, SolidLemma
  <2> QED
    BY <1>0, <2>1, <2>2, <2>4, AckedKept
<1>11. CASE Rename
  <2>1. \A g \in Safe : g \in Holding' /\ \A d \in dirStates' : d[g] # "none"
    BY PackAssumption, <1>0, <1>11
       DEF Rename, SetDir, Safe, Holding, TypeOK, Holder, Idle, Chain, Directories,
           GoodDirectory, ActiveFile, SealedNamed, Victims
  <2> QED
    BY <1>0, <1>11, <2>1, AckedSame DEF Rename, SetDir
<1>12. CASE Swap
  <2>1. /\ mpc = "swap" /\ dirStates' = {dir} /\ sealed' = sealed \cup {active} /\ active' = 0
        /\ UNCHANGED <<up, body, synced>> /\ \E ok \in BOOLEAN : Return(ok)
    BY <1>12 DEF Swap, DirSync, Poison
  <2>2. /\ cpc' # "detach" /\ up = "up" /\ active \in File
        /\ dir[active] = "sealed" /\ dir \in dirStates
    BY <1>0, <2>1, ReturnKeys DEF TypeOK, Holder, Idle, Chain, ActiveFile
  <2>3. \A f \in Safe : f \in Holding' /\ \A d \in dirStates' : d[f] # "none"
    BY <2>1, <2>2 DEF Safe, Holding
  <2>4. ASSUME NEW k \in acked' \ acked
        PROVE  \E f \in Safe' : k \in Solid(body'[f], synced'[f])
    <3>1. k = mkey /\ mkey \in Key
      BY <1>0, <2>1, <2>4, ReturnKeys DEF Chain
    <3>2. k \in Keys(active) /\ Keys(active) \subseteq synced[active]
      BY PackAssumption, <1>0, <2>1, <2>2, <3>1 DEF Recorded, Chain, ActiveFile, Pages, Idle
    <3>3. active \in Safe' /\ body[active] \in Seq(Key)
      BY <1>0, <2>1, <2>2 DEF Safe, Holding, TypeOK
    <3>4. k \in Solid(body[active], synced[active])
      BY <3>2, <3>3, SolidLemma DEF Keys
    <3> QED
      BY <2>1, <3>3, <3>4
  <2>5. \A f \in Safe : Solid(body[f], synced[f]) \subseteq Solid(body'[f], synced'[f])
    BY <2>1
  <2> QED
    BY <1>0, <2>3, <2>4, <2>5, AckedKept
<1>13. CASE Detach
  <2>1. \A g \in Safe : g \in Holding' /\ \A d \in dirStates' : d[g] # "none"
    BY PackAssumption, <1>0, <1>13
       DEF Detach, Safe, Holding, TypeOK, Holder, Idle, Chain, Directories, GoodDirectory,
           ActiveFile, SealedNamed, Victims
  <2> QED
    BY <1>0, <1>13, <2>1, AckedSame DEF Detach
<1>14. CASE CompactEnds
  <2>1. \A g \in Safe : g \in Holding' /\ \A d \in dirStates' : d[g] # "none"
    BY PackAssumption, <1>0, <1>14
       DEF CompactEnds, CompactReturns, Release, DirSync, Safe, Holding, TypeOK, Holder, Idle,
           Chain, Directories, GoodDirectory, ActiveFile, SealedNamed, Victims
  <2> QED
    BY <1>0, <1>14, <2>1, AckedSame DEF CompactEnds, CompactReturns, Release, DirSync
<1>15. ASSUME NEW f \in File, Unlink(f) PROVE AckedDurable'
  <2>1. \A g \in Safe : g \in Holding' /\ \A d \in dirStates' : d[g] # "none"
    BY PackAssumption, <1>0, <1>15
       DEF Unlink, SetDir, Safe, Holding, TypeOK, Holder, Idle, Chain, Directories,
           GoodDirectory, ActiveFile, SealedNamed, Victims
  <2> QED
    BY <1>0, <1>15, <2>1, AckedSame DEF Unlink, SetDir
<1>16. CASE Close
  <2>1. /\ UNCHANGED <<acked, body, dirStates>> /\ up' = "down"
        /\ \/ FileSync(active) /\ active \in File /\ UNCHANGED dropped
           \/ UNCHANGED synced
    BY <1>0, <1>16 DEF Close, Down, TypeOK
  <2>2. \A f \in Safe : f \in File /\ f \in Holding' /\ \A d \in dirStates' : d[f] # "none"
    BY <1>0, <2>1 DEF Safe, Holding, TypeOK
  <2>3. \A f \in File : body[f] \in Seq(Key) /\ body'[f] = body[f] /\ synced[f] \subseteq synced'[f]
    BY <1>0, <2>1, FileSyncPages DEF TypeOK
  <2>4. ASSUME NEW f \in Safe PROVE Solid(body[f], synced[f]) \subseteq Solid(body'[f], synced'[f])
    <3>1. body[f] \in Seq(Key) /\ body'[f] = body[f] /\ synced[f] \subseteq synced'[f]
      BY <2>2, <2>3
    <3> QED
      BY <3>1, SolidLemma
  <2> QED
    BY <1>0, <2>1, <2>2, <2>4, AckedKept
<1>17. CASE PowerLoss
  <2>1. acked' = acked /\ up' = "down"
    BY <1>17 DEF PowerLoss, Down
  <2>2. \A f \in Safe : f \in File /\ f \in Holding' /\ \A d \in dirStates' : d[f] # "none"
    BY <1>0, <1>17, <2>1, PowerLossEffect DEF Safe, Holding, TypeOK
  <2>3. ASSUME NEW f \in Safe PROVE Solid(body[f], synced[f]) \subseteq Solid(body'[f], synced'[f])
    <3>1. /\ body'[f] \in Seq(Key) /\ synced'[f] = ToSet(body'[f])
          /\ Solid(body[f], synced[f]) \subseteq ToSet(body'[f])
      BY <1>0, <1>17, <2>2, PowerLossEffect
    <3> QED
      BY <3>1, SolidLemma
  <2> QED
    BY <1>0, <2>1, <2>2, <2>3, AckedKept
<1>18. CASE Open
  <2>1. cpc = "idle" /\ up = "down" /\ dir \in dirStates
    BY <1>0, <1>18 DEF Open, MayOpen, Idle, Holder, TypeOK
  <2>2. /\ up' = "up" /\ cpc' = cpc
        /\ \A f \in File : dir'[f] = "active" => f = active'
        /\ \A f \in File : dir'[f] = "sealed" => f \in sealed'
        /\ \A f \in File : dir'[f] = "none" => dir[f] = "none"
        /\ \A f \in File : dir[f] # "none" => \A d \in dirStates' : d[f] # "none"
        /\ UNCHANGED <<acked, body, synced>>
    BY <1>0, <1>18, OpenEffect
  <2>3. ASSUME NEW f \in Safe
        PROVE  f \in Holding' /\ \A d \in dirStates' : d[f] # "none"
    <3>1. f \in File /\ dir[f] # "none"
      BY <2>1 DEF Safe, Holding
    <3>2. dir'[f] \in {"none", "active", "sealed"}
      BY <1>0, <1>18, <3>1, TypeStep DEF TypeOK
    <3> QED
      BY PackAssumption, <2>1, <2>2, <3>1, <3>2 DEF Holding
  <2> QED
    BY <1>0, <2>2, <2>3, AckedSame
<1>19. CASE OpenRenames
  <2>1. \A g \in Safe : g \in Holding' /\ \A d \in dirStates' : d[g] # "none"
    BY PackAssumption, <1>0, <1>19
       DEF OpenRenames, MayOpen, SetDir, Safe, Holding, TypeOK, Holder, Idle, Chain,
           Directories, GoodDirectory, ActiveFile, SealedNamed, Victims
  <2> QED
    BY <1>0, <1>19, <2>1, AckedSame DEF OpenRenames, MayOpen, SetDir
<1>20. CASE Rotate
  <2>1. UNCHANGED <<up, cpc, victims, sealed, active, dirStates, body, synced, acked>>
    BY <1>20 DEF Rotate
  <2> QED
    BY <1>0, <2>1 DEF AckedDurable, Safe, Holding
<1>21. CASE (\E w \in Writer, k \in Key : BatchNext(w, k)) \/ (\E w \in Writer, k \in Key :
          Put(w, k)) \/ (\E w \in Writer : BatchStart(w)) \/ (\E w \in Writer : BatchFails(w))
          \/ (\E w \in Writer : LockAppend(w)) \/ (\E w \in Writer : LockSync(w)) \/ (\E k \in
          Key : copyLive(k))
  <2>1. UNCHANGED <<up, cpc, victims, sealed, active, dirStates, body, synced, acked>>
    BY <1>21
       DEF BatchNext, SetWriter, Put, MayWrite, BatchStart, BatchFails, LockAppend, Enter,
           LockSync, copyLive
  <2> QED
    BY <1>0, <2>1 DEF AckedDurable, Safe, Holding
<1>22. CASE Wipe \/ WipeActive \/ (\E f \in File : WipeSealed(f)) \/ (\E ok \in BOOLEAN :
          WipeEnds(ok))
  BY <1>0, <1>22 DEF Wipe, WipeActive, WipeSealed, WipeEnds, Idle, AckedDurable
<1>23. CASE Refuse \/ CreateFails \/ WriteRecordFails \/ SyncFails \/ WriteFooterFails \/
          SealFails
  <2>1. /\ Return(FALSE) /\ mpc \notin {"free", "compact", "wipe"}
        /\ UNCHANGED <<up, sealed, active, dirStates, body, synced>>
    BY <1>23
       DEF Refuse, CreateFails, WriteRecordFails, SyncFails, FileSyncFails, Poison,
           WriteFooterFails, SealFails, Idle, Chain
  <2>2. acked' = acked /\ cpc' # "detach"
    BY <1>0, <2>1, ReturnKeys
  <2> QED
    BY <1>0, <2>1, <2>2, AckedSame DEF Safe, Holding
<1>24. CASE (\E L \in SUBSET Key : Compact(L)) \/ selectVictims \/ CopyFails \/ CopySync \/
          Kill
  <2>1. /\ acked' \subseteq acked /\ UNCHANGED <<body, synced, dirStates>>
        /\ \/ up' # "up"
           \/ UNCHANGED <<up, sealed, active>> /\ cpc' # "detach"
    BY <1>24 DEF Compact, selectVictims, CompactReturns, Release, CopyFails, CopySync, Kill, Down
  <2> QED
    BY <1>0, <2>1, AckedSame DEF Safe, Holding, TypeOK
<1>25. CASE UNCHANGED vars
  BY <1>0, <1>25 DEF vars, AckedDurable, Safe, Holding
<1> QED
  BY <1>1, <1>2, <1>3, <1>4, <1>5, <1>6, <1>7, <1>8, <1>9, <1>10, <1>11, <1>12, <1>13, <1>14,
     <1>15, <1>16, <1>17, <1>18, <1>19, <1>20, <1>21, <1>22, <1>23, <1>24, <1>25
     DEF Next, Section, WriteStep, CompactStep, WipeStep, Environment

\* What a batch has yielded stays stored until its writer is answered.
LEMMA YieldedStoredStep == ~ReopenDirty /\ IndInv /\ [Next]_vars => YieldedStored'
<1> SUFFICES ASSUME ~ReopenDirty, IndInv, [Next]_vars PROVE YieldedStored'
  OBVIOUS
<1> USE DEF diskVars, procVars, muVars, writerVars, compactVars, wipeVars, histVars
<1>0. TypeOK /\ Holder /\ Idle /\ Directories /\ Pages /\ ActiveFile /\ SealedNamed /\ SealedDurable
     /\ Attached /\ Victims /\ Recorded /\ YieldedStored
  BY DEF IndInv
<1>1. CASE CreateFile
  <2>1. /\ UNCHANGED <<sealed, active, wdone>> /\ active = 0 /\ nextID \in File
        /\ body' = [body EXCEPT ![nextID] = <<>>]
    BY <1>1 DEF CreateFile
  <2>2. \A f \in sealed : f # nextID /\ f \in File
    BY <1>0, <2>1 DEF TypeOK, Directories, GoodDirectory, SealedNamed
  <2>3. \A f \in sealed : body'[f] = body[f]
    BY <1>0, <2>1, <2>2 DEF TypeOK
  <2>4. Stored \subseteq Stored'
    BY <2>1, <2>3, StoredKept
  <2> QED
    BY <1>0, <2>1, <2>4 DEF YieldedStored
<1>2. CASE PublishActive
  <2>1. UNCHANGED <<sealed, body, wdone>> /\ active = 0
    BY <1>0, <1>2 DEF PublishActive, Idle
  <2>2. Stored \subseteq Stored'
    BY <2>1, StoredKept
  <2> QED
    BY <1>0, <2>1, <2>2 DEF YieldedStored
<1>3. CASE AlreadyActive
  <2>1. /\ Return(TRUE) /\ mpc = "append" /\ active # 0 /\ mkey \in Keys(active)
        /\ UNCHANGED <<sealed, active, body>>
    BY <1>3 DEF AlreadyActive
  <2>2. Stored' = Stored /\ mkey \in Stored
    BY <2>1 DEF Stored, Keys
  <2>3. \A w \in Writer : wdone'[w] \subseteq wdone[w] \cup {mkey}
    BY <1>0, <2>1, ReturnKeys
  <2> QED
    BY <1>0, <2>2, <2>3 DEF YieldedStored
<1>4. CASE WriteRecord
  <2>1. UNCHANGED <<sealed, active, wdone>>
    BY <1>4 DEF WriteRecord
  <2>2. \A f \in File : ToSet(body[f]) \subseteq ToSet(body'[f])
    BY <1>0, <1>4, WriteRecordEffect
  <2>3. Stored \subseteq Stored'
    BY <1>0, <2>1, <2>2, StoredKept DEF TypeOK
  <2> QED
    BY <1>0, <2>1, <2>3 DEF YieldedStored
<1>5. CASE NoRotation
  <2>1. /\ Return(TRUE) /\ mpc = "rotate" /\ UNCHANGED <<sealed, active, body>>
    BY <1>5 DEF NoRotation
  <2>2. Stored' = Stored /\ (mkey \in Key => mkey \in Stored)
    BY PackAssumption, <1>0, <2>1 DEF Stored, Keys, Recorded, Idle, Chain
  <2>3. \A w \in Writer : \/ wdone'[w] \subseteq wdone[w]
                          \/ mkey \in Key /\ wdone'[w] = wdone[w] \cup {mkey}
    BY <1>0, <2>1, ReturnKeys
  <2> QED
    BY <1>0, <2>2, <2>3 DEF YieldedStored
<1>6. CASE SyncActive
  <2>1. /\ Return(TRUE) /\ mpc = "sync" /\ UNCHANGED <<sealed, active, body>>
    BY <1>6 DEF SyncActive
  <2>2. Stored' = Stored
    BY <2>1 DEF Stored, Keys
  <2>3. \A w \in Writer : wdone'[w] \subseteq wdone[w]
    BY <1>0, <2>1, ReturnKeys
  <2> QED
    BY <1>0, <2>2, <2>3 DEF YieldedStored
<1>7. CASE Swap
  <2>1. /\ mpc = "swap" /\ sealed' = sealed \cup {active} /\ active' = 0 /\ body' = body
        /\ \E ok \in BOOLEAN : Return(ok)
    BY <1>7 DEF Swap, Poison
  <2>2. Stored \subseteq Stored'
    BY <2>1, StoredKept
  <2>3. mkey \in Key => mkey \in Stored'
    BY PackAssumption, <1>0, <2>1 DEF Stored, Keys, Recorded, Chain
  <2>4. \A w \in Writer : \/ wdone'[w] \subseteq wdone[w]
                          \/ mkey \in Key /\ wdone'[w] = wdone[w] \cup {mkey}
    BY <1>0, <2>1, ReturnKeys
  <2> QED
    BY <1>0, <2>2, <2>3, <2>4 DEF YieldedStored
<1>8. ASSUME NEW w \in Writer, NEW k \in Key, BatchNext(w, k) PROVE YieldedStored'
  <2>1. UNCHANGED <<sealed, active, body>>
    BY <1>8 DEF BatchNext
  <2>2. \A v \in Writer : wdone'[v] \subseteq wdone[v] \cup ({k} \cap Stored)
    BY <1>0, <1>8 DEF BatchNext, SetWriter, TypeOK
  <2>3. Stored' = Stored
    BY <2>1 DEF Stored, Keys
  <2> QED
    BY <1>0, <2>2, <2>3 DEF YieldedStored
<1>9. CASE Detach
  <2>1. \A w \in Writer : wdone'[w] = {}
    BY <1>0, <1>9 DEF Detach, Holder
  <2> QED
    BY <2>1 DEF YieldedStored
<1>10. CASE Open
  <2>1. \A w \in Writer : wdone'[w] = {}
    BY <1>0, <1>10 DEF Open, MayOpen, Idle, Holder
  <2> QED
    BY <2>1 DEF YieldedStored
<1>11. CASE PutSync \/ Rotate \/ WriteFooter \/ FooterSync \/ Rename
  <2>1. UNCHANGED <<wdone, sealed, active, body>>
    BY <1>11 DEF PutSync, FileSync, Rotate, WriteFooter, FooterSync, Rename, SetDir
  <2> QED
    BY <1>0, <2>1 DEF YieldedStored, Stored, Keys
<1>12. CASE (\E w \in Writer : LockAppend(w)) \/ (\E w \in Writer : LockSync(w)) \/ (\E L \in
          SUBSET Key : Compact(L)) \/ selectVictims \/ CopyFails \/ CopySync \/ CompactEnds \/
          (\E k \in Key : copyLive(k)) \/ (\E f \in File : Unlink(f)) \/ WipeActive \/ (\E f
          \in File : WipeSealed(f)) \/ (\E ok \in BOOLEAN : WipeEnds(ok)) \/ OpenRenames
  <2>1. UNCHANGED <<wdone, sealed, active, body>>
    BY <1>12
       DEF LockAppend, Enter, LockSync, Compact, selectVictims, CompactReturns, Release,
           CopyFails, CopySync, CompactEnds, DirSync, copyLive, Unlink, SetDir, WipeActive,
           WipeRemove, WipeSealed, WipeEnds, OpenRenames, MayOpen
  <2> QED
    BY <1>0, <2>1 DEF YieldedStored, Stored, Keys
<1>13. CASE Refuse \/ CreateFails \/ WriteRecordFails \/ SyncFails \/ WriteFooterFails \/
          SealFails \/ HeaderFails
  <2>1. /\ Return(FALSE) /\ mpc \notin {"free", "compact", "wipe"}
        /\ UNCHANGED <<sealed, active, body>>
    BY <1>13
       DEF Refuse, CreateFails, WriteRecordFails, SyncFails, FileSyncFails, Poison,
           WriteFooterFails, SealFails, HeaderFails, SetDir, Idle, Chain
  <2>2. \A w \in Writer : wdone'[w] \subseteq wdone[w]
    BY <1>0, <2>1, ReturnKeys
  <2>3. Stored' = Stored
    BY <2>1 DEF Stored, Keys
  <2> QED
    BY <1>0, <2>2, <2>3 DEF YieldedStored
<1>14. CASE (\E w \in Writer : BatchStart(w)) \/ (\E w \in Writer : BatchFails(w)) \/ (\E w
          \in Writer, k \in Key : Put(w, k))
  <2>0. UNCHANGED <<sealed, active, body>> /\ \E w \in Writer : wdone' = [wdone EXCEPT ![w] = {}]
    BY <1>14 DEF BatchStart, BatchFails, Put, SetWriter
  <2>1. UNCHANGED <<sealed, active, body>> /\ \A w \in Writer : wdone'[w] \subseteq wdone[w]
    BY <1>0, <2>0 DEF TypeOK
  <2>2. Stored' = Stored
    BY <2>1 DEF Stored, Keys
  <2> QED
    BY <1>0, <2>1, <2>2 DEF YieldedStored
<1>15. CASE Wipe \/ Close \/ Kill \/ PowerLoss
  <2>1. wdone' = [w \in Writer |-> {}]
    BY <1>15 DEF Wipe, Close, Kill, PowerLoss, Down
  <2> QED
    BY <2>1 DEF YieldedStored
<1>16. CASE UNCHANGED vars
  BY <1>0, <1>16 DEF vars, YieldedStored, Stored, Keys
<1> QED
  BY <1>1, <1>2, <1>3, <1>4, <1>5, <1>6, <1>7, <1>8, <1>9, <1>10, <1>11, <1>12, <1>13, <1>14,
     <1>15, <1>16
     DEF Next, Section, WriteStep, CompactStep, WipeStep, Environment

\* Compact loses no acknowledged record: selectVictims queues it or a survivor has it, and it
\* leaves the queue when a survivor does.
LEMMA CopiedStep == ~ReopenDirty /\ IndInv /\ [Next]_vars => Copied'
<1> SUFFICES ASSUME ~ReopenDirty, IndInv, [Next]_vars PROVE Copied'
  OBVIOUS
<1> USE DEF diskVars, procVars, muVars, writerVars, compactVars, wipeVars, histVars
<1>0. TypeOK /\ Holder /\ Idle /\ Directories /\ Pages /\ ActiveFile /\ SealedNamed /\ SealedDurable
     /\ Attached /\ Victims /\ Recorded /\ YieldedStored /\ Copied /\ AckedDurable
  BY DEF IndInv
<1>1. CASE CreateFile
  <2>1. /\ UNCHANGED <<sealed, active, acked, compactVars>> /\ active = 0 /\ nextID \in File
        /\ body' = [body EXCEPT ![nextID] = <<>>]
    BY <1>1 DEF CreateFile
  <2>2. \A f \in sealed : f # nextID /\ f \in File
    BY <1>0, <2>1 DEF TypeOK, Directories, GoodDirectory, SealedNamed
  <2>3. \A f \in sealed : body'[f] = body[f]
    BY <1>0, <2>1, <2>2 DEF TypeOK
  <2>4. Survivors \subseteq Survivors'
    BY <2>1, <2>3, SurvivorsKept
  <2> QED
    BY <1>0, <2>1, <2>4 DEF Copied
<1>2. CASE PublishActive
  <2>1. UNCHANGED <<sealed, body, acked, compactVars>> /\ active = 0
    BY <1>0, <1>2 DEF PublishActive, Idle
  <2>2. Survivors \subseteq Survivors'
    BY <2>1, SurvivorsKept
  <2> QED
    BY <1>0, <2>1, <2>2 DEF Copied
<1>3. CASE AlreadyActive
  <2>1. /\ Return(TRUE) /\ mpc = "append" /\ active # 0 /\ mkey \in Keys(active)
        /\ UNCHANGED <<sealed, active, body>>
    BY <1>3 DEF AlreadyActive
  <2>4. \/ cpc' = "idle"
        \/ /\ cpc = "copy" /\ cpc' = "copy" /\ UNCHANGED <<acked, live, victims>>
           /\ pending' = pending \ {mkey} /\ mkey \in Key
        \/ cpc # "idle" /\ cpc' \notin {"idle", "copy", "sync"} /\ UNCHANGED <<acked, live>>
    BY <1>0, <2>1, ReturnKeys DEF Holder, TypeOK, Chain
  <2>5. CASE cpc = "copy" /\ cpc' = "copy"
    <3>1. Survivors \subseteq Survivors' /\ mkey \in Survivors'
      BY <2>1, <2>4, <2>5 DEF Survivors, Keys
    <3> QED
      BY <1>0, <2>4, <2>5, <3>1 DEF Copied
  <2> QED
    BY <1>0, <2>4, <2>5 DEF Copied
<1>4. CASE WriteRecord
  <2>1. UNCHANGED <<sealed, active, acked, compactVars>>
    BY <1>4 DEF WriteRecord
  <2>2. \A f \in File : ToSet(body[f]) \subseteq ToSet(body'[f])
    BY <1>0, <1>4, WriteRecordEffect
  <2>3. Survivors \subseteq Survivors'
    BY <1>0, <2>1, <2>2, SurvivorsKept DEF TypeOK
  <2> QED
    BY <1>0, <2>1, <2>3 DEF Copied
<1>5. CASE NoRotation
  <2>1. /\ Return(TRUE) /\ mpc = "rotate" /\ UNCHANGED <<sealed, active, body>>
    BY <1>5 DEF NoRotation
  <2>2. active # 0 /\ (mkey \in Key => mkey \in Keys(active))
    BY PackAssumption, <1>0, <2>1 DEF Recorded, Idle, Chain
  <2>4. \/ cpc' = "idle"
        \/ /\ cpc = "copy" /\ cpc' = "copy" /\ UNCHANGED <<acked, live, victims>>
           /\ pending' = pending \ {mkey} /\ mkey \in Key
        \/ cpc # "idle" /\ cpc' \notin {"idle", "copy", "sync"} /\ UNCHANGED <<acked, live>>
    BY <1>0, <2>1, ReturnKeys DEF Holder, TypeOK, Chain
  <2>5. CASE cpc = "copy" /\ cpc' = "copy"
    <3>1. Survivors \subseteq Survivors' /\ mkey \in Survivors'
      BY <2>1, <2>2, <2>4, <2>5 DEF Survivors, Keys
    <3> QED
      BY <1>0, <2>4, <2>5, <3>1 DEF Copied
  <2> QED
    BY <1>0, <2>4, <2>5 DEF Copied
<1>6. CASE SyncActive
  <2>1. Return(TRUE) /\ mpc = "sync"
    BY <1>6 DEF SyncActive
  <2>2. \/ cpc' = "idle"
        \/ cpc # "idle" /\ cpc' \notin {"idle", "copy", "sync"} /\ UNCHANGED <<acked, live>>
    BY <1>0, <2>1, ReturnKeys DEF Holder, Chain
  <2> QED
    BY <1>0, <2>2 DEF Copied
<1>7. CASE Swap
  <2>1. /\ mpc = "swap" /\ sealed' = sealed \cup {active} /\ active' = 0 /\ body' = body
        /\ \E ok \in BOOLEAN : Return(ok)
    BY <1>7 DEF Swap, Poison
  <2>2. active # 0 /\ active \notin sealed /\ (mkey \in Key => mkey \in Keys(active))
    BY PackAssumption, <1>0, <2>1 DEF Recorded, Idle, Chain, ActiveFile
  <2>4. \/ cpc' = "idle"
        \/ /\ cpc = "copy" /\ cpc' = "copy" /\ UNCHANGED <<acked, live, victims>>
           /\ pending' = pending \ {mkey} /\ mkey \in Key
        \/ cpc # "idle" /\ cpc' \notin {"idle", "copy", "sync"} /\ UNCHANGED <<acked, live>>
    BY <1>0, <2>1, ReturnKeys DEF Holder, TypeOK, Chain
  <2>5. CASE cpc = "copy" /\ cpc' = "copy"
    <3>0. active \notin victims' /\ victims' = victims
      BY <1>0, <2>2, <2>4, <2>5 DEF Victims
    <3>1. Survivors \subseteq Survivors' /\ mkey \in Survivors'
      BY <2>1, <2>2, <2>4, <2>5, <3>0 DEF Survivors, Keys
    <3> QED
      BY <1>0, <2>4, <2>5, <3>1 DEF Copied
  <2> QED
    BY <1>0, <2>4, <2>5 DEF Copied
<1>8. ASSUME NEW L \in SUBSET Key, Compact(L) PROVE Copied'
  BY <1>0, <1>8 DEF Compact, Copied, Survivors, Keys
<1>9. CASE selectVictims
  <2>1. PICK V \in SUBSET sealed :
          \/ cpc' = "idle"
          \/ /\ cpc' = "copy" /\ victims' = V /\ live' = live
             /\ pending' = (UNION {Keys(f) : f \in V}) \cap live
    BY <1>9 DEF selectVictims, CompactReturns
  <2>2. cpc = "select" /\ up = "up" /\ UNCHANGED <<acked, sealed, active, body>>
    BY <1>0, <1>9 DEF selectVictims, Idle
  <2>3. acked \subseteq live
    BY <1>0, <2>2 DEF Copied
  <2>4. CASE cpc' = "copy"
    <3>1. ASSUME NEW k \in acked PROVE k \in pending' \cup Survivors'
      <4>1. PICK f \in sealed \cup ({active} \ {0}) : k \in Keys(f)
        BY <1>0, <2>2, AckedFound
      <4>2. CASE f \in V
        BY <2>1, <2>3, <2>4, <4>1, <4>2
      <4>3. CASE f \notin V
        BY <2>1, <2>2, <2>4, <4>1, <4>3 DEF Survivors, Keys
      <4> QED
        BY <4>2, <4>3
    <3> QED
      BY <2>1, <2>2, <2>3, <2>4, <3>1 DEF Copied
  <2> QED
    BY <2>1, <2>4 DEF Copied
<1>10. CASE CopySync
  <2>1. cpc = "copy" /\ UNCHANGED <<acked, live, pending, victims, sealed, active, body>>
    BY <1>10 DEF CopySync
  <2>2. Survivors' = Survivors
    BY <2>1 DEF Survivors, Keys
  <2> QED
    BY <1>0, <2>1, <2>2 DEF Copied
<1>11. CASE Detach
  BY <1>0, <1>11 DEF Detach, Copied, Survivors, Keys
<1>12. ASSUME NEW k \in Key, copyLive(k) PROVE Copied'
  <2>1. cpc = "copy" /\ UNCHANGED <<acked, live, cpc, victims, sealed, active, body>>
    BY <1>12 DEF copyLive
  <2>2. Survivors' = Survivors
    BY <2>1 DEF Survivors, Keys
  <2>3. pending' = pending \/ (k \in Survivors /\ pending' = pending \ {k})
    BY <1>12 DEF copyLive
  <2> QED
    BY <1>0, <2>1, <2>2, <2>3 DEF Copied
<1>13. ASSUME NEW f \in File, Unlink(f) PROVE Copied'
  BY <1>0, <1>13 DEF Unlink, SetDir, Copied, Survivors, Keys
<1>14. CASE PutSync \/ Rotate \/ WriteFooter \/ FooterSync \/ Rename
  <2>1. UNCHANGED <<cpc, acked, live, pending, victims, sealed, active, body>>
    BY <1>14 DEF PutSync, FileSync, Rotate, WriteFooter, FooterSync, Rename, SetDir
  <2> QED
    BY <1>0, <2>1 DEF Copied, Survivors, Keys
<1>15. CASE (\E w \in Writer, k \in Key : BatchNext(w, k)) \/ (\E w \in Writer, k \in Key :
          Put(w, k)) \/ (\E w \in Writer : BatchStart(w)) \/ (\E w \in Writer : BatchFails(w))
          \/ (\E w \in Writer : LockAppend(w)) \/ (\E w \in Writer : LockSync(w)) \/
          WipeActive \/ (\E f \in File : WipeSealed(f)) \/ (\E ok \in BOOLEAN : WipeEnds(ok))
          \/ OpenRenames
  <2>1. UNCHANGED <<cpc, acked, live, pending, victims, sealed, active, body>>
    BY <1>15
       DEF BatchNext, SetWriter, Put, MayWrite, BatchStart, BatchFails, LockAppend, Enter,
           LockSync, WipeActive, WipeRemove, SetDir, WipeSealed, WipeEnds, DirSync, Release,
           OpenRenames, MayOpen
  <2> QED
    BY <1>0, <2>1 DEF Copied, Survivors, Keys
<1>16. CASE Refuse \/ CreateFails \/ WriteRecordFails \/ SyncFails \/ WriteFooterFails \/
          SealFails \/ HeaderFails
  <2>1. /\ Return(FALSE) /\ mpc \notin {"free", "compact", "wipe"}
        /\ UNCHANGED <<up>>
    BY <1>16
       DEF Refuse, CreateFails, WriteRecordFails, SyncFails, FileSyncFails, Poison,
           WriteFooterFails, SealFails, HeaderFails, SetDir, Idle, Chain
  <2>2. cpc' = "idle"
    BY <1>0, <2>1, ReturnKeys
  <2> QED
    BY <2>2 DEF Copied
<1>17. CASE Wipe \/ Close \/ Kill \/ PowerLoss \/ Open \/ CopyFails \/ CompactEnds
  <2>1. cpc' = "idle"
    BY <1>0, <1>17
       DEF Wipe, Close, Kill, PowerLoss, Open, MayOpen, CopyFails, CompactEnds, CompactReturns,
           Down, Idle, Holder
  <2> QED
    BY <2>1 DEF Copied
<1>18. CASE UNCHANGED vars
  BY <1>0, <1>18 DEF vars, Copied, Survivors, Keys
<1> QED
  BY <1>1, <1>2, <1>3, <1>4, <1>5, <1>6, <1>7, <1>8, <1>9, <1>10, <1>11, <1>12, <1>13, <1>14,
     <1>15, <1>16, <1>17, <1>18
     DEF Next, Section, WriteStep, CompactStep, WipeStep, Environment

----------------------------------------------------------------------------
(* The theorems.                                                            *)

\* Open accepts every directory that the invariant allows.
LEMMA OpenStep == IndInv /\ [Next]_vars => OpenNeverCorrupt'
<1> SUFFICES ASSUME IndInv, [Next]_vars PROVE up' # "corrupt"
  BY DEF OpenNeverCorrupt
<1>0. TypeOK /\ Directories /\ up # "corrupt"
  BY DEF IndInv, OpenNeverCorrupt
<1>1. CASE Open
  BY <1>0, <1>1, LoadSucceeds DEF Open
<1>2. CASE Close \/ Kill \/ PowerLoss
  BY <1>2 DEF Close, Kill, PowerLoss, Down
<1>3. CASE UNCHANGED up
  BY <1>0, <1>3
<1> QED
  <2>1. Section => UNCHANGED up
    BY DEF Section, Refuse, CreateFile, CreateFails, PublishActive, HeaderFails, AlreadyActive,
           WriteRecord, WriteRecordFails, PutSync, NoRotation, Rotate, SyncActive, SyncFails,
           WriteFooter, WriteFooterFails, FooterSync, Rename, Swap, SealFails, procVars
  <2>2. (\E w \in Writer : WriteStep(w)) => UNCHANGED up
    BY DEF WriteStep, BatchNext, Put, BatchStart, BatchFails, LockAppend, LockSync, procVars
  <2>3. CompactStep => UNCHANGED up
    BY DEF CompactStep, Compact, selectVictims, CopyFails, CopySync, Detach, CompactEnds,
           copyLive, Unlink, procVars
  <2>4. WipeStep => UNCHANGED up
    BY DEF WipeStep, Wipe, WipeActive, WipeSealed, WipeEnds, procVars
  <2>5. OpenRenames \/ UNCHANGED vars => UNCHANGED up
    BY DEF OpenRenames, vars, procVars
  <2> QED
    BY <1>1, <1>2, <1>3, <2>1, <2>2, <2>3, <2>4, <2>5 DEF Next, Environment

\* An empty store has nothing to lose.
LEMMA PackInit == Init => IndInv
<1> SUFFICES ASSUME Init PROVE IndInv
  OBVIOUS
<1> USE PackAssumption
<1>1. TypeOK
  <2>1. <<>> \in Seq(Key) /\ 1 \in Nat \ {0}
    OBVIOUS
  <2>2. /\ junk \in [File -> BOOLEAN] /\ wapp \in [Writer -> BOOLEAN]
        /\ failed \in BOOLEAN /\ msync \in BOOLEAN /\ werr \in BOOLEAN
    BY Zenon DEF Init
  <2> QED
    BY <2>1, <2>2 DEF Init, TypeOK
<1>2. Holder
  BY DEF Init, Holder, Chain
<1>3. Idle
  BY DEF Init, Idle, Chain
<1>4. Directories /\ SealedNamed /\ SealedDurable /\ Attached /\ ActiveFile
  BY DEF Init, Directories, GoodDirectory, SealedNamed, SealedDurable, Attached, ActiveFile
<1>5. Pages
  BY DEF Init, Pages, Keys
<1>6. Recorded /\ YieldedStored /\ Victims /\ Copied
  BY DEF Init, Recorded, YieldedStored, Victims, Copied, Chain
<1>7. AckedDurable /\ OpenNeverCorrupt
  BY DEF Init, AckedDurable, OpenNeverCorrupt
<1> QED
  BY <1>1, <1>2, <1>3, <1>4, <1>5, <1>6, <1>7 DEF IndInv

\* Every step of a store that is opened over a clean page cache only keeps the invariant.
LEMMA PackStep == ~ReopenDirty /\ IndInv /\ [Next]_vars => IndInv'
BY TypeStep, HolderStep, IdleStep, DirectoriesStep, PagesStep, ActiveFileStep, SealedNamedStep,
   SealedDurableStep, AttachedStep, RecordedStep, YieldedStoredStep, VictimsStep, CopiedStep,
   AckedDurableStep, OpenStep
   DEF IndInv

\* The invariant holds throughout.
THEOREM PackInvariant == ~ReopenDirty => (Spec => []IndInv)
<1> SUFFICES ASSUME ~ReopenDirty PROVE Spec => []IndInv
  OBVIOUS
<1>1. Init => IndInv
  BY PackInit
<1>2. IndInv /\ [Next]_vars => IndInv'
  BY PackStep
<1> QED
  BY <1>1, <1>2, PTL DEF Spec

\* Every variable keeps its type, and the directory the process sees is always one
\* that a power loss may leave.
THEOREM PackTypeCorrect == ~ReopenDirty => (Spec => []TypeOK)
<1> SUFFICES ASSUME ~ReopenDirty PROVE Spec => []TypeOK
  OBVIOUS
<1>1. IndInv => TypeOK
  BY DEF IndInv
<1>2. Spec => []IndInv
  BY PackInvariant
<1> QED
  BY <1>1, <1>2, PTL

\* What WriteBatch or Put acknowledged is found by every later session, whatever calls
\* failed, however often the process was killed or the machine lost power in between,
\* and whatever was sealed and compacted, as long as a compaction was told to keep it
\* and the store is not reopened over a dirty page cache.
THEOREM AckedAlwaysStored == ~ReopenDirty => (Spec => []AckedStored)
<1> SUFFICES ASSUME ~ReopenDirty PROVE Spec => []AckedStored
  OBVIOUS
<1>1. IndInv => AckedStored
  <2> SUFFICES ASSUME IndInv, up = "up", NEW k \in acked PROVE k \in Stored
    BY DEF AckedStored
  <2>1. PICK f \in sealed \cup ({active} \ {0}) : k \in Keys(f)
    BY AckedFound DEF IndInv
  <2> QED
    BY <2>1 DEF Stored
<1>2. Spec => []IndInv
  BY PackInvariant
<1> QED
  BY <1>1, <1>2, PTL

\* load never refuses the directory of a store that is not reopened over a dirty page
\* cache: failed calls, kills and power losses leave one .seg.active at most, and a
\* footer in every .seg.  Not so when recoverActive renames a file whose footer is in
\* the page cache only.
THEOREM NeverCorrupt == ~ReopenDirty => (Spec => []OpenNeverCorrupt)
<1> SUFFICES ASSUME ~ReopenDirty PROVE Spec => []OpenNeverCorrupt
  OBVIOUS
<1>1. IndInv => OpenNeverCorrupt
  BY DEF IndInv
<1>2. Spec => []IndInv
  BY PackInvariant
<1> QED
  BY <1>1, <1>2, PTL

\* sealActiveLocked publishes, and Open over a clean page cache attaches, only what is
\* whole on disk under its final name: Compact may drop the other copies.
THEOREM SealedAlwaysDurable == ~ReopenDirty => (Spec => []SealedDurable)
<1> SUFFICES ASSUME ~ReopenDirty PROVE Spec => []SealedDurable
  OBVIOUS
<1>1. IndInv => SealedDurable
  BY DEF IndInv
<1>2. Spec => []IndInv
  BY PackInvariant
<1> QED
  BY <1>1, <1>2, PTL

\* A Wipe that returns success leaves on disk no file but those that an earlier failed
\* removal had left behind: also not the file of a seal that failed after its rename.
THEOREM WipeErasesAll == ~ReopenDirty => (Spec => WipeErases)
<1> SUFFICES ASSUME ~ReopenDirty PROVE Spec => WipeErases
  OBVIOUS
<1>1. IndInv => [WipeEnds(TRUE) => \A d \in dirStates', f \in File \ stray : d[f] = "none"]_vars
  <2> SUFFICES ASSUME IndInv, WipeEnds(TRUE), NEW d \in dirStates', NEW f \in File \ stray
               PROVE  d[f] = "none"
    OBVIOUS
  <2>1. /\ mpc = "wipe" /\ wactive = 0 /\ wfiles = {} /\ ~werr /\ d = dir
    BY DEF WipeEnds, DirSync
  <2>2. TypeOK /\ Holder /\ Idle /\ Attached
    BY DEF IndInv
  <2>3. up = "up" /\ active = 0 /\ sealed = {} /\ cpc = "idle"
    BY PackAssumption, <2>1, <2>2 DEF Idle, Holder
  <2>4. dir[f] \notin {"active", "sealed"}
    BY PackAssumption, <2>1, <2>2, <2>3 DEF Attached
  <2> QED
    BY <2>1, <2>2, <2>4 DEF TypeOK
<1>2. Spec => []IndInv
  BY PackInvariant
<1> QED
  BY <1>1, <1>2, PTL DEF WipeErases
=============================================================================

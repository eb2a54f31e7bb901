----------------------------- MODULE InboxProofs -----------------------------
(***************************************************************************)
(* Machine-checked proofs about Inbox, for any clients, any finite pool of *)
(* workers, any roots and bodies and any bound on the queue.               *)
(***************************************************************************)
EXTENDS Inbox, FiniteSetTheorems, SequenceTheorems, TLAPS

----------------------------------------------------------------------------
(* Counting the items of a root.                                           *)

\* The positions of a queue that hold an item of root r.
At(q, r) == {i \in DOMAIN q : q[i].root = r}

\* The workers that hold one.
Running(r) == {w \in Worker : witem[w].root = r}

\* A queue has finitely many positions, the pool finitely many workers.
LEMMA CountsFinite ==
  ASSUME NEW q \in Seq(Item), NEW r
  PROVE  /\ IsFiniteSet(At(q, r)) /\ Cardinality(At(q, r)) \in Nat
         /\ IsFiniteSet(Running(r)) /\ Cardinality(Running(r)) \in Nat
<1>1. IsFiniteSet(1..Len(q)) /\ At(q, r) \subseteq 1..Len(q)
  BY FS_Interval DEF At
<1>2. IsFiniteSet(Worker) /\ Running(r) \subseteq Worker
  BY InboxAssumption DEF Running
<1>3. IsFiniteSet(At(q, r)) /\ IsFiniteSet(Running(r))
  BY <1>1, <1>2, FS_Subset
<1> QED
  BY <1>3, FS_CardinalityType

\* Commit's append adds one item of its root.
LEMMA CountAppend ==
  ASSUME NEW q \in Seq(Item), NEW it \in Item, NEW r
  PROVE  Cardinality(At(Append(q, it), r)) =
           Cardinality(At(q, r)) + (IF it.root = r THEN 1 ELSE 0)
<1>1. /\ Append(q, it) \in Seq(Item)
      /\ DOMAIN Append(q, it) = DOMAIN q \cup {Len(q) + 1}
      /\ Len(q) + 1 \notin DOMAIN q
      /\ \A i \in DOMAIN q : Append(q, it)[i] = q[i]
      /\ Append(q, it)[Len(q) + 1] = it
  OBVIOUS
<1>2. CASE it.root = r
  <2>1. At(Append(q, it), r) = At(q, r) \cup {Len(q) + 1} /\ Len(q) + 1 \notin At(q, r)
    BY <1>1, <1>2 DEF At
  <2> QED
    BY <1>2, <2>1, CountsFinite, FS_AddElement
<1>3. CASE it.root # r
  <2>1. At(Append(q, it), r) = At(q, r)
    BY <1>1, <1>3 DEF At
  <2> QED
    BY <1>3, <2>1, CountsFinite
<1> QED
  BY <1>2, <1>3

\* A worker's take removes one item of the root of the queue's head.
LEMMA CountTail ==
  ASSUME NEW q \in Seq(Item), q # <<>>, NEW r
  PROVE  Cardinality(At(q, r)) =
           Cardinality(At(Tail(q), r)) + (IF Head(q).root = r THEN 1 ELSE 0)
<1>1. /\ Tail(q) \in Seq(Item) /\ Len(Tail(q)) = Len(q) - 1 /\ Len(q) > 0
      /\ Head(q) = q[1]
      /\ \A i \in 1..Len(q) - 1 : Tail(q)[i] = q[i + 1]
  BY EmptySeq
<1> DEFINE Rest == At(q, r) \ {1}
           f == [i \in At(Tail(q), r) |-> i + 1]
<1>2. /\ \A i \in At(Tail(q), r) : i \in Int /\ i + 1 \in Rest
      /\ \A j \in Rest : j \in Int /\ j - 1 \in At(Tail(q), r)
  BY <1>1 DEF At
<1>3. f \in Bijection(At(Tail(q), r), Rest)
  <2>1. f \in [At(Tail(q), r) -> Rest]
    BY <1>2
  <2>2. \A i, j \in At(Tail(q), r) : f[i] = f[j] => i = j
    BY <1>2
  <2>3. \A j \in Rest : \E i \in At(Tail(q), r) : f[i] = j
    <3> SUFFICES ASSUME NEW j \in Rest PROVE \E i \in At(Tail(q), r) : f[i] = j
      OBVIOUS
    <3>1. j - 1 \in At(Tail(q), r) /\ f[j - 1] = j
      BY <1>2
    <3> QED
      BY <3>1
  <2> QED
    BY <2>1, <2>2, <2>3 DEF Bijection, Injection, Surjection, IsInjective
<1>4. Cardinality(At(Tail(q), r)) = Cardinality(Rest)
  <2> HIDE DEF Rest, f
  <2>1. ExistsBijection(At(Tail(q), r), Rest)
    BY <1>3 DEF ExistsBijection
  <2>2. IsFiniteSet(At(Tail(q), r))
    BY <1>1, CountsFinite
  <2> QED
    BY <2>1, <2>2, FS_Bijection
<1>5. 1 \in At(q, r) <=> Head(q).root = r
  BY <1>1 DEF At
<1>6. Cardinality(Rest) = IF 1 \in At(q, r) THEN Cardinality(At(q, r)) - 1
                                            ELSE Cardinality(At(q, r))
  BY CountsFinite, FS_RemoveElement
<1> QED
  BY <1>4, <1>5, <1>6, CountsFinite

\* recover's queue holds, of each root, as many items as the directory has
\* entries: the queue lists the entries without repetition.
LEMMA CountEntries ==
  ASSUME NEW E, IsFiniteSet(E), NEW p \in [E -> Root], NEW q \in SetToSeqs(E), NEW r
  PROVE  LET s == [i \in DOMAIN q |-> [name |-> q[i], root |-> p[q[i]]]]
         IN  Cardinality(At(s, r)) = Cardinality({b \in E : p[b] = r})
<1> DEFINE n == Cardinality(E)
           s == [i \in DOMAIN q |-> [name |-> q[i], root |-> p[q[i]]]]
           Of == {b \in E : p[b] = r}
           f == [i \in At(s, r) |-> q[i]]
<1>1. /\ n \in Nat
      /\ q \in [1..n -> E]
      /\ \A i, j \in 1..n : q[i] = q[j] => i = j
  BY FS_CardinalityType DEF SetToSeqs
<1>2. \A b \in E : \E i \in 1..n : q[i] = b
  <2>1. q \in Injection(1..n, E)
    BY <1>1 DEF Injection, IsInjective
  <2>2. IsFiniteSet(1..n) /\ Cardinality(1..n) = n
    BY <1>1, FS_Interval
  <2>3. q \in Surjection(1..n, E)
    BY <2>1, <2>2, FS_Injection
  <2> QED
    BY <2>3 DEF Surjection
<1>3. At(s, r) = {i \in 1..n : p[q[i]] = r}
  BY <1>1 DEF At
<1>4. f \in [At(s, r) -> Of]
  BY <1>1, <1>3
<1>5. \A i, j \in At(s, r) : f[i] = f[j] => i = j
  BY <1>1, <1>3
<1>6. \A b \in Of : \E i \in At(s, r) : f[i] = b
  BY <1>1, <1>2, <1>3
<1>7. f \in Bijection(At(s, r), Of)
  BY <1>4, <1>5, <1>6 DEF Bijection, Injection, Surjection, IsInjective
<1>8. IsFiniteSet(At(s, r))
  <2>1. IsFiniteSet(1..n) /\ At(s, r) \subseteq 1..n
    BY <1>1, <1>3, FS_Interval
  <2> QED
    BY <2>1, FS_Subset
<1> HIDE DEF f, s, Of
<1>9. ExistsBijection(At(s, r), Of)
  BY <1>7 DEF ExistsBijection
<1>10. Cardinality(At(s, r)) = Cardinality(Of)
  BY <1>8, <1>9, FS_Bijection
<1> QED
  BY <1>10 DEF s, Of

----------------------------------------------------------------------------
(* Types, what each process holds, and what a restart begins with.         *)

\* A rename in or out of the inbox directory changes one entry.
LEMMA DirEntry ==
  ASSUME NEW d \in DirState, NEW b \in Body, NEW r \in Root \cup {None}
  PROVE  /\ [d EXCEPT !.pack[b] = r] \in DirState
         /\ [d EXCEPT !.pack[b] = r].failed = d.failed
         /\ [d EXCEPT !.pack[b] = r].pack = [d.pack EXCEPT ![b] = r]
<1>1. d.pack \in [Body -> Root \cup {None}] /\ d.failed \in SUBSET Body
  BY DEF DirState
<1>2. [d EXCEPT !.pack[b] = r] = [pack |-> [d.pack EXCEPT ![b] = r], failed |-> d.failed]
  BY DEF DirState
<1> QED
  BY <1>1, <1>2 DEF DirState

\* The initial states satisfy the invariant.
LEMMA InboxInit == Init => IndInv
<1> SUFFICES ASSUME Init PROVE IndInv
  OBVIOUS
<1> USE InboxAssumption DEF Init, NoItem
<1>1. TypeOK
  <2>1. up \in BOOLEAN /\ closed \in BOOLEAN
    BY Zenon
  <2>2. cadded \in [Client -> BOOLEAN]
    BY Zenon
  <2>3. dir \in DirState /\ dirStates \subseteq DirState /\ dir \in dirStates
    BY DEF DirState
  <2>4. work \in Seq(Item) /\ groups \in [Root -> Nat]
    BY EmptySeq
  <2> QED
    BY <2>1, <2>2, <2>3, <2>4 DEF TypeOK
<1>2. GroupsExact
  <2> SUFFICES ASSUME NEW r \in Root
               PROVE  groups[r] = Cardinality(At(work, r)) + Cardinality(Running(r))
    BY DEF GroupsExact, At, Running
  <2>1. At(work, r) = {} /\ Running(r) = {}
    BY DEF At, Running
  <2>2. groups[r] = 0
    OBVIOUS
  <2> HIDE DEF Init
  <2> QED
    BY <2>1, <2>2, FS_EmptySet
<1>3. Holding /\ DownIsIdle
  BY DEF Holding, Busy, DownIsIdle
<1>4. CoveredOnDisk /\ AddedPending
  BY DEF CoveredOnDisk, AddedPending
<1> QED
  BY <1>1, <1>2, <1>3, <1>4 DEF IndInv

\* Every step keeps the types, what the processes hold, and an inbox that is
\* down empty.
LEMMA InboxTypeStep ==
  ASSUME TypeOK, Holding, DownIsIdle, [Next]_vars
  PROVE  TypeOK' /\ Holding' /\ DownIsIdle'
<1> USE InboxAssumption DEF dirVars, queueVars, clientVars, workerVars, histVars
<1> DEFINE Goal == TypeOK' /\ Holding' /\ DownIsIdle'
<1>1. ASSUME NEW c \in Client, Upload(c) PROVE Goal
  <2>1. ASSUME NEW b \in Body, NEW r \in Root, Stage(c, b, r) PROVE Goal
    BY <2>1 DEF Stage, TypeOK, Holding, DownIsIdle
  <2>2. CASE Discard(c) \/ CommitFails(c) \/ SkipWaitFor(c)
    BY <2>2 DEF Discard, CommitFails, SkipWaitFor, Clear, TypeOK, Holding, DownIsIdle
  <2>3. CASE CommitStat(c) \/ CallWaitFor(c)
    BY <2>3 DEF CommitStat, CallWaitFor, TypeOK, Holding, DownIsIdle
  <2> QED
    BY <1>1, <2>1, <2>2, <2>3 DEF Upload
<1>2. ASSUME NEW c \in Client, CommitStep(c) PROVE Goal
  <2>1. CASE CommitRename(c)
    <3>1. cbody[c] \in Body /\ croot[c] \in Root /\ dir \in DirState
      BY <2>1 DEF CommitRename, Holding, TypeOK
    <3>2. dir' \in DirState /\ dirStates' \subseteq DirState /\ dir' \in dirStates'
      BY <2>1, <3>1, DirEntry DEF CommitRename, SetDir, TypeOK
    <3> QED
      BY <2>1, <3>2 DEF CommitRename, TypeOK, Holding, DownIsIdle
  <2>2. CASE CommitSyncDir(c)
    BY <2>2 DEF CommitSyncDir, syncDir, TypeOK, Holding, DownIsIdle
  <2>3. CASE CommitEnqueue(c)
    <3>1. [name |-> cbody[c], root |-> croot[c]] \in Item
      BY <2>3 DEF CommitEnqueue, Holding, Item
    <3>2. work' \in Seq(Item) /\ groups' \in [Root -> Nat]
      <4>1. croot[c] \in Root /\ groups \in [Root -> Nat] /\ work \in Seq(Item)
        BY <2>3 DEF CommitEnqueue, Holding, TypeOK
      <4>2. work' \in Seq(Item)
        BY <2>3, <3>1, <4>1 DEF CommitEnqueue
      <4>3. groups' \in [Root -> Nat]
        BY <2>3, <4>1 DEF CommitEnqueue
      <4> QED
        BY <4>2, <4>3
    <3>3. up
      BY <2>3 DEF CommitEnqueue, DownIsIdle
    <3> QED
      BY <2>3, <3>1, <3>2, <3>3 DEF CommitEnqueue, Awake, TypeOK, Holding, Busy, DownIsIdle
  <2> QED
    BY <1>2, <2>1, <2>2, <2>3 DEF CommitStep
<1>3. ASSUME NEW c \in Client, WaitStep(c) PROVE Goal
  BY <1>3 DEF WaitStep, WaitForSleeps, WaitForReturns, Clear, TypeOK, Holding, DownIsIdle
<1>4. ASSUME NEW w \in Worker, Process(w) PROVE Goal
  <2>1. CASE Sleep(w) \/ Exit(w)
    BY <2>1 DEF Sleep, Exit, Move, TypeOK, Holding, Busy, DownIsIdle
  <2>2. CASE Take(w)
    <3>1. Head(work) \in Item /\ Tail(work) \in Seq(Item)
      BY <2>2, HeadTailProperties DEF Take, TypeOK
    <3>2. Head(work) # NoItem
      BY <3>1 DEF Item, NoItem
    <3> QED
      BY <2>2, <3>1, <3>2 DEF Take, Move, TypeOK, Holding, Busy, DownIsIdle
  <2>3. CASE OpenEntry(w) \/ EntryFails(w)
    <3>1. witem[w] \in Item
      BY <2>3 DEF OpenEntry, EntryFails, Holding, Busy, TypeOK
    <3>2. witem[w].name \in Body
      BY <3>1 DEF Item
    <3> QED
      BY <2>3, <3>2 DEF OpenEntry, EntryFails, Move, TypeOK, Holding, Busy, DownIsIdle
  <2>4. CASE WriteEntry(w)
    <3>1. witem[w] \in Item
      BY <2>4 DEF WriteEntry, Holding, Busy, TypeOK
    <3>2. witem[w].name \in Body
      BY <3>1 DEF Item
    <3> QED
      BY <2>4, <3>2 DEF WriteEntry, Move, TypeOK, Holding, Busy, DownIsIdle
  <2>5. CASE RemoveEntry(w) \/ quarantine(w)
    <3>1. witem[w] \in Item /\ dir \in DirState
      BY <2>5 DEF RemoveEntry, quarantine, Holding, Busy, TypeOK
    <3>2. witem[w].name \in Body
      BY <3>1 DEF Item
    <3>3. [pack |-> [dir.pack EXCEPT ![witem[w].name] = None],
           failed |-> dir.failed \cup {witem[w].name}] \in DirState
      BY <3>1, <3>2 DEF DirState
    <3>4. [dir EXCEPT !.pack[witem[w].name] = None] \in DirState
      BY <3>1, <3>2, DirEntry
    <3>5. dir' \in DirState /\ dirStates' \subseteq DirState /\ dir' \in dirStates'
      <4>1. CASE RemoveEntry(w)
        BY <4>1, <3>4 DEF RemoveEntry, SetDir, TypeOK
      <4>2. CASE quarantine(w)
        <5>1. CASE dir.pack[witem[w].name] = None
          BY <4>2, <5>1 DEF quarantine, TypeOK
        <5>2. CASE dir.pack[witem[w].name] # None
          <6>1. /\ dir' = [pack |-> [dir.pack EXCEPT ![witem[w].name] = None],
                           failed |-> dir.failed \cup {witem[w].name}]
                /\ dirStates' = dirStates \cup {dir'}
            BY <4>2, <5>2 DEF quarantine, SetDir
          <6> QED
            BY <3>3, <6>1 DEF TypeOK
        <5> QED
          BY <5>1, <5>2
      <4> QED
        BY <2>5, <4>1, <4>2
    <3> QED
      BY <2>5, <3>5 DEF RemoveEntry, quarantine, Move, TypeOK, Holding, Busy, DownIsIdle
  <2>6. CASE Finish(w)
    <3>1. groups' \in [Root -> Nat]
      <4>1. witem[w] \in Item /\ groups \in [Root -> Nat]
        BY <2>6 DEF Finish, Holding, Busy, TypeOK
      <4>2. witem[w].root \in Root
        BY <4>1 DEF Item
      <4>3. (IF groups[witem[w].root] > 0 THEN groups[witem[w].root] - 1 ELSE 0) \in Nat
        BY <4>1, <4>2
      <4> QED
        BY <2>6, <4>1, <4>3 DEF Finish
    <3>2. up
      BY <2>6 DEF Finish, DownIsIdle
    <3> QED
      BY <2>6, <3>1, <3>2 DEF Finish, Awake, TypeOK, Holding, Busy, DownIsIdle
  <2> QED
    BY <1>4, <2>1, <2>2, <2>3, <2>4, <2>5, <2>6 DEF Process
<1>5. CASE Close
  BY <1>5 DEF Close, Awake, TypeOK, Holding, Busy, DownIsIdle
<1>6. CASE Kill
  <2>1. cadded' \in [Client -> BOOLEAN]
    BY <1>6, Zenon DEF Kill
  <2>2. up' \in BOOLEAN /\ closed' \in BOOLEAN /\ ~up' /\ ~closed'
    BY <1>6, Zenon DEF Kill
  <2>3. work' \in Seq(Item) /\ groups' \in [Root -> Nat]
    BY <1>6 DEF Kill
  <2>4. TypeOK'
    BY <1>6, <2>1, <2>2, <2>3 DEF Kill, TypeOK
  <2> QED
    BY <1>6, <2>4 DEF Kill, Holding, Busy, DownIsIdle
<1>7. CASE PowerLoss
  BY <1>7 DEF PowerLoss, TypeOK, Holding, DownIsIdle
<1>10. ASSUME NEW b \in Body, recoverQuarantine(b) PROVE TypeOK' /\ Holding' /\ DownIsIdle'
  <2>1. dir' \in DirState /\ dirStates' = dirStates \cup {dir'}
    BY <1>10 DEF recoverQuarantine, SetDir, TypeOK, DirState
  <2> QED
    BY <1>10, <2>1 DEF recoverQuarantine, TypeOK, Holding, DownIsIdle
<1>8. CASE recover
  <2>0. PICK E \in SUBSET Entries :
          /\ \E q \in SetToSeqs(E) :
               work' = [i \in DOMAIN q |-> [name |-> q[i], root |-> dir.pack[q[i]]]]
          /\ groups' = [r \in Root |-> Cardinality({b \in E : dir.pack[b] = r})]
    BY <1>8 DEF recover
  <2>1. PICK q \in SetToSeqs(E) :
          work' = [i \in DOMAIN q |-> [name |-> q[i], root |-> dir.pack[q[i]]]]
    BY <2>0
  <2>2. IsFiniteSet(E) /\ Cardinality(E) \in Nat
    BY FS_Subset, FS_CardinalityType DEF Entries
  <2>3. q \in [1..Cardinality(E) -> E]
    BY DEF SetToSeqs
  <2>4. \A b \in E : [name |-> b, root |-> dir.pack[b]] \in Item
    BY DEF Entries, TypeOK, DirState, Item
  <2>5. work' \in Seq(Item)
    BY <2>1, <2>2, <2>3, <2>4
  <2>6. groups' \in [Root -> Nat]
    <3> SUFFICES ASSUME NEW r \in Root
                 PROVE  Cardinality({b \in E : dir.pack[b] = r}) \in Nat
      BY <2>0
    <3> QED
      BY <2>2, FS_Subset, FS_CardinalityType
  <2>7. \A w \in Worker : witem[w] = NoItem
    BY <1>8 DEF recover, DownIsIdle, Holding, Busy
  <2> QED
    BY <1>8, <2>5, <2>6, <2>7 DEF recover, TypeOK, Holding, Busy, DownIsIdle
<1>9. CASE UNCHANGED vars
  BY <1>9 DEF vars, TypeOK, Holding, DownIsIdle
<1> QED
  BY <1>1, <1>2, <1>3, <1>4, <1>5, <1>6, <1>7, <1>8, <1>9, <1>10 DEF Next

----------------------------------------------------------------------------
(* The counts.                                                             *)

\* A step of the queue or of an item is Commit's tail, a take, a finish, the end
\* of the process or recover; every other step leaves the counts' variables.
LEMMA CountingSteps ==
  ASSUME [Next]_vars
  PROVE  \/ UNCHANGED <<work, groups, witem>>
         \/ \E c \in Client : CommitEnqueue(c)
         \/ \E w \in Worker : Take(w) \/ Finish(w)
         \/ Kill \/ recover
<1> USE DEF queueVars, workerVars
<1>1. ASSUME NEW c \in Client, Upload(c) PROVE UNCHANGED <<work, groups, witem>>
  BY <1>1 DEF Upload, Stage, Discard, CommitStat, CommitFails, SkipWaitFor, CallWaitFor
<1>2. ASSUME NEW c \in Client, CommitRename(c) \/ CommitSyncDir(c) \/ WaitStep(c)
      PROVE  UNCHANGED <<work, groups, witem>>
  BY <1>2 DEF CommitRename, CommitSyncDir, WaitStep, WaitForSleeps, WaitForReturns
<1>3. ASSUME NEW w \in Worker, Process(w), ~Take(w), ~Finish(w)
      PROVE  UNCHANGED <<work, groups, witem>>
  BY <1>3 DEF Process, Sleep, Exit, OpenEntry, WriteEntry, RemoveEntry, quarantine, EntryFails
<1>4. CASE Close \/ PowerLoss \/ UNCHANGED vars \/ \E b \in Body : recoverQuarantine(b)
  BY <1>4 DEF Close, PowerLoss, recoverQuarantine, vars
<1> QED
  BY <1>1, <1>2, <1>3, <1>4 DEF Next, CommitStep

\* Every step keeps the counts exact.
LEMMA GroupsStep ==
  ASSUME TypeOK, Holding, DownIsIdle, GroupsExact, [Next]_vars, TypeOK'
  PROVE  GroupsExact'
<1> USE InboxAssumption
<1> SUFFICES ASSUME NEW r \in Root
             PROVE  groups'[r] = Cardinality(At(work', r)) + Cardinality(Running(r)')
  BY DEF GroupsExact, At, Running
<1>1. /\ groups[r] = Cardinality(At(work, r)) + Cardinality(Running(r))
      /\ groups \in [Root -> Nat] /\ work \in Seq(Item)
      /\ \A w \in Worker : witem[w] = NoItem \/ witem[w] \in Item
      /\ NoItem.root # r
  BY DEF GroupsExact, At, Running, TypeOK, NoItem
<1>2. /\ Cardinality(At(work, r)) \in Nat
      /\ IsFiniteSet(Running(r)) /\ Cardinality(Running(r)) \in Nat
  BY <1>1, CountsFinite
<1>3. CASE UNCHANGED <<work, groups, witem>>
  <2>1. Running(r)' = Running(r)
    BY <1>3 DEF Running
  <2> QED
    BY <1>1, <1>3, <2>1
<1>4. ASSUME NEW c \in Client, CommitEnqueue(c)
      PROVE  groups'[r] = Cardinality(At(work', r)) + Cardinality(Running(r)')
  <2> DEFINE it == [name |-> cbody[c], root |-> croot[c]]
  <2>1. it \in Item /\ it.root = croot[c] /\ croot[c] \in Root
    BY <1>4 DEF CommitEnqueue, Holding, Item
  <2>2. work' = Append(work, it) /\ Running(r)' = Running(r)
    BY <1>4 DEF CommitEnqueue, Running
  <2>3. groups'[r] = groups[r] + (IF it.root = r THEN 1 ELSE 0)
    BY <1>1, <1>4, <2>1 DEF CommitEnqueue
  <2> HIDE DEF it
  <2>4. Cardinality(At(work', r)) = Cardinality(At(work, r)) + (IF it.root = r THEN 1 ELSE 0)
    BY <1>1, <2>1, <2>2, CountAppend
  <2> QED
    BY <1>1, <1>2, <2>2, <2>3, <2>4
<1>5. ASSUME NEW w \in Worker, Take(w)
      PROVE  groups'[r] = Cardinality(At(work', r)) + Cardinality(Running(r)')
  <2>1. /\ work # <<>> /\ work' = Tail(work) /\ groups' = groups
        /\ witem' = [witem EXCEPT ![w] = Head(work)] /\ witem[w] = NoItem
    BY <1>5 DEF Take, Holding, Busy
  <2>2. Cardinality(At(work, r)) =
          Cardinality(At(work', r)) + (IF Head(work).root = r THEN 1 ELSE 0)
    BY <1>1, <2>1, CountTail
  <2>3. /\ w \notin Running(r)
        /\ Running(r)' = IF Head(work).root = r THEN Running(r) \cup {w} ELSE Running(r)
    BY <1>1, <2>1 DEF Running, TypeOK
  <2>4. Cardinality(Running(r)') =
          Cardinality(Running(r)) + (IF Head(work).root = r THEN 1 ELSE 0)
    <3>1. CASE Head(work).root = r
      BY <1>2, <2>3, <3>1, FS_AddElement
    <3>2. CASE Head(work).root # r
      BY <1>2, <2>3, <3>2
    <3> QED
      BY <3>1, <3>2
  <2>5. Cardinality(At(work', r)) \in Nat
    BY CountsFinite DEF TypeOK
  <2> QED
    BY <1>1, <1>2, <2>1, <2>2, <2>4, <2>5
<1>6. ASSUME NEW w \in Worker, Finish(w)
      PROVE  groups'[r] = Cardinality(At(work', r)) + Cardinality(Running(r)')
  <2>1. /\ work' = work /\ witem' = [witem EXCEPT ![w] = NoItem]
        /\ witem[w] \in Item
    BY <1>1, <1>6 DEF Finish, Holding, Busy
  <2>2. witem[w].root \in Root
    BY <2>1 DEF Item
  <2>3. Running(r)' = Running(r) \ {w} /\ (w \in Running(r) <=> witem[w].root = r)
    BY <1>1, <2>1 DEF Running, TypeOK
  <2>4. Cardinality(Running(r)') =
          IF witem[w].root = r THEN Cardinality(Running(r)) - 1 ELSE Cardinality(Running(r))
    BY <1>2, <2>3, FS_RemoveElement
  <2>5. witem[w].root = r => Cardinality(Running(r)) # 0
    BY <1>2, <2>3, FS_EmptySet
  <2>6. groups'[r] = IF witem[w].root = r
                     THEN (IF groups[r] > 0 THEN groups[r] - 1 ELSE 0)
                     ELSE groups[r]
    BY <1>1, <1>6, <2>2 DEF Finish
  <2> QED
    BY <1>1, <1>2, <2>1, <2>4, <2>5, <2>6
<1>7. CASE Kill
  <2>1. groups'[r] = 0
    BY <1>7 DEF Kill
  <2>2. At(work', r) = {}
    BY <1>7 DEF Kill, At
  <2>3. Running(r)' = {}
    BY <1>1, <1>7 DEF Kill, Running
  <2> QED
    BY <2>1, <2>2, <2>3, FS_EmptySet
<1>8. CASE recover
  <2>0. PICK E \in SUBSET Entries :
          /\ \E q \in SetToSeqs(E) :
               work' = [i \in DOMAIN q |-> [name |-> q[i], root |-> dir.pack[q[i]]]]
          /\ groups' = [s \in Root |-> Cardinality({b \in E : dir.pack[b] = s})]
    BY <1>8 DEF recover
  <2>1. PICK q \in SetToSeqs(E) :
          work' = [i \in DOMAIN q |-> [name |-> q[i], root |-> dir.pack[q[i]]]]
    BY <2>0
  <2> DEFINE p == [b \in E |-> dir.pack[b]]
  <2>2. p \in [E -> Root] /\ IsFiniteSet(E)
    BY FS_Subset DEF Entries, TypeOK, DirState
  <2>3. work' = [i \in DOMAIN q |-> [name |-> q[i], root |-> p[q[i]]]]
    BY <2>1 DEF SetToSeqs
  <2>4. {b \in E : dir.pack[b] = r} = {b \in E : p[b] = r}
    OBVIOUS
  <2>5. groups'[r] = Cardinality({b \in E : p[b] = r})
    BY <2>0, <2>4
  <2> HIDE DEF p
  <2>6. Cardinality(At(work', r)) = Cardinality({b \in E : p[b] = r})
    BY <2>2, <2>3, CountEntries
  <2>7. Running(r)' = {}
    BY <1>1, <1>8 DEF recover, DownIsIdle, Holding, Busy, Running
  <2>8. Cardinality(At(work', r)) \in Nat
    BY CountsFinite DEF TypeOK
  <2> QED
    BY <2>5, <2>6, <2>7, <2>8, FS_EmptySet
<1> QED
  BY <1>3, <1>4, <1>5, <1>6, <1>7, <1>8, CountingSteps

----------------------------------------------------------------------------
(* No pack is lost.                                                        *)

\* A worker takes a file out of the inbox when the store has its pack, or into
\* failed/: whatever the directory covered it still covers.
LEMMA CoverKept ==
  ASSUME TypeOK, Holding, CoveredOnDisk, NEW w \in Worker, RemoveEntry(w) \/ quarantine(w)
  PROVE  /\ store' = store
         /\ dirStates' \subseteq dirStates \cup {dir'}
         /\ dir.failed \subseteq dir'.failed
         /\ \A b \in Body : Covers(dir, b) => Covers(dir, b)'
<1>1. witem[w] \in Item /\ dir \in DirState
  BY DEF RemoveEntry, quarantine, Holding, Busy, TypeOK
<1>2. witem[w].name \in Body
  BY <1>1 DEF Item
<1>3. CASE RemoveEntry(w)
  <2>1. witem[w].name \in store
    BY <1>3 DEF RemoveEntry, CoveredOnDisk
  <2>2. /\ dir'.failed = dir.failed
        /\ dir'.pack = [dir.pack EXCEPT ![witem[w].name] = None]
        /\ dirStates' = dirStates \cup {dir'} /\ store' = store
    BY <1>1, <1>2, <1>3, DirEntry, InboxAssumption DEF RemoveEntry, SetDir
  <2> QED
    BY <1>1, <1>2, <2>1, <2>2 DEF Covers, DirState
<1>4. CASE quarantine(w)
  <2>1. CASE dir.pack[witem[w].name] = None
    BY <1>4, <2>1 DEF quarantine, dirVars, Covers
  <2>2. CASE dir.pack[witem[w].name] # None
    <3>1. /\ dir' = [pack |-> [dir.pack EXCEPT ![witem[w].name] = None],
                     failed |-> dir.failed \cup {witem[w].name}]
          /\ dirStates' = dirStates \cup {dir'} /\ store' = store
      BY <1>4, <2>2 DEF quarantine, SetDir
    <3> QED
      BY <1>1, <1>2, <3>1 DEF Covers, DirState
  <2> QED
    BY <2>1, <2>2
<1> QED
  BY <1>3, <1>4

\* Every step keeps committed packs accounted for, on disk as well.
LEMMA CoveredStep ==
  ASSUME TypeOK, Holding, DownIsIdle, CoveredOnDisk, [Next]_vars
  PROVE  CoveredOnDisk'
<1> USE InboxAssumption DEF dirVars, queueVars, clientVars, workerVars, histVars
<1>1. ASSUME NEW c \in Client, Upload(c) PROVE CoveredOnDisk'
  <2>1. /\ UNCHANGED <<dir, dirStates, store, committed, wpc, witem>>
        /\ \A d \in Client : cpc'[d] \in {"enqueue", "syncdir"} =>
             cpc'[d] = cpc[d] /\ cbody'[d] = cbody[d]
    BY <1>1 DEF Upload, Stage, Discard, CommitStat, CommitFails, SkipWaitFor, CallWaitFor,
       Clear, TypeOK
  <2> QED
    BY <2>1 DEF CoveredOnDisk, Covers
<1>2. ASSUME NEW c \in Client, WaitStep(c) PROVE CoveredOnDisk'
  BY <1>2 DEF WaitStep, WaitForSleeps, WaitForReturns, Clear, TypeOK, CoveredOnDisk, Covers
<1>3. ASSUME NEW c \in Client, CommitRename(c) PROVE CoveredOnDisk'
  <2>1. cbody[c] \in Body /\ croot[c] \in Root /\ dir \in DirState
    BY <1>3 DEF CommitRename, Holding, TypeOK
  <2>2. /\ dir'.failed = dir.failed
        /\ dir'.pack = [dir.pack EXCEPT ![cbody[c]] = croot[c]]
        /\ dirStates' = dirStates \cup {dir'}
    BY <1>3, <2>1, DirEntry DEF CommitRename, SetDir
  <2>3. Covers(dir, cbody[c])' /\ \A b \in Body : Covers(dir, b) => Covers(dir, b)'
    BY <1>3, <2>1, <2>2 DEF CommitRename, Covers, DirState
  <2>4. \A d \in dirStates, b \in Body : Covers(d, b) => Covers(d, b)'
    BY <1>3 DEF CommitRename, Covers
  <2> QED
    BY <1>3, <2>2, <2>3, <2>4 DEF CommitRename, TypeOK, Holding, CoveredOnDisk
<1>4. ASSUME NEW c \in Client, CommitSyncDir(c) PROVE CoveredOnDisk'
  BY <1>4 DEF CommitSyncDir, syncDir, TypeOK, CoveredOnDisk, Covers
<1>5. ASSUME NEW c \in Client, CommitEnqueue(c) PROVE CoveredOnDisk'
  <2>1. /\ UNCHANGED <<dir, dirStates, store, cbody, witem>>
        /\ committed' = committed \cup {cbody[c]} /\ cpc[c] = "enqueue"
        /\ \A d \in Client : cpc'[d] \in {"enqueue", "syncdir"} => cpc'[d] = cpc[d]
        /\ \A w \in Worker : wpc'[w] = "remove" => wpc[w] = "remove"
    BY <1>5 DEF CommitEnqueue, Awake, TypeOK
  <2> QED
    BY <2>1 DEF CoveredOnDisk, Covers
<1>6. ASSUME NEW w \in Worker, Sleep(w) \/ Exit(w) \/ Take(w) \/ OpenEntry(w) \/ EntryFails(w)
      PROVE  CoveredOnDisk'
  BY <1>6 DEF Sleep, Exit, Take, OpenEntry, EntryFails, Move, TypeOK, CoveredOnDisk, Covers
<1>7. ASSUME NEW w \in Worker, WriteEntry(w) PROVE CoveredOnDisk'
  BY <1>7 DEF WriteEntry, Move, TypeOK, CoveredOnDisk, Covers
<1>8. ASSUME NEW w \in Worker, RemoveEntry(w) \/ quarantine(w) PROVE CoveredOnDisk'
  <2>1. /\ store' = store /\ dirStates' \subseteq dirStates \cup {dir'}
        /\ \A b \in Body : Covers(dir, b) => Covers(dir, b)'
        /\ \A d \in dirStates, b \in Body : Covers(d, b) => Covers(d, b)'
    BY <1>8, CoverKept DEF Covers
  <2>2. /\ cpc' = cpc /\ cbody' = cbody /\ committed' = committed /\ witem' = witem
        /\ wpc' = [wpc EXCEPT ![w] = "finish"]
    BY <1>8 DEF RemoveEntry, quarantine, Move
  <2> QED
    BY <2>1, <2>2 DEF TypeOK, Holding, CoveredOnDisk
<1>9. ASSUME NEW w \in Worker, Finish(w) PROVE CoveredOnDisk'
  BY <1>9 DEF Finish, Awake, TypeOK, CoveredOnDisk, Covers
<1>10. CASE Close
  BY <1>10 DEF Close, Awake, TypeOK, CoveredOnDisk, Covers
<1>11. CASE Kill
  BY <1>11 DEF Kill, TypeOK, CoveredOnDisk, Covers
<1>12. CASE PowerLoss
  BY <1>12 DEF PowerLoss, TypeOK, DownIsIdle, CoveredOnDisk, Covers
<1>13. CASE recover \/ UNCHANGED vars
  BY <1>13 DEF recover, vars, TypeOK, DownIsIdle, CoveredOnDisk, Covers
<1>14. ASSUME NEW b \in Body, recoverQuarantine(b) PROVE CoveredOnDisk'
  <2>1. /\ dir' = [pack |-> [dir.pack EXCEPT ![b] = None], failed |-> dir.failed \cup {b}]
        /\ dirStates' = dirStates \cup {dir'} /\ dir \in DirState /\ ~up
        /\ UNCHANGED <<store, cpc, cbody, wpc, witem, committed>>
    BY <1>14 DEF recoverQuarantine, SetDir, TypeOK
  <2>2. /\ \A e \in dirStates, x \in Body : Covers(e, x) => Covers(e, x)'
        /\ \A x \in Body : Covers(dir, x) => Covers(dir, x)'
    BY <2>1 DEF Covers, DirState
  <2> QED
    BY <2>1, <2>2 DEF TypeOK, DownIsIdle, CoveredOnDisk
<1> QED
  BY <1>1, <1>2, <1>3, <1>4, <1>5, <1>6, <1>7, <1>8, <1>9, <1>10, <1>11, <1>12, <1>13, <1>14
     DEF Next, CommitStep, Process

----------------------------------------------------------------------------
(* What WaitFor waits for.                                                 *)

\* An item that is queued stays queued or is taken, and one that is taken is
\* finished only after its pack is settled: it was stored, set aside, dropped on
\* an I/O error, or another worker had done so with the same file.
LEMMA AddedStep ==
  ASSUME TypeOK, Holding, DownIsIdle, CoveredOnDisk, AddedPending, [Next]_vars
  PROVE  AddedPending'
<1> USE InboxAssumption DEF dirVars, queueVars, clientVars, workerVars, histVars
<1>1. ASSUME NEW c \in Client, Upload(c) \/ WaitStep(c) PROVE AddedPending'
  <2> DEFINE Frame ==
        /\ UNCHANGED <<dir, store, skipped, committed, work, wpc, witem>>
        /\ \A d \in Client : cadded'[d] =>
             /\ cadded[d] /\ cbody'[d] = cbody[d] /\ croot'[d] = croot[d]
             /\ cpc'[d] \in {"returned", "awake", "asleep"}
  <2>1. Frame
    <3>1. \A d \in Client : cadded[d] => cpc[d] \in {"returned", "awake", "asleep"}
      BY DEF AddedPending
    <3>2. ASSUME NEW b \in Body, NEW r \in Root, Stage(c, b, r) PROVE Frame
      BY <3>1, <3>2 DEF Stage, TypeOK
    <3>3. CASE Discard(c) \/ CommitFails(c) \/ SkipWaitFor(c) \/ WaitForReturns(c)
      <4>1. cadded'[c] = FALSE /\ \A d \in Client : d # c => cadded'[d] = cadded[d]
        BY <3>3 DEF Discard, CommitFails, SkipWaitFor, WaitForReturns, Clear, TypeOK
      <4> QED
        BY <3>1, <3>3, <4>1 DEF Discard, CommitFails, SkipWaitFor, WaitForReturns, Clear, TypeOK
    <3>4. CASE CommitStat(c) \/ CallWaitFor(c) \/ WaitForSleeps(c)
      BY <3>1, <3>4 DEF CommitStat, CallWaitFor, WaitForSleeps, TypeOK
    <3> QED
      BY <1>1, <3>2, <3>3, <3>4 DEF Upload, WaitStep
  <2> QED
    BY <2>1 DEF AddedPending, Settled
<1>2. ASSUME NEW c \in Client, CommitRename(c) \/ CommitSyncDir(c) PROVE AddedPending'
  <2>1. dir'.failed = dir.failed
    <3>1. CASE CommitRename(c)
      <4>1. cbody[c] \in Body /\ croot[c] \in Root /\ dir \in DirState
        BY <3>1 DEF CommitRename, Holding, TypeOK
      <4> QED
        BY <3>1, <4>1, DirEntry DEF CommitRename, SetDir
    <3>2. CASE CommitSyncDir(c)
      BY <3>2 DEF CommitSyncDir, syncDir
    <3> QED
      BY <1>2, <3>1, <3>2
  <2>2. /\ UNCHANGED <<store, skipped, committed, work, wpc, witem, cadded, cbody, croot>>
        /\ \A d \in Client : cadded[d] => cpc'[d] = cpc[d]
    BY <1>2 DEF CommitRename, CommitSyncDir, TypeOK, AddedPending
  <2> QED
    BY <2>1, <2>2 DEF AddedPending, Settled
<1>3. ASSUME NEW c \in Client, CommitEnqueue(c) PROVE AddedPending'
  <2> DEFINE it == [name |-> cbody[c], root |-> croot[c]]
  <2>1. it \in Item /\ work \in Seq(Item) /\ work' = Append(work, it)
    BY <1>3 DEF CommitEnqueue, Holding, Item, TypeOK
  <2>2. /\ Len(work) + 1 \in DOMAIN work' /\ work'[Len(work) + 1] = it
        /\ \A i \in DOMAIN work : i \in DOMAIN work' /\ work'[i] = work[i]
    BY <2>1
  <2>3. /\ UNCHANGED <<dir, store, skipped, witem, cbody, croot>>
        /\ committed' = committed \cup {cbody[c]}
        /\ \A d \in Client : cadded'[d] =>
             \/ d = c /\ cpc'[d] = "returned"
             \/ d # c /\ cadded[d] /\ (cpc'[d] = cpc[d] \/ cpc'[d] = "awake")
        /\ \A w \in Worker : wpc[w] # "finish" => wpc'[w] # "finish"
    BY <1>3 DEF CommitEnqueue, Awake, TypeOK
  <2> QED
    BY <2>2, <2>3 DEF AddedPending, Settled
<1>4. ASSUME NEW w \in Worker, Take(w) PROVE AddedPending'
  <2>1. /\ work \in Seq(Item) /\ work # <<>> /\ Head(work) = work[1]
        /\ work' = Tail(work)
    BY <1>4 DEF Take, TypeOK
  <2>2. /\ witem[w] = NoItem /\ witem'[w] = Head(work) /\ wpc'[w] = "open"
        /\ \A v \in Worker : v # w => witem'[v] = witem[v] /\ wpc'[v] = wpc[v]
    BY <1>4 DEF Take, Move, TypeOK, Holding, Busy
  <2>3. \A i \in DOMAIN work : \/ work[i] = Head(work)
                               \/ i - 1 \in DOMAIN work' /\ work'[i - 1] = work[i]
    BY <2>1, HeadTailProperties
  <2>4. \A c \in Client : cadded[c] => cbody[c] \in Body
    BY DEF AddedPending, Holding
  <2>5. UNCHANGED <<dir, store, skipped, committed, cpc, cbody, croot, cadded>>
    BY <1>4 DEF Take
  <2> SUFFICES ASSUME NEW c \in Client, cadded[c]
               PROVE  LET it == [name |-> cbody[c], root |-> croot[c]]
                      IN  \/ Settled(cbody[c])
                          \/ \E i \in DOMAIN work' : work'[i] = it
                          \/ \E v \in Worker : witem'[v] = it /\ wpc'[v] # "finish"
    BY <2>5 DEF AddedPending, Settled
  <2> DEFINE it == [name |-> cbody[c], root |-> croot[c]]
  <2>6. CASE \E i \in DOMAIN work : work[i] = it
    <3>1. PICK i \in DOMAIN work : work[i] = it
      BY <2>6
    <3> QED
      BY <2>2, <2>3, <3>1
  <2>7. CASE \E v \in Worker : witem[v] = it /\ wpc[v] # "finish"
    <3>1. PICK v \in Worker : witem[v] = it /\ wpc[v] # "finish"
      BY <2>7
    <3>2. v # w
      BY <2>2, <2>4, <3>1 DEF NoItem
    <3> QED
      BY <2>2, <3>1, <3>2
  <2> QED
    BY <2>6, <2>7 DEF AddedPending
<1>5. ASSUME NEW w \in Worker, Sleep(w) \/ Exit(w) PROVE AddedPending'
  BY <1>5 DEF Sleep, Exit, Move, TypeOK, AddedPending, Settled
<1>6. ASSUME NEW w \in Worker, OpenEntry(w) PROVE AddedPending'
  BY <1>6 DEF OpenEntry, Move, TypeOK, AddedPending, Settled, CoveredOnDisk, Covers
<1>7. ASSUME NEW w \in Worker, WriteEntry(w) PROVE AddedPending'
  BY <1>7 DEF WriteEntry, Move, TypeOK, AddedPending, Settled
<1>8. ASSUME NEW w \in Worker, RemoveEntry(w) \/ quarantine(w) PROVE AddedPending'
  <2>1. /\ store' = store /\ dir.failed \subseteq dir'.failed
        /\ UNCHANGED <<skipped, committed, work, witem, cpc, cbody, croot, cadded>>
        /\ wpc' = [wpc EXCEPT ![w] = "finish"]
    BY <1>8, CoverKept DEF RemoveEntry, quarantine, Move
  <2>2. witem[w].name \in committed => witem[w].name \in store \cup dir'.failed
    <3>1. CASE RemoveEntry(w)
      BY <3>1 DEF RemoveEntry, CoveredOnDisk
    <3>2. CASE quarantine(w)
      BY <3>2 DEF quarantine, SetDir, TypeOK, CoveredOnDisk, Covers
    <3> QED
      BY <1>8, <3>1, <3>2
  <2> QED
    BY <2>1, <2>2 DEF TypeOK, AddedPending, Settled
<1>9. ASSUME NEW w \in Worker, EntryFails(w) PROVE AddedPending'
  BY <1>9 DEF EntryFails, Move, TypeOK, AddedPending, Settled, CoveredOnDisk
<1>10. ASSUME NEW w \in Worker, Finish(w) PROVE AddedPending'
  BY <1>10 DEF Finish, Awake, TypeOK, AddedPending, Settled
<1>11. CASE Close
  BY <1>11 DEF Close, Awake, TypeOK, AddedPending, Settled
<1>12. CASE Kill
  BY <1>12 DEF Kill, AddedPending
<1>13. CASE PowerLoss \/ recover \/ \E b \in Body : recoverQuarantine(b)
  BY <1>13 DEF PowerLoss, recover, recoverQuarantine, DownIsIdle, AddedPending
<1>14. CASE UNCHANGED vars
  BY <1>14 DEF vars, AddedPending, Settled
<1> QED
  BY <1>1, <1>2, <1>3, <1>4, <1>5, <1>6, <1>7, <1>8, <1>9, <1>10, <1>11, <1>12, <1>13, <1>14
     DEF Next, CommitStep, Process

----------------------------------------------------------------------------
(* The theorems.                                                           *)

\* The invariant holds in every reachable state.
LEMMA InboxInvariant == Spec => []IndInv
<1>1. IndInv /\ [Next]_vars => IndInv'
  <2> SUFFICES ASSUME IndInv, [Next]_vars PROVE IndInv'
    OBVIOUS
  <2>1. TypeOK' /\ Holding' /\ DownIsIdle'
    BY InboxTypeStep DEF IndInv
  <2>2. GroupsExact'
    BY <2>1, GroupsStep DEF IndInv
  <2>3. CoveredOnDisk' /\ AddedPending'
    BY CoveredStep, AddedStep DEF IndInv
  <2> QED
    BY <2>1, <2>2, <2>3 DEF IndInv
<1> QED
  BY <1>1, InboxInit, PTL DEF Spec

\* Every variable keeps its type: no step reads the root or the name of an item
\* that a worker does not have, and no count goes below zero.
THEOREM InboxTypeCorrect == Spec => []TypeOK
<1>1. IndInv => TypeOK
  BY DEF IndInv
<1> QED
  BY <1>1, InboxInvariant, PTL

\* Whatever the workers, Close, a kill and power losses do, a pack whose Commit
\* added an entry is in the store, in failed/ or in the inbox (Commit's rename
\* and syncDir before the enqueue; process's write before the removal).
THEOREM NoPackEverLost == Spec => []NoPackLost
<1>1. IndInv => NoPackLost
  <2> SUFFICES ASSUME IndInv, NEW b \in committed
               PROVE  b \in store \cup dir.failed \cup Entries
    BY DEF NoPackLost
  <2>1. b \in Body /\ Covers(dir, b)
    BY DEF IndInv, TypeOK, CoveredOnDisk
  <2> QED
    BY <2>1 DEF Covers, Entries
<1> QED
  BY <1>1, InboxInvariant, PTL

\* groups is exact in every reachable state: processLoop's guard against a
\* negative count never acts.
THEOREM GroupsAlwaysExact == Spec => []GroupsExact
<1>1. IndInv => GroupsExact
  BY DEF IndInv
<1> QED
  BY <1>1, InboxInvariant, PTL

\* WaitFor is a barrier for the pack of a Commit that added an entry.
THEOREM WaitForIsABarrier == Spec => BarrierHolds
<1>1. ASSUME IndInv, NEW c \in Client, WaitForReturns(c), cadded[c]
      PROVE  cbody[c] \in store \cup dir.failed \cup skipped
  <2>1. groups[croot[c]] = 0 /\ croot[c] \in Root
    BY <1>1 DEF WaitForReturns, IndInv, Holding
  <2>2. Cardinality(At(work, croot[c])) + Cardinality(Running(croot[c])) = 0
    BY <1>1, <2>1 DEF IndInv, GroupsExact, At, Running
  <2>3. At(work, croot[c]) = {} /\ Running(croot[c]) = {}
    <3>1. work \in Seq(Item)
      BY <1>1 DEF IndInv, TypeOK
    <3> QED
      BY <2>2, <3>1, CountsFinite, FS_EmptySet
  <2> DEFINE it == [name |-> cbody[c], root |-> croot[c]]
  <2>4. /\ \A i \in DOMAIN work : work[i] # it
        /\ \A w \in Worker : witem[w] # it
    BY <2>3 DEF At, Running
  <2>5. Settled(cbody[c])
    BY <1>1, <2>4 DEF IndInv, AddedPending
  <2> QED
    BY <2>5 DEF Settled
<1>2. IndInv => \A c \in Client : WaitForReturns(c) /\ cadded[c]
                  => cbody[c] \in store \cup dir.failed \cup skipped
  BY <1>1
<1> QED
  BY <1>2, InboxInvariant, PTL DEF BarrierHolds

=============================================================================

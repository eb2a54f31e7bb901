---------------------------- MODULE IngestProofs ----------------------------
(***************************************************************************)
(* Machine-checked facts about the parallel build of Ingest, for every     *)
(* tree, every pool and every channel; WriteParallelProofs uses them.      *)
(***************************************************************************)
EXTENDS Ingest, FiniteSetTheorems, TLAPS

\* Every node but the root is an entry of exactly one directory, its parent.
LEMMA ParentLemma ==
  ASSUME NEW n \in Node, n # RootNode
  PROVE  \E d \in Dir : \E i \in DOMAIN Entries[d] : Entries[d][i] = n /\ Parent(n) = d
<1> USE IngestAssumption, TreeAssumption
<1> DEFINE S == {RootNode} \cup {m \in Node : \E d \in Dir : m \in Children(d)}
<1>1. \A d \in Dir : ToSet(Entries[d]) \subseteq Node
  BY DEF ToSet
<1>2. S = Node
  <2>1. \A d \in Dir \cap S : ToSet(Entries[d]) \subseteq S
    BY <1>1 DEF Children
  <2>2. S \in SUBSET Node /\ RootNode \in S
    OBVIOUS
  <2> HIDE DEF S
  <2> QED
    BY <2>1, <2>2
<1>3. \E d \in Dir : \E i \in DOMAIN Entries[d] : Entries[d][i] = n
  BY <1>2 DEF Children, ToSet
<1>4. Parent(n) \in Dir /\ \E i \in DOMAIN Entries[Parent(n)] : Entries[Parent(n)][i] = n
  BY <1>3, Zenon DEF Parent
<1> QED
  BY <1>4

\* No directory is an entry of itself.
LEMMA NoSelfEntry ==
  ASSUME NEW d \in Dir
  PROVE  \A i \in DOMAIN Entries[d] : Entries[d][i] # d
<1> USE IngestAssumption, TreeAssumption
<1> SUFFICES ASSUME NEW i \in DOMAIN Entries[d], Entries[d][i] = d
             PROVE  FALSE
  OBVIOUS
<1> DEFINE S == Node \ {d}
<1>1. d # RootNode /\ S \in SUBSET Node /\ RootNode \in S /\ S # Node
  BY DEF ToSet
<1>2. \A e \in Dir \cap S : ToSet(Entries[e]) \subseteq S
  BY DEF ToSet
<1> HIDE DEF S
<1> QED
  BY <1>1, <1>2

\* The entries under an object of a directory are entries of it.
LEMMA UptoLemma ==
  ASSUME NEW d \in Dir, NEW k \in 1..Len(Objs[d]), NEW i \in 1..Upto[d][k]
  PROVE  i \in DOMAIN Entries[d] /\ Entries[d][i] \in Children(d) /\ Entries[d][i] \in Node
<1>1. Upto[d][k] \in 0..Len(Entries[d]) /\ Entries[d] \in Seq(Node)
  BY IngestAssumption, UptoAssumption
<1>2. i \in DOMAIN Entries[d]
  BY <1>1
<1> QED
  BY <1>1, <1>2 DEF Children, ToSet

\* The initial states satisfy the invariant.
LEMMA BuildInit == IngestInit => BuildInv
<1> SUFFICES ASSUME IngestInit PROVE BuildInv
  OBVIOUS
<1> USE IngestAssumption, TreeAssumption DEF IngestInit
<1>1. closed \in BOOLEAN /\ stop \in BOOLEAN /\ buildErr \in BOOLEAN
  BY Zenon
<1>2. IsFiniteSet(sem) /\ Cardinality(sem) = 0
  BY FS_EmptySet
<1>3. IngestTypeOK
  BY <1>1, <1>2 DEF IngestTypeOK
<1>4. CallTree
  <2>1. \A d \in Dir : \A i \in DOMAIN Entries[d] :
          i >= 1 /\ Entries[d][i] \in Node /\ Entries[d][i] # RootNode
    BY DEF ToSet
  <2> QED
    BY <1>2, <2>1 DEF CallTree, Active
<1>5. CallResults /\ Published
  BY DEF CallResults, Published
<1> QED
  BY <1>3, <1>4, <1>5 DEF BuildInv

\* What the end of a build call changes: the call, and the directory that waits
\* for it inline.
LEMMA EndLemma ==
  ASSUME BuildInv, NEW n \in Node, Active(n), NEW r \in {"ok", "err", "stopped"}, End(n, r)
  PROVE  /\ res' = [res EXCEPT ![n] = r] /\ sem' = sem \ {n}
         /\ bpc' \in [Node -> {"idle", "read", "walk", "inline", "emit", "done"}]
         /\ bpc'[n] = "done"
         /\ \A m \in Node : m # n =>
              \/ bpc'[m] = bpc[m]
              \/ /\ m \in Dir /\ bpc[m] = "inline" /\ bpc'[m] = "walk"
                 /\ \E i \in DOMAIN Entries[m] : Entries[m][i] = n /\ i = next[m] - 1
                 /\ n \notin sem
         /\ \A d \in Dir : \A i \in DOMAIN Entries[d] :
              Entries[d][i] = n /\ n \notin sem => bpc'[d] = "walk"
<1> USE IngestAssumption, TreeAssumption
<1>1. CASE n \in sem \/ n = RootNode
  <2>1. \A d \in Dir : \A i \in DOMAIN Entries[d] : Entries[d][i] = n => n \in sem
    BY <1>1 DEF ToSet
  <2> QED
    BY <1>1, <2>1 DEF End, BuildInv, IngestTypeOK
<1>2. CASE n \notin sem /\ n # RootNode
  <2>1. PICK d \in Dir : \E i \in DOMAIN Entries[d] : Entries[d][i] = n /\ Parent(n) = d
    BY <1>2, ParentLemma
  <2>2. PICK i \in DOMAIN Entries[d] : Entries[d][i] = n /\ Parent(n) = d
    BY <2>1
  <2>3. bpc[d] = "inline" /\ i = next[d] - 1 /\ d \in Node
    BY <1>2, <2>2 DEF BuildInv, CallTree
  <2>4. d # n
    BY <2>2, NoSelfEntry
  <2>5. bpc' = [bpc EXCEPT ![n] = "done", ![d] = "walk"]
        /\ res' = [res EXCEPT ![n] = r] /\ sem' = sem \ {n}
    BY <1>2, <2>2 DEF End
  <2>6. /\ bpc' \in [Node -> {"idle", "read", "walk", "inline", "emit", "done"}]
        /\ \A m \in Node : bpc'[m] = IF m = d THEN "walk" ELSE IF m = n THEN "done" ELSE bpc[m]
    <3>1. bpc \in [Node -> {"idle", "read", "walk", "inline", "emit", "done"}]
      BY DEF BuildInv, IngestTypeOK
    <3>2. [bpc EXCEPT ![n] = "done", ![d] = "walk"]
            \in [Node -> {"idle", "read", "walk", "inline", "emit", "done"}]
      BY <2>3, <2>4, <3>1
    <3>3. bpc' \in [Node -> {"idle", "read", "walk", "inline", "emit", "done"}]
      BY <2>5, <3>2, Zenon
    <3>4. ASSUME NEW m \in Node
          PROVE  bpc'[m] = IF m = d THEN "walk" ELSE IF m = n THEN "done" ELSE bpc[m]
      BY <2>3, <2>4, <2>5, <3>1
    <3> QED
      BY <3>3, <3>4
  <2>7. \A e \in Dir : \A j \in DOMAIN Entries[e] : Entries[e][j] = n => e = d
    BY <2>2
  <2> QED
    BY <1>2, <2>2, <2>3, <2>4, <2>5, <2>6, <2>7
<1> QED
  BY <1>1, <1>2

\* The end of a call keeps what the invariant says of the calls, provided that
\* success means all of its objects, after those of its entries.
LEMMA EndStep ==
  ASSUME BuildInv, NEW n \in Node, Active(n), NEW r \in {"ok", "err", "stopped"}, End(n, r),
         next' = next, sent' = [sent EXCEPT ![n] = sent'[n]], sent'[n] \in Nat, stop' = stop,
         r = "ok" => sent'[n] = Len(Objs[n]),
         r = "stopped" => stop,
         n \in Dir => \A c \in Children(n) : bpc[c] \in {"idle", "done"},
         sent'[n] <= Len(Objs[n]),
         n \in Dir /\ sent'[n] > 0 => \A i \in 1..Upto[n][sent'[n]] : res[Entries[n][i]] = "ok"
  PROVE  CallTree' /\ CallResults'
<1> USE IngestAssumption
<1>1. /\ bpc \in [Node -> {"idle", "read", "walk", "inline", "emit", "done"}]
      /\ next \in [Node -> Nat] /\ sent \in [Node -> Nat] /\ sem \subseteq Node
      /\ res \in [Node -> {"none", "ok", "err", "stopped"}]
      /\ CallTree /\ CallResults
  BY DEF BuildInv, IngestTypeOK
<1>2. \A d \in Dir : \A i \in DOMAIN Entries[d] : Entries[d][i] \in Node /\ Entries[d][i] \in Children(d)
  BY DEF Children, ToSet
<1>0. /\ res' = [res EXCEPT ![n] = r] /\ sem' = sem \ {n}
      /\ bpc' \in [Node -> {"idle", "read", "walk", "inline", "emit", "done"}]
      /\ bpc'[n] = "done"
      /\ \A m \in Node : m # n =>
           \/ bpc'[m] = bpc[m]
           \/ /\ m \in Dir /\ bpc[m] = "inline" /\ bpc'[m] = "walk"
              /\ \E i \in DOMAIN Entries[m] : Entries[m][i] = n /\ i = next[m] - 1
              /\ n \notin sem
      /\ \A d \in Dir : \A i \in DOMAIN Entries[d] :
           Entries[d][i] = n /\ n \notin sem => bpc'[d] = "walk"
  BY EndLemma
<1>3. CallTree'
  <2>1. IsFiniteSet(sem') /\ \A m \in sem' : Active(m)'
    <3>1. IsFiniteSet(sem \ {n})
      BY <1>1, FS_RemoveElement DEF CallTree
    <3> QED
      BY <1>1, <3>1, <1>0 DEF CallTree, Active
  <2>2. \A m \in Node : bpc'[m] \in {"walk", "inline"} => m \in Dir
    BY <1>1, <1>0 DEF CallTree
  <2>3. \A d \in Dir : next'[d] >= 1 /\ (bpc'[d] \in {"idle", "read"} => next'[d] = 1)
    BY <1>1, <1>0 DEF CallTree
  <2>4. ASSUME NEW d \in Dir, NEW i \in DOMAIN Entries[d]
        PROVE  LET c == Entries[d][i]
               IN  /\ bpc'[c] = "idle" <=> i >= next'[d]
                   /\ Active(c)' => bpc'[d] \in {"walk", "inline"}
                   /\ Active(c)' /\ c \notin sem' => bpc'[d] = "inline" /\ i = next'[d] - 1
    <3> DEFINE c == Entries[d][i]
    <3>1. c \in Node /\ d \in Node /\ i \in Nat
      BY <1>2
    <3>2. bpc'[c] = "idle" <=> i >= next'[d]
      <4>1. bpc[c] = "idle" <=> i >= next[d]
        BY <1>1 DEF CallTree
      <4>2. bpc[n] # "idle"
        BY DEF Active
      <4>3. bpc'[c] = "idle" <=> bpc[c] = "idle"
        BY <1>0, <3>1, <4>2
      <4> QED
        BY <4>1, <4>3
    <3>3. Active(c)' => Active(c) /\ c # n
      BY <1>1, <3>1, <1>0 DEF Active
    <3>4. Active(c)' => bpc'[d] \in {"walk", "inline"}
      <4>1. Active(c) => bpc[d] \in {"walk", "inline"}
        BY <1>1 DEF CallTree
      <4>2. d = n /\ Active(c) => FALSE
        BY <1>2 DEF Active
      <4> QED
        BY <3>1, <3>3, <4>1, <4>2, <1>0
    <3>5. Active(c)' /\ c \notin sem' => bpc'[d] = "inline" /\ i = next'[d] - 1
      <4> SUFFICES ASSUME Active(c)', c \notin sem' PROVE bpc'[d] = "inline" /\ i = next'[d] - 1
        OBVIOUS
      <4>1. Active(c) /\ c # n /\ c \notin sem
        BY <3>3, <1>0
      <4>2. bpc[d] = "inline" /\ i = next[d] - 1
        BY <1>1, <4>1 DEF CallTree
      <4>3. d # n
        BY <1>2, <4>1 DEF Active
      <4>4. bpc'[d] = bpc[d]
        BY <3>1, <4>1, <4>2, <4>3, <1>0
      <4> QED
        BY <4>2, <4>4
    <3> QED
      BY <3>2, <3>4, <3>5
  <2> QED
    BY <2>1, <2>2, <2>3, <2>4 DEF CallTree
<1>4. CallResults'
  <2> SUFFICES ASSUME NEW m \in Node
               PROVE  /\ bpc'[m] = "done" <=> res'[m] # "none"
                      /\ sent'[m] <= Len(Objs[m]) /\ (res'[m] = "ok" => sent'[m] = Len(Objs[m]))
                      /\ bpc'[m] = "emit" => sent'[m] < Len(Objs[m])
                      /\ bpc'[m] \in {"idle", "read", "walk", "inline"} => sent'[m] = 0
                      /\ res'[m] = "stopped" => stop'
                      /\ m \in Dir /\ bpc'[m] = "emit" => \A c \in Children(m) : res'[c] # "none"
                      /\ m \in Dir /\ sent'[m] > 0 =>
                           \A i \in 1..Upto[m][sent'[m]] : res'[Entries[m][i]] = "ok"
    BY DEF CallResults
  <2>1. res[n] = "none"
    BY <1>1 DEF CallResults, Active
  <2>2. \A c \in Node : res[c] = "ok" => res'[c] = "ok"
    BY <1>1, <2>1, <1>0
  <2>3. \A d \in Dir : Children(d) \subseteq Node
    BY DEF Children, ToSet
  <2>4. CASE m = n
    <3>1. bpc'[n] = "done" /\ res'[n] = r /\ r # "none" /\ stop' = stop
      BY <1>1, <1>0
    <3>2. n \in Dir /\ sent'[n] > 0 =>
            \A i \in 1..Upto[n][sent'[n]] : res'[Entries[n][i]] = "ok"
      <4> SUFFICES ASSUME n \in Dir, sent'[n] > 0, NEW i \in 1..Upto[n][sent'[n]]
                   PROVE  res'[Entries[n][i]] = "ok"
        OBVIOUS
      <4>1. sent'[n] \in 1..Len(Objs[n])
        OBVIOUS
      <4> QED
        BY <2>2, <4>1, UptoLemma
    <3> QED
      BY <2>4, <3>1, <3>2
  <2>5. CASE m # n
    <3>0. \A c \in Node : res[c] # "none" => res'[c] # "none"
      BY <1>1, <1>0
    <3>1. res'[m] = res[m] /\ sent'[m] = sent[m]
      BY <1>1, <2>5, <1>0
    <3>2. bpc'[m] = bpc[m] \/ (bpc[m] = "inline" /\ bpc'[m] = "walk")
      BY <2>5, <1>0
    <3>3. m \in Dir /\ sent'[m] > 0 =>
            \A i \in 1..Upto[m][sent'[m]] : res'[Entries[m][i]] = "ok"
      <4> SUFFICES ASSUME m \in Dir, sent[m] > 0, NEW i \in 1..Upto[m][sent[m]]
                   PROVE  res'[Entries[m][i]] = "ok"
        BY <3>1
      <4>1. sent[m] \in 1..Len(Objs[m]) /\ res[Entries[m][i]] = "ok"
        BY <1>1 DEF CallResults
      <4> QED
        BY <2>2, <4>1, UptoLemma
    <3>4. m \in Dir /\ bpc'[m] = "emit" => \A c \in Children(m) : res'[c] # "none"
      BY <1>1, <2>3, <3>0, <3>2 DEF CallResults
    <3> QED
      BY <1>1, <3>1, <3>2, <3>3, <3>4 DEF CallResults
  <2> QED
    BY <2>4, <2>5
<1> QED
  BY <1>3, <1>4

\* The end of a call keeps the types and the bound of the pool, and what objects
\* has published.
LEMMA EndType ==
  ASSUME BuildInv, NEW n \in Node, Active(n), NEW r \in {"ok", "err", "stopped"}, End(n, r)
  PROVE  /\ bpc' \in [Node -> {"idle", "read", "walk", "inline", "emit", "done"}]
         /\ res' \in [Node -> {"none", "ok", "err", "stopped"}]
         /\ sem' \subseteq Node /\ Cardinality(sem') <= Jobs
         /\ closed => bpc'[RootNode] = "done" /\ res'[RootNode] = res[RootNode]
<1> USE IngestAssumption
<1>1. /\ bpc' \in [Node -> {"idle", "read", "walk", "inline", "emit", "done"}]
      /\ res' = [res EXCEPT ![n] = r] /\ sem' = sem \ {n}
  BY EndLemma
<1>2. res' \in [Node -> {"none", "ok", "err", "stopped"}]
  BY <1>1 DEF BuildInv, IngestTypeOK
<1>3. sem' \subseteq Node /\ Cardinality(sem') <= Jobs
  <2>1. IsFiniteSet(sem) /\ sem \subseteq Node /\ Cardinality(sem) <= Jobs
    BY DEF BuildInv, CallTree, IngestTypeOK
  <2>2. Cardinality(sem \ {n}) = IF n \in sem THEN Cardinality(sem) - 1 ELSE Cardinality(sem)
    BY <2>1, FS_RemoveElement
  <2>3. Cardinality(sem) \in Nat
    BY <2>1, FS_CardinalityType
  <2> QED
    BY <1>1, <2>1, <2>2, <2>3
<1>4. closed => bpc'[RootNode] = "done" /\ res'[RootNode] = res[RootNode]
  <2> SUFFICES ASSUME closed PROVE bpc'[RootNode] = "done" /\ res'[RootNode] = res[RootNode]
    OBVIOUS
  <2>1. bpc[RootNode] = "done" /\ RootNode \in Node
    BY DEF BuildInv, Published
  <2>2. RootNode # n
    BY <2>1 DEF Active
  <2>3. bpc'[RootNode] = bpc[RootNode] \/ bpc[RootNode] = "inline"
    BY <2>1, <2>2, EndLemma
  <2> QED
    BY <1>1, <2>1, <2>2, <2>3 DEF BuildInv, IngestTypeOK
<1> QED
  BY <1>1, <1>2, <1>3, <1>4

\* A call that ends without touching the channel, with or without an error.
LEMMA EndKeeps ==
  ASSUME BuildInv, NEW n \in Node, Active(n), NEW r \in {"ok", "err", "stopped"}, End(n, r),
         UNCHANGED <<next, sent, objectsVars>>,
         r = "ok" => sent[n] = Len(Objs[n]),
         r = "stopped" => stop,
         n \in Dir => \A c \in Children(n) : bpc[c] \in {"idle", "done"},
         n \in Dir /\ sent[n] > 0 => \A i \in 1..Upto[n][sent[n]] : res[Entries[n][i]] = "ok"
  PROVE  BuildInv'
<1>1. sent \in [Node -> Nat] /\ next \in [Node -> Nat]
  BY DEF BuildInv, IngestTypeOK
<1>2. sent' = sent /\ next' = next /\ stop' = stop /\ closed' = closed /\ built' = built
      /\ buildErr' = buildErr /\ root' = root
  BY DEF objectsVars
<1>3. sent' = [sent EXCEPT ![n] = sent'[n]] /\ sent'[n] \in Nat
  BY <1>1, <1>2
<1>4. CallTree' /\ CallResults'
  <2>1. sent[n] <= Len(Objs[n])
    BY DEF BuildInv, CallResults
  <2> QED
    BY <1>2, <1>3, <2>1, EndStep
<1>5. IngestTypeOK'
  <2>1. /\ bpc' \in [Node -> {"idle", "read", "walk", "inline", "emit", "done"}]
        /\ res' \in [Node -> {"none", "ok", "err", "stopped"}]
        /\ sem' \subseteq Node /\ Cardinality(sem') <= Jobs
    BY EndType
  <2>2. IngestTypeOK
    BY DEF BuildInv
  <2> QED
    BY <1>2, <2>1, <2>2 DEF IngestTypeOK
<1>6. Published'
  <2>1. closed => bpc'[RootNode] = "done" /\ res'[RootNode] = res[RootNode]
    BY EndType
  <2> QED
    BY <1>2, <2>1 DEF BuildInv, Published
<1> QED
  BY <1>4, <1>5, <1>6 DEF BuildInv

\* The entries of a directory that has not begun its loop are idle, those of one
\* that emits are done.
LEMMA EntriesOf ==
  ASSUME BuildInv, NEW n \in Node
  PROVE  /\ n \in Dir /\ bpc[n] = "read" => \A c \in Children(n) : bpc[c] = "idle"
         /\ n \in Dir /\ bpc[n] = "emit" =>
              \A c \in Children(n) : res[c] # "none" /\ bpc[c] = "done"
         /\ n \in Dir => Children(n) \subseteq Node
<1> USE IngestAssumption
<1>1. n \in Dir => Children(n) \subseteq Node
  BY DEF Children, ToSet
<1>2. n \in Dir /\ bpc[n] = "read" => \A c \in Children(n) : bpc[c] = "idle"
  <2> SUFFICES ASSUME n \in Dir, bpc[n] = "read", NEW i \in DOMAIN Entries[n]
               PROVE  bpc[Entries[n][i]] = "idle"
    BY DEF Children, ToSet
  <2>1. next[n] = 1 /\ i >= 1
    BY DEF BuildInv, CallTree
  <2> QED
    BY <2>1 DEF BuildInv, CallTree
<1>3. n \in Dir /\ bpc[n] = "emit" => \A c \in Children(n) : res[c] # "none" /\ bpc[c] = "done"
  BY <1>1 DEF BuildInv, CallResults
<1> QED
  BY <1>1, <1>2, <1>3

\* Steps that end a call with an error: its own, one of its entries', or the stop.
LEMMA FailSteps ==
  ASSUME BuildInv, NEW n \in Node,
         ReadFails(n) \/ EmitStopped(n) \/ (n \in Dir /\ EntryFailed(n))
  PROVE  BuildInv'
<1>1. Active(n) /\ bpc[n] \in {"read", "emit"}
  BY DEF ReadFails, EmitStopped, EntryFailed, Active
<1>2. n \in Dir => \A c \in Children(n) : bpc[c] \in {"idle", "done"}
  BY <1>1, EntriesOf
<1>3. n \in Dir /\ sent[n] > 0 => \A i \in 1..Upto[n][sent[n]] : res[Entries[n][i]] = "ok"
  BY DEF BuildInv, CallResults
<1>4. CASE ReadFails(n)
  BY <1>1, <1>2, <1>3, <1>4, EndKeeps DEF ReadFails
<1>5. CASE EmitStopped(n)
  BY <1>1, <1>2, <1>3, <1>5, EndKeeps DEF EmitStopped
<1>6. CASE n \in Dir /\ EntryFailed(n)
  <2>1. PICK i \in Refused(n) : End(n, res[Entries[n][i]])
    BY <1>6 DEF EntryFailed
  <2>2. sent[n] + 1 \in 1..Len(Objs[n]) /\ i \in 1..Upto[n][sent[n] + 1]
        /\ res[Entries[n][i]] \in {"err", "stopped"}
    BY <1>6, <2>1 DEF EntryFailed, Refused, BuildInv, CallResults, IngestTypeOK
  <2>3. Entries[n][i] \in Node
    BY <1>6, <2>2, UptoLemma
  <2>4. res[Entries[n][i]] = "stopped" => stop
    BY <2>3 DEF BuildInv, CallResults
  <2>5. PICK r \in {"ok", "err", "stopped"} : r = res[Entries[n][i]]
    BY <2>2
  <2>6. End(n, r) /\ r # "ok" /\ (r = "stopped" => stop)
    BY <2>1, <2>2, <2>4, <2>5
  <2>7. UNCHANGED <<next, sent, objectsVars>>
    BY <1>6 DEF EntryFailed
  <2> QED
    BY <1>1, <1>2, <1>3, <2>6, <2>7, EndKeeps
<1> QED
  BY <1>4, <1>5, <1>6

\* A call that goes on, and leaves everything but its control state alone.
LEMMA MoveKeeps ==
  ASSUME BuildInv, NEW n \in Node, NEW s \in {"walk", "emit"}, bpc' = [bpc EXCEPT ![n] = s],
         UNCHANGED <<next, sent, res, sem, objectsVars>>,
         bpc[n] \in {"read", "walk"}, s = "walk" => n \in Dir,
         s = "emit" => /\ sent[n] < Len(Objs[n])
                       /\ n \in Dir => \A c \in Children(n) : res[c] # "none"
  PROVE  BuildInv'
<1> USE IngestAssumption
<1>1. /\ sent' = sent /\ next' = next /\ stop' = stop /\ closed' = closed /\ built' = built
      /\ buildErr' = buildErr /\ root' = root /\ res' = res /\ sem' = sem
  BY DEF objectsVars
<1>2. /\ bpc \in [Node -> {"idle", "read", "walk", "inline", "emit", "done"}]
      /\ bpc' \in [Node -> {"idle", "read", "walk", "inline", "emit", "done"}]
      /\ bpc'[n] = s /\ \A m \in Node : m # n => bpc'[m] = bpc[m]
  BY DEF BuildInv, IngestTypeOK
<1>3. IngestTypeOK'
  BY <1>1, <1>2 DEF BuildInv, IngestTypeOK
<1>4. CallTree'
  <2>1. \A m \in Node : Active(m)' <=> Active(m)
    BY <1>2 DEF Active
  <2>2. IsFiniteSet(sem') /\ \A m \in sem' : Active(m)'
    BY <1>1, <2>1 DEF BuildInv, CallTree, IngestTypeOK
  <2>3. \A m \in Node : bpc'[m] \in {"walk", "inline"} => m \in Dir
    BY <1>2 DEF BuildInv, CallTree
  <2>4. \A d \in Dir : next'[d] >= 1 /\ (bpc'[d] \in {"idle", "read"} => next'[d] = 1)
    BY <1>1, <1>2 DEF BuildInv, CallTree
  <2>5. ASSUME NEW d \in Dir, NEW i \in DOMAIN Entries[d]
        PROVE  LET c == Entries[d][i]
               IN  /\ bpc'[c] = "idle" <=> i >= next'[d]
                   /\ Active(c)' => bpc'[d] \in {"walk", "inline"}
                   /\ Active(c)' /\ c \notin sem' => bpc'[d] = "inline" /\ i = next'[d] - 1
    <3> DEFINE c == Entries[d][i]
    <3>1. c \in Node /\ d \in Node /\ c \in Children(d)
      BY DEF Children, ToSet
    <3>2. /\ bpc[c] = "idle" <=> i >= next[d]
          /\ Active(c) => bpc[d] \in {"walk", "inline"}
          /\ Active(c) /\ c \notin sem => bpc[d] = "inline" /\ i = next[d] - 1
      BY DEF BuildInv, CallTree
    <3>3. bpc'[c] = "idle" <=> bpc[c] = "idle"
      BY <1>2, <3>1
    <3>4. Active(c) /\ d = n => s = "walk"
      <4>1. n \in Node /\ res[c] # "none" => bpc[c] = "done"
        BY <3>1 DEF BuildInv, CallResults
      <4> QED
        BY <3>1, <4>1 DEF Active
    <3> QED
      BY <1>1, <1>2, <2>1, <3>1, <3>2, <3>3, <3>4
  <2> QED
    BY <2>2, <2>3, <2>4, <2>5 DEF CallTree
<1>5. CallResults'
  <2> SUFFICES ASSUME NEW m \in Node
               PROVE  /\ bpc'[m] = "done" <=> res'[m] # "none"
                      /\ sent'[m] <= Len(Objs[m]) /\ (res'[m] = "ok" => sent'[m] = Len(Objs[m]))
                      /\ bpc'[m] = "emit" => sent'[m] < Len(Objs[m])
                      /\ bpc'[m] \in {"idle", "read", "walk", "inline"} => sent'[m] = 0
                      /\ res'[m] = "stopped" => stop'
                      /\ m \in Dir /\ bpc'[m] = "emit" => \A c \in Children(m) : res'[c] # "none"
                      /\ m \in Dir /\ sent'[m] > 0 =>
                           \A i \in 1..Upto[m][sent'[m]] : res'[Entries[m][i]] = "ok"
    BY DEF CallResults
  <2> QED
    BY <1>1, <1>2 DEF BuildInv, CallResults
<1>6. Published'
  BY <1>1, <1>2 DEF BuildInv, Published
<1> QED
  BY <1>3, <1>4, <1>5, <1>6 DEF BuildInv

\* A node is read, and found to be a directory, a file or a node without content;
\* or the entries of a directory have joined.
LEMMA ReadSteps ==
  ASSUME BuildInv, NEW n \in Node, ReadDir(n) \/ OpenFile(n) \/ (n \in Dir /\ Assemble(n))
  PROVE  BuildInv'
<1> USE IngestAssumption
<1>1. CASE ReadDir(n)
  BY <1>1, MoveKeeps DEF ReadDir
<1>2. CASE OpenFile(n)
  <2>1. n \notin Dir /\ Active(n) /\ sent[n] = 0 /\ bpc[n] = "read" /\ Objs[n] \in Seq(Key)
    BY <1>2 DEF OpenFile, Active, BuildInv, CallResults
  <2>2. CASE Objs[n] = <<>>
    BY <1>2, <2>1, <2>2, EndKeeps DEF OpenFile
  <2>3. CASE Objs[n] # <<>>
    <3>1. sent[n] < Len(Objs[n])
      BY <2>1, <2>3
    <3> QED
      BY <1>2, <2>1, <2>3, <3>1, MoveKeeps DEF OpenFile
  <2> QED
    BY <2>2, <2>3
<1>3. CASE n \in Dir /\ Assemble(n)
  <2>1. /\ bpc[n] = "walk" /\ sent[n] = 0 /\ Objs[n] \in Seq(Key) /\ Objs[n] # <<>>
        /\ \A c \in Children(n) : bpc[c] = "done" /\ c \in Node
    BY <1>3, EntriesOf DEF Assemble, Joined, BuildInv, CallResults
  <2>2. sent[n] < Len(Objs[n]) /\ \A c \in Children(n) : res[c] # "none"
    BY <2>1 DEF BuildInv, CallResults
  <2> QED
    BY <1>3, <2>1, <2>2, MoveKeeps DEF Assemble
<1> QED
  BY <1>1, <1>2, <1>3

\* A directory starts the build call of its next entry, on the pool or inline.
LEMMA StartSteps ==
  ASSUME BuildInv, NEW n \in Dir, Offload(n) \/ Inline(n)
  PROVE  BuildInv'
<1> USE IngestAssumption
<1> DEFINE e == Entries[n][next[n]]
<1>1. /\ bpc \in [Node -> {"idle", "read", "walk", "inline", "emit", "done"}]
      /\ next \in [Node -> Nat] /\ sem \subseteq Node /\ IsFiniteSet(sem)
      /\ \A d \in Dir : Entries[d] \in Seq(Node) /\ d \in Node
      /\ \A m \in sem : Active(m)
  BY DEF BuildInv, IngestTypeOK, CallTree
<1>2. next[n] \in DOMAIN Entries[n] /\ e \in Node /\ bpc[n] = "walk" /\ n \in Node
  <2>1. next[n] >= 1 /\ next[n] \in Nat
    BY <1>1 DEF BuildInv, CallTree
  <2>2. next[n] <= Len(Entries[n]) /\ bpc[n] = "walk"
    BY DEF Offload, Inline
  <2> QED
    BY <1>1, <2>1, <2>2
<1>3. bpc[e] = "idle" /\ e # n /\ e # RootNode /\ e \notin sem
  <2>1. bpc[e] = "idle"
    <3>1. next[n] >= next[n]
      BY <1>1, <1>2
    <3> QED
      BY <1>2, <3>1 DEF BuildInv, CallTree
  <2>2. e # RootNode
    BY <1>2, TreeAssumption DEF ToSet
  <2> QED
    BY <1>1, <1>2, <2>1, <2>2 DEF Active
<1>4. /\ next' = [next EXCEPT ![n] = next[n] + 1]
      /\ sent' = sent /\ res' = res /\ built' = built /\ closed' = closed /\ stop' = stop
      /\ buildErr' = buildErr /\ root' = root
  BY DEF Offload, Inline, objectsVars
<1>5. \/ /\ sem' = sem \cup {e} /\ bpc' = [bpc EXCEPT ![e] = "read"] /\ Cardinality(sem) < Jobs
      \/ sem' = sem /\ bpc' = [bpc EXCEPT ![e] = "read", ![n] = "inline"]
  BY DEF Offload, Inline
<1> HIDE DEF e
<1>6. /\ bpc' \in [Node -> {"idle", "read", "walk", "inline", "emit", "done"}]
      /\ bpc'[e] = "read" /\ \A m \in Node : m # e /\ m # n => bpc'[m] = bpc[m]
      /\ bpc'[n] = IF e \in sem' THEN "walk" ELSE "inline"
  <2>1. CASE sem' = sem \cup {e} /\ bpc' = [bpc EXCEPT ![e] = "read"]
    BY <1>1, <1>2, <1>3, <2>1
  <2>2. CASE sem' = sem /\ bpc' = [bpc EXCEPT ![e] = "read", ![n] = "inline"]
    <3>1. [bpc EXCEPT ![e] = "read", ![n] = "inline"]
            \in [Node -> {"idle", "read", "walk", "inline", "emit", "done"}]
      BY <1>1, <1>2, <1>3
    <3>2. bpc' \in [Node -> {"idle", "read", "walk", "inline", "emit", "done"}]
      BY <2>2, <3>1, Zenon
    <3>3. /\ bpc'[e] = "read" /\ \A m \in Node : m # e /\ m # n => bpc'[m] = bpc[m]
          /\ bpc'[n] = "inline"
      BY <1>1, <1>2, <1>3, <2>2
    <3> QED
      BY <1>3, <2>2, <3>2, <3>3
  <2> QED
    BY <1>5, <2>1, <2>2
<1>7. /\ sem' \subseteq Node /\ IsFiniteSet(sem') /\ Cardinality(sem') <= Jobs
      /\ sem' \subseteq sem \cup {e} /\ sem \subseteq sem'
  <2>1. IsFiniteSet(sem \cup {e}) /\ Cardinality(sem \cup {e}) = Cardinality(sem) + 1
    BY <1>1, <1>3, FS_AddElement
  <2>2. Cardinality(sem) \in Nat /\ Cardinality(sem) <= Jobs
    BY <1>1, FS_CardinalityType DEF BuildInv, IngestTypeOK
  <2>3. CASE sem' = sem \cup {e} /\ Cardinality(sem) < Jobs
    BY <1>1, <1>2, <2>1, <2>2, <2>3
  <2>4. CASE sem' = sem
    BY <1>1, <2>2, <2>4
  <2> QED
    BY <1>5, <2>3, <2>4
<1>8. next' \in [Node -> Nat] /\ next'[n] = next[n] + 1 /\ \A m \in Node : m # n => next'[m] = next[m]
  BY <1>1, <1>2, <1>4
<1>9. IngestTypeOK'
  BY <1>4, <1>6, <1>7, <1>8 DEF BuildInv, IngestTypeOK
<1>10. CallTree'
  <2>1. \A m \in sem' : Active(m)'
    BY <1>1, <1>2, <1>6, <1>7 DEF Active
  <2>2. \A m \in Node : bpc'[m] \in {"walk", "inline"} => m \in Dir
    BY <1>1, <1>2, <1>6 DEF BuildInv, CallTree
  <2>3. \A d \in Dir : next'[d] >= 1 /\ (bpc'[d] \in {"idle", "read"} => next'[d] = 1)
    <3> SUFFICES ASSUME NEW d \in Dir
                 PROVE  next'[d] >= 1 /\ (bpc'[d] \in {"idle", "read"} => next'[d] = 1)
      OBVIOUS
    <3>1. d \in Node /\ next[d] \in Nat /\ next[d] >= 1 /\ (bpc[d] \in {"idle", "read"} => next[d] = 1)
      BY <1>1 DEF BuildInv, CallTree
    <3>2. CASE d = n
      <4>1. next'[d] = next[d] + 1 /\ bpc'[d] \in {"walk", "inline"}
        BY <1>6, <1>8, <3>2
      <4> QED
        BY <3>1, <4>1
    <3>3. CASE d = e
      BY <1>3, <1>6, <1>8, <3>1, <3>3
    <3>4. CASE d # n /\ d # e
      BY <1>6, <1>8, <3>1, <3>4
    <3> QED
      BY <3>2, <3>3, <3>4
  <2>4. ASSUME NEW d \in Dir, NEW i \in DOMAIN Entries[d]
        PROVE  LET c == Entries[d][i]
               IN  /\ bpc'[c] = "idle" <=> i >= next'[d]
                   /\ Active(c)' => bpc'[d] \in {"walk", "inline"}
                   /\ Active(c)' /\ c \notin sem' => bpc'[d] = "inline" /\ i = next'[d] - 1
    <3>1. d \in Node /\ i \in Nat /\ next[d] \in Nat /\ Entries[d][i] \in Node
      BY <1>1
    <3>2. PICK c \in Node : c = Entries[d][i]
      BY <3>1
    <3>3. /\ bpc[c] = "idle" <=> i >= next[d]
          /\ Active(c) => bpc[d] \in {"walk", "inline"}
          /\ Active(c) /\ c \notin sem => bpc[d] = "inline" /\ i = next[d] - 1
      BY <3>2 DEF BuildInv, CallTree
    <3>4. c = e <=> d = n /\ i = next[n]
      BY <1>2, <3>2, TreeAssumption DEF e
    <3> SUFFICES /\ bpc'[c] = "idle" <=> i >= next'[d]
                 /\ Active(c)' => bpc'[d] \in {"walk", "inline"}
                 /\ Active(c)' /\ c \notin sem' => bpc'[d] = "inline" /\ i = next'[d] - 1
      BY <3>2
    <3>5. CASE c = e
      <4>1. i = next'[d] - 1 /\ ~(i >= next'[d]) /\ bpc'[c] = "read"
        <5>1. d = n /\ i = next[n] /\ next'[d] = next[n] + 1 /\ next[n] \in Nat
          BY <1>8, <3>1, <3>4, <3>5
        <5> QED
          BY <1>6, <3>1, <3>5, <5>1
      <4> QED
        BY <1>6, <3>4, <3>5, <4>1
    <3>6. CASE c # e
      <4>1. (bpc'[c] = "idle" <=> bpc[c] = "idle") /\ (Active(c)' <=> Active(c)) /\ (c \in sem' <=> c \in sem)
        BY <1>2, <1>3, <1>6, <1>7, <3>6 DEF Active
      <4>2. CASE d = n
        <5>1. i # next[n] /\ next'[d] = next[n] + 1 /\ bpc'[d] \in {"walk", "inline"}
          BY <1>6, <1>8, <3>4, <3>6, <4>2
        <5>2. i >= next[d] <=> i >= next'[d]
          BY <3>1, <4>2, <5>1
        <5>3. Active(c) => c \in sem
          BY <1>2, <3>3, <4>2
        <5> QED
          BY <3>3, <4>1, <5>1, <5>2, <5>3
      <4>3. CASE d # n
        <5>1. Active(c) => d # e
          BY <1>3, <3>3
        <5>2. next'[d] = next[d] /\ (Active(c) => bpc'[d] = bpc[d])
          BY <1>6, <1>8, <3>1, <4>3, <5>1
        <5> QED
          BY <3>3, <4>1, <5>2
      <4> QED
        BY <4>2, <4>3
    <3> QED
      BY <3>5, <3>6
  <2> QED
    BY <1>7, <2>1, <2>2, <2>3, <2>4 DEF CallTree
<1>11. CallResults'
  <2> SUFFICES ASSUME NEW m \in Node
               PROVE  /\ bpc'[m] = "done" <=> res'[m] # "none"
                      /\ sent'[m] <= Len(Objs[m]) /\ (res'[m] = "ok" => sent'[m] = Len(Objs[m]))
                      /\ bpc'[m] = "emit" => sent'[m] < Len(Objs[m])
                      /\ bpc'[m] \in {"idle", "read", "walk", "inline"} => sent'[m] = 0
                      /\ res'[m] = "stopped" => stop'
                      /\ m \in Dir /\ bpc'[m] = "emit" => \A c \in Children(m) : res'[c] # "none"
                      /\ m \in Dir /\ sent'[m] > 0 =>
                           \A i \in 1..Upto[m][sent'[m]] : res'[Entries[m][i]] = "ok"
    BY DEF CallResults
  <2>1. \/ bpc'[m] = bpc[m]
        \/ bpc[m] \in {"idle", "walk"} /\ bpc'[m] \in {"read", "walk", "inline"}
    BY <1>2, <1>3, <1>6
  <2> QED
    BY <1>4, <2>1 DEF BuildInv, CallResults
<1>12. Published'
  BY <1>2, <1>3, <1>4, <1>6 DEF BuildInv, Published
<1> QED
  BY <1>9, <1>10, <1>11, <1>12 DEF BuildInv

\* A call emits an object, its last one or not.
LEMMA EmitStep ==
  ASSUME BuildInv, NEW n \in Node, Emit(n)
  PROVE  BuildInv'
<1> USE IngestAssumption
<1>1. /\ sent \in [Node -> Nat] /\ next \in [Node -> Nat] /\ built \in Seq(Key)
      /\ Objs[n] \in Seq(Key) /\ sent[n] \in Nat
  BY DEF BuildInv, IngestTypeOK
<1>2. bpc[n] = "emit" /\ sent[n] < Len(Objs[n]) /\ Active(n)
  BY DEF Emit, BuildInv, CallResults, Active
<1>3. /\ sent' = [sent EXCEPT ![n] = sent[n] + 1] /\ built' = Append(built, Objs[n][sent[n] + 1])
      /\ Len(built) < BufSize /\ next' = next /\ closed' = closed /\ stop' = stop
      /\ buildErr' = buildErr /\ root' = root
  BY DEF Emit
<1>4. built' \in Seq(Key) /\ Len(built') <= BufSize
  <2>1. Objs[n][sent[n] + 1] \in Key
    BY <1>1, <1>2
  <2> QED
    BY <1>1, <1>3, <2>1
<1>5. /\ sent' \in [Node -> Nat] /\ sent'[n] = sent[n] + 1
      /\ \A m \in Node : m # n => sent'[m] = sent[m]
  BY <1>1, <1>3
<1>6. n \in Dir => \A c \in Children(n) : res[c] # "none" /\ bpc[c] = "done"
  BY <1>2, EntriesOf
<1>9. n \in Dir => \A i \in 1..Upto[n][sent[n] + 1] : res[Entries[n][i]] = "ok"
  <2> SUFFICES ASSUME n \in Dir, NEW i \in 1..Upto[n][sent[n] + 1]
               PROVE  res[Entries[n][i]] = "ok"
    OBVIOUS
  <2>1. sent[n] + 1 \in 1..Len(Objs[n])
    BY <1>1, <1>2
  <2>2. Entries[n][i] \in Children(n) /\ Entries[n][i] \in Node
    BY <2>1, UptoLemma
  <2>3. res[Entries[n][i]] \notin {"err", "stopped"}
    BY DEF Emit, Refused
  <2> QED
    BY <1>6, <2>2, <2>3 DEF BuildInv, IngestTypeOK
<1>7. CASE sent[n] + 1 = Len(Objs[n])
  <2>1. End(n, "ok")
    BY <1>7 DEF Emit
  <2>2. sent' = [sent EXCEPT ![n] = sent'[n]] /\ sent'[n] \in Nat /\ sent'[n] = Len(Objs[n])
    BY <1>1, <1>3, <1>5, <1>7
  <2>3. PICK r \in {"ok", "err", "stopped"} : r = "ok"
    OBVIOUS
  <2>4. End(n, r)
    BY <2>1, <2>3
  <2>9. /\ n \in Dir /\ sent'[n] > 0 => \A i \in 1..Upto[n][sent'[n]] : res[Entries[n][i]] = "ok"
        /\ n \in Dir => \A c \in Children(n) : bpc[c] \in {"idle", "done"}
        /\ sent'[n] <= Len(Objs[n])
    BY <1>1, <1>5, <1>6, <1>9, <2>2
  <2>5. CallTree' /\ CallResults'
    BY <1>2, <1>3, <2>2, <2>3, <2>4, <2>9, EndStep
  <2>6. /\ bpc' \in [Node -> {"idle", "read", "walk", "inline", "emit", "done"}]
        /\ res' \in [Node -> {"none", "ok", "err", "stopped"}]
        /\ sem' \subseteq Node /\ Cardinality(sem') <= Jobs
        /\ closed => bpc'[RootNode] = "done" /\ res'[RootNode] = res[RootNode]
    BY <1>2, <2>4, EndType
  <2>7. IngestTypeOK'
    BY <1>1, <1>3, <1>4, <1>5, <2>6 DEF BuildInv, IngestTypeOK
  <2>8. Published'
    BY <1>3, <2>6 DEF BuildInv, Published
  <2> QED
    BY <2>5, <2>7, <2>8 DEF BuildInv
<1>8. CASE sent[n] + 1 # Len(Objs[n])
  <2>1. bpc' = bpc /\ res' = res /\ sem' = sem
    BY <1>8 DEF Emit
  <2>2. IngestTypeOK'
    BY <1>3, <1>4, <1>5, <2>1 DEF BuildInv, IngestTypeOK
  <2>3. CallTree' /\ Published'
    BY <1>3, <2>1 DEF BuildInv, CallTree, Published, Active
  <2>4. CallResults'
    <3> SUFFICES ASSUME NEW m \in Node
                 PROVE  /\ bpc'[m] = "done" <=> res'[m] # "none"
                        /\ sent'[m] <= Len(Objs[m]) /\ (res'[m] = "ok" => sent'[m] = Len(Objs[m]))
                        /\ bpc'[m] = "emit" => sent'[m] < Len(Objs[m])
                        /\ bpc'[m] \in {"idle", "read", "walk", "inline"} => sent'[m] = 0
                        /\ res'[m] = "stopped" => stop'
                        /\ m \in Dir /\ bpc'[m] = "emit" => \A c \in Children(m) : res'[c] # "none"
                        /\ m \in Dir /\ sent'[m] > 0 =>
                             \A i \in 1..Upto[m][sent'[m]] : res'[Entries[m][i]] = "ok"
      BY DEF CallResults
    <3>1. CASE m = n
      <4>1. res[n] = "none"
        BY <1>2 DEF BuildInv, CallResults
      <4>2. sent'[n] < Len(Objs[n])
        BY <1>1, <1>2, <1>5, <1>8
      <4> QED
        BY <1>2, <1>3, <1>5, <1>6, <1>9, <2>1, <3>1, <4>1, <4>2
    <3>2. CASE m # n
      <4>1. sent'[m] = sent[m]
        BY <1>5, <3>2
      <4> QED
        BY <1>3, <2>1, <4>1 DEF BuildInv, CallResults
    <3> QED
      BY <3>1, <3>2
  <2> QED
    BY <2>2, <2>3, <2>4 DEF BuildInv
<1> QED
  BY <1>7, <1>8

\* The steps of objects and of its consumer.
LEMMA ObjectsSteps ==
  ASSUME BuildInv, BuildReturns \/ Receive \/ CancelBuild \/ UNCHANGED ingestVars
  PROVE  BuildInv'
<1> USE IngestAssumption
<1>1. CASE BuildReturns
  <2>1. /\ closed' = TRUE /\ buildErr' = (res[RootNode] = "err")
        /\ root' = (IF res[RootNode] = "ok" THEN Last(Objs[RootNode]) ELSE root)
        /\ bpc[RootNode] = "done" /\ UNCHANGED <<bpc, next, sent, res, sem, built, stop>>
    BY <1>1 DEF BuildReturns, buildVars
  <2>2. res[RootNode] = "ok" => Last(Objs[RootNode]) \in Key
    <3>1. Objs[RootNode] \in Seq(Key) /\ Objs[RootNode] # <<>>
      OBVIOUS
    <3> QED
      BY <3>1 DEF Last
  <2>3. IngestTypeOK'
    <3>1. closed' \in BOOLEAN /\ buildErr' \in BOOLEAN
      BY <2>1, Zenon
    <3>2. root' \in Key \cup {NoKey}
      BY <2>1, <2>2 DEF BuildInv, IngestTypeOK
    <3> QED
      BY <2>1, <3>1, <3>2 DEF BuildInv, IngestTypeOK
  <2>4. CallTree' /\ CallResults'
    BY <2>1 DEF BuildInv, CallTree, CallResults, Active
  <2>5. Published'
    BY <2>1 DEF Published
  <2> QED
    BY <2>3, <2>4, <2>5 DEF BuildInv
<1>2. CASE Receive
  <2>1. /\ built' = Tail(built) /\ built # <<>>
        /\ UNCHANGED <<bpc, next, sent, res, sem, closed, stop, buildErr, root>>
    BY <1>2 DEF Receive, buildVars
  <2>2. built' \in Seq(Key) /\ Len(built') <= BufSize
    BY <2>1 DEF BuildInv, IngestTypeOK
  <2>3. IngestTypeOK'
    BY <2>1, <2>2 DEF BuildInv, IngestTypeOK
  <2>4. CallTree' /\ CallResults' /\ Published'
    BY <2>1 DEF BuildInv, CallTree, CallResults, Published, Active
  <2> QED
    BY <2>3, <2>4 DEF BuildInv
<1>3. CASE CancelBuild
  <2>1. /\ stop' = TRUE
        /\ UNCHANGED <<bpc, next, sent, res, sem, built, closed, buildErr, root>>
    BY <1>3 DEF CancelBuild, buildVars
  <2>2. IngestTypeOK'
    BY <2>1 DEF BuildInv, IngestTypeOK
  <2>3. CallTree' /\ CallResults' /\ Published'
    BY <2>1 DEF BuildInv, CallTree, CallResults, Published, Active
  <2> QED
    BY <2>2, <2>3 DEF BuildInv
<1>4. CASE UNCHANGED ingestVars
  BY <1>4 DEF ingestVars, buildVars, objectsVars, BuildInv, IngestTypeOK, CallTree, CallResults,
              Published, Active
<1> QED
  BY <1>1, <1>2, <1>3, <1>4

\* Every step of a build goroutine keeps the invariant.
LEMMA BuildSteps ==
  ASSUME BuildInv, NEW n \in Node, BuildStep(n) \/ ReadFails(n)
  PROVE  BuildInv'
BY FailSteps, ReadSteps, StartSteps, EmitStep DEF BuildStep

\* When the call for the root has returned, no build call is left running.
LEMMA RootLast ==
  ASSUME BuildInv, bpc[RootNode] = "done"
  PROVE  \A n \in Node : bpc[n] \in {"idle", "done"}
<1> USE IngestAssumption
<1> DEFINE S == {n \in Node : ~Active(n)}
<1>1. RootNode \in S /\ S \in SUBSET Node
  BY DEF Active
<1>2. \A d \in Dir \cap S : ToSet(Entries[d]) \subseteq S
  <2> SUFFICES ASSUME NEW d \in Dir \cap S, NEW i \in DOMAIN Entries[d]
               PROVE  Entries[d][i] \in S
    BY DEF ToSet
  <2>1. Entries[d][i] \in Node /\ bpc[d] \in {"idle", "done"}
    BY DEF Active
  <2>2. ~Active(Entries[d][i])
    BY <2>1 DEF BuildInv, CallTree
  <2> QED
    BY <2>1, <2>2
<1> HIDE DEF S
<1>3. S = Node
  BY <1>1, <1>2, TreeAssumption
<1> QED
  BY <1>3 DEF S, Active

\* When it has succeeded, so has every other call: all objects are emitted.
LEMMA RootComplete ==
  ASSUME BuildInv, res[RootNode] = "ok"
  PROVE  \A n \in Node : res[n] = "ok" /\ sent[n] = Len(Objs[n])
<1> USE IngestAssumption
<1> DEFINE S == {n \in Node : res[n] = "ok"}
<1>1. RootNode \in S /\ S \in SUBSET Node
  OBVIOUS
<1>2. \A d \in Dir \cap S : ToSet(Entries[d]) \subseteq S
  <2> SUFFICES ASSUME NEW d \in Dir \cap S
               PROVE  Children(d) \subseteq S
    BY DEF Children
  <2>1. sent[d] = Len(Objs[d]) /\ Objs[d] \in Seq(Key) /\ Objs[d] # <<>>
    BY DEF BuildInv, CallResults
  <2>2. Upto[d][sent[d]] = Len(Entries[d]) /\ Entries[d] \in Seq(Node) /\ sent[d] > 0
    BY <2>1, UptoAssumption
  <2>3. d \in Node /\ d \in Dir
    OBVIOUS
  <2>4. \A i \in 1..Upto[d][sent[d]] : res[Entries[d][i]] = "ok"
    BY <2>2, <2>3 DEF BuildInv, CallResults
  <2>5. \A i \in DOMAIN Entries[d] : res[Entries[d][i]] = "ok" /\ Entries[d][i] \in Node
    <3>1. DOMAIN Entries[d] = 1..Len(Entries[d]) /\ Len(Entries[d]) = Upto[d][sent[d]]
      BY <2>2
    <3> QED
      BY <2>2, <2>4, <3>1
  <2> QED
    BY <2>5 DEF Children, ToSet
<1> HIDE DEF S
<1>3. S = Node
  BY <1>1, <1>2, TreeAssumption
<1> QED
  BY <1>3 DEF S, BuildInv, CallResults

\* What a directory has emitted comes after all the objects of the entries it covers.
LEMMA ChildrenEmitted == BuildInv => ChildrenFirst
<1> SUFFICES ASSUME BuildInv, NEW d \in Dir, NEW k \in 1..sent[d], NEW i \in 1..Upto[d][k]
             PROVE  sent[Entries[d][i]] = Len(Objs[Entries[d][i]])
  BY DEF ChildrenFirst
<1>1. sent[d] \in Nat /\ sent[d] <= Len(Objs[d])
  BY IngestAssumption DEF BuildInv, IngestTypeOK, CallResults
<1>2. k \in 1..Len(Objs[d]) /\ sent[d] \in 1..Len(Objs[d])
  BY <1>1, IngestAssumption
<1>3. Entries[d][i] \in Node
  BY <1>2, UptoLemma
<1>4. i \in 1..Upto[d][sent[d]]
  <2>1. Upto[d][k] <= Upto[d][sent[d]]
    BY <1>1, <1>2, UptoAssumption
  <2>2. Upto[d][k] \in Nat /\ Upto[d][sent[d]] \in Nat
    <3>1. Upto[d] \in [1..Len(Objs[d]) -> 0..Len(Entries[d])] /\ Len(Entries[d]) \in Nat
      BY IngestAssumption, UptoAssumption
    <3> QED
      BY <1>2, <3>1
  <2> QED
    BY <2>1, <2>2
<1>5. res[Entries[d][i]] = "ok"
  <2>1. d \in Node /\ sent[d] > 0
    BY <1>2, IngestAssumption
  <2> QED
    BY <1>4, <2>1 DEF BuildInv, CallResults
<1> QED
  BY <1>3, <1>5 DEF BuildInv, CallResults
=============================================================================

-------------------------- MODULE RoundTripProofs --------------------------
(***************************************************************************)
(* Machine-checked proofs about RoundTrip, for every set of scenarios, any *)
(* parameter of the item chunker and any outcome of its hashes.            *)
(***************************************************************************)
EXTENDS RoundTrip, NaturalsLemmas, SequenceTheorems, FiniteSetTheorems

----------------------------------------------------------------------------
(* Iteration.  A recursive function over 0..N is the one with these values; *)
(* it exists because the least N without one would have one.                *)

IsIter(c, S, b, N, h) ==
  c \in [0..N -> S] /\ c[0] = b /\ \A n \in 1..N : c[n] = h[<<n, c[n - 1]>>]

LEMMA IterExists ==
  ASSUME NEW S, NEW b \in S, NEW N \in Nat, NEW h \in [(1..N) \X S -> S]
  PROVE  \E c : IsIter(c, S, b, N, h)
<1> DEFINE T == {k \in Nat : k <= N /\ ~\E c : IsIter(c, S, b, k, h)}
<1> SUFFICES ASSUME T # {} PROVE FALSE
  OBVIOUS
<1>1. PICK k \in T : \A m \in T : k <= m
  BY LeastNat
<1>2. k # 0
  <2>1. IsIter([n \in 0..0 |-> b], S, b, 0, h)
    BY DEF IsIter
  <2> QED
    BY <1>1, <2>1
<1>3. k - 1 \in 0..N /\ k \in 1..N /\ k - 1 \notin T
  BY <1>1, <1>2
<1>4. PICK c : IsIter(c, S, b, k - 1, h)
  BY <1>3
<1> DEFINE d == [n \in 0..k |-> IF n = k THEN h[<<k, c[k - 1]>>] ELSE c[n]]
<1>5. c[k - 1] \in S /\ h[<<k, c[k - 1]>>] \in S
  BY <1>3, <1>4 DEF IsIter
<1>6. d \in [0..k -> S] /\ d[0] = b
  BY <1>2, <1>3, <1>4, <1>5 DEF IsIter
<1>7. ASSUME NEW n \in 1..k PROVE d[n] = h[<<n, d[n - 1]>>]
  <2>1. CASE n = k
    <3>1. k - 1 \in 0..k /\ k \in 0..k /\ k - 1 # k
      BY <1>3
    <3>2. d[k - 1] = c[k - 1] /\ d[k] = h[<<k, c[k - 1]>>]
      BY <3>1
    <3> HIDE DEF d
    <3> QED
      BY <2>1, <3>2
  <2>2. CASE n # k
    BY <2>2, <1>3, <1>4 DEF IsIter
  <2> QED
    BY <2>1, <2>2
<1>8. IsIter(d, S, b, k, h)
  <2> HIDE DEF d
  <2> QED
    BY <1>6, <1>7 DEF IsIter
<1> QED
  BY <1>1, <1>8

----------------------------------------------------------------------------
(* The concatenation of the sequences f[k], for the k of a sequence.        *)

Join(s, t) == s \o t

LEMMA JoinType ==
  ASSUME NEW V, NEW s \in Seq(V), NEW t \in Seq(V)
  PROVE  Join(s, t) \in Seq(V) /\ Len(Join(s, t)) = Len(s) + Len(t)
BY ConcatProperties DEF Join

\* u is s followed by t, index by index.
Joined(u, s, t) ==
  /\ Len(u) = Len(s) + Len(t) /\ Len(s) \in Nat /\ Len(t) \in Nat
  /\ \A i \in 1..Len(s) : u[i] = s[i]
  /\ \A i \in 1..Len(t) : u[Len(s) + i] = t[i]
  /\ \A i \in 1..(Len(s) + Len(t)) : i \in 1..Len(s) \/ \E j \in 1..Len(t) : i = Len(s) + j

LEMMA JoinAt ==
  ASSUME NEW V, NEW s \in Seq(V), NEW t \in Seq(V)
  PROVE  Joined(Join(s, t), s, t)
<1> DEFINE m == Len(s)
           n == Len(t)
<1>1. /\ \A i \in 1..(m + n) : (s \o t)[i] = IF i <= m THEN s[i] ELSE t[i - m]
      /\ s \o t \in Seq(V) /\ Len(s \o t) = m + n
  BY ConcatProperties
<1>2. m \in Nat /\ n \in Nat
  OBVIOUS
<1>3. ASSUME NEW i \in 1..n PROVE (s \o t)[m + i] = t[i]
  <2>1. m + i \in 1..(m + n) /\ ~(m + i <= m) /\ (m + i) - m = i
    BY <1>2
  <2> QED
    BY <1>1, <1>2, <2>1
<1>4. \A i \in 1..m : (s \o t)[i] = s[i]
  BY <1>1, <1>2
<1>5. ASSUME NEW i \in 1..(m + n), ~(i \in 1..m) PROVE \E j \in 1..n : i = m + j
  <2>1. i - m \in 1..n /\ i = m + (i - m)
    BY <1>2, <1>5
  <2> QED
    BY <2>1
<1> QED
  BY <1>1, <1>2, <1>3, <1>4, <1>5 DEF Join, Joined

LEMMA JoinNil ==
  ASSUME NEW V, NEW s \in Seq(V)
  PROVE  Join(s, <<>>) = s /\ Join(<<>>, s) = s
BY ConcatEmptySeq DEF Join

LEMMA JoinAssoc ==
  ASSUME NEW V, NEW s \in Seq(V), NEW t \in Seq(V), NEW u \in Seq(V)
  PROVE  Join(Join(s, t), u) = Join(s, Join(t, u))
BY ConcatAssociative DEF Join

Cat(f, ks) ==
  CHOOSE c : c = [n \in 0..Len(ks) |-> IF n = 0 THEN <<>> ELSE Join(c[n - 1], f[ks[n]])]

Flat(f, ks) == Cat(f, ks)[Len(ks)]

\* f is a map to sequences over V, and ks a sequence of its arguments.
Lists(V, f, ks) == f \in [DOMAIN f -> Seq(V)] /\ ks \in Seq(DOMAIN f)

IsCat(c, V, f, ks) ==
  /\ c \in [0..Len(ks) -> Seq(V)]
  /\ c[0] = <<>>
  /\ \A n \in 1..Len(ks) : c[n] = Join(c[n - 1], f[ks[n]])

LEMMA CatFacts ==
  ASSUME NEW V, NEW f, NEW ks, Lists(V, f, ks)
  PROVE  IsCat(Cat(f, ks), V, f, ks) /\ Flat(f, ks) \in Seq(V)
<1> DEFINE N == Len(ks)
           h == [x \in (1..N) \X Seq(V) |-> Join(x[2], f[ks[x[1]]])]
<1>1. N \in Nat /\ \A n \in 1..N : f[ks[n]] \in Seq(V)
  BY DEF Lists
<1>2. h \in [(1..N) \X Seq(V) -> Seq(V)]
  <2>1. ASSUME NEW x \in (1..N) \X Seq(V) PROVE Join(x[2], f[ks[x[1]]]) \in Seq(V)
    BY <1>1, JoinType
  <2> QED
    BY <2>1
<1>3. <<>> \in Seq(V)
  OBVIOUS
<1>4. PICK c : IsIter(c, Seq(V), <<>>, N, h)
  <2> HIDE DEF h, N
  <2> QED
    BY <1>1, <1>2, <1>3, IterExists
<1>5. \A n \in 1..N : c[n] = Join(c[n - 1], f[ks[n]])
  <2> SUFFICES ASSUME NEW n \in 1..N PROVE c[n] = Join(c[n - 1], f[ks[n]])
    OBVIOUS
  <2>1. c[n] = h[<<n, c[n - 1]>>] /\ c[n - 1] \in Seq(V)
    <3> HIDE DEF h, N
    <3>1. n - 1 \in 0..N
      BY <1>1
    <3> QED
      BY <1>1, <1>4, <3>1 DEF IsIter
  <2>2. <<n, c[n - 1]>> \in (1..N) \X Seq(V)
    BY <2>1
  <2> QED
    BY <2>1, <2>2
<1>6. c = [n \in 0..N |-> IF n = 0 THEN <<>> ELSE Join(c[n - 1], f[ks[n]])]
  <2> HIDE DEF h
  <2> QED
    BY <1>1, <1>4, <1>5 DEF IsIter
<1>7. Cat(f, ks) = [n \in 0..N |-> IF n = 0 THEN <<>> ELSE Join(Cat(f, ks)[n - 1], f[ks[n]])]
  BY <1>6, Zenon DEF Cat
<1> DEFINE d == Cat(f, ks)
<1>8. /\ d[0] = <<>>
      /\ \A n \in 1..N : d[n] = Join(d[n - 1], f[ks[n]])
      /\ DOMAIN d = 0..N
      /\ d = [n \in 0..N |-> d[n]]
  <2> HIDE DEF d
  <2>1. d = [n \in 0..N |-> IF n = 0 THEN <<>> ELSE Join(d[n - 1], f[ks[n]])]
    BY <1>7 DEF d
  <2> QED
    BY <1>1, <2>1
<1>9. \A n \in 0..N : d[n] \in Seq(V)
  <2> DEFINE T == {n \in Nat : n <= N /\ d[n] \notin Seq(V)}
  <2> SUFFICES ASSUME T # {} PROVE FALSE
    OBVIOUS
  <2>1. PICK k \in T : \A m \in T : k <= m
    BY LeastNat
  <2> HIDE DEF d
  <2>2. k # 0
    BY <1>8, <1>3, <2>1
  <2>3. k \in 1..N /\ k - 1 \in 0..N /\ k - 1 \notin T
    BY <2>1, <2>2
  <2>4. d[k - 1] \in Seq(V)
    BY <1>1, <2>3
  <2>41. f[ks[k]] \in Seq(V)
    BY <1>1, <2>3
  <2>42. d[k] = Join(d[k - 1], f[ks[k]])
    BY <1>1, <1>8, <2>3
  <2>5. d[k] \in Seq(V)
    BY <2>4, <2>41, <2>42, JoinType
  <2> QED
    BY <2>1, <2>5
<1> QED
  <2> HIDE DEF d
  <2>1. d \in [0..N -> Seq(V)] /\ N \in 0..N
    BY <1>1, <1>8, <1>9
  <2> QED
    BY <1>1, <2>1, <1>8 DEF d, Flat, IsCat

Agree(f, ks, g, ls, N) == \A n \in 1..N : f[ks[n]] = g[ls[n]]

\* The iterations of two sequences agree as long as their elements do.
LEMMA CatPrefix ==
  ASSUME NEW V, NEW f, NEW ks, Lists(V, f, ks), NEW g, NEW ls, Lists(V, g, ls),
         NEW N \in Nat, N <= Len(ks), N <= Len(ls),
         Agree(f, ks, g, ls, N)
  PROVE  Cat(f, ks)[N] = Cat(g, ls)[N]
<1> DEFINE c == Cat(f, ks)
           d == Cat(g, ls)
           T == {n \in Nat : n <= N /\ c[n] # d[n]}
<1>1. IsCat(c, V, f, ks) /\ IsCat(d, V, g, ls)
  BY CatFacts, Zenon
<1> SUFFICES ASSUME T # {} PROVE FALSE
  OBVIOUS
<1>2. PICK k \in T : \A m \in T : k <= m
  BY LeastNat
<1> HIDE DEF c, d
<1>3. k # 0
  BY <1>1, <1>2 DEF IsCat
<1>4. k - 1 \in 0..N /\ k - 1 \notin T /\ k \in 1..N /\ k \in 1..Len(ks) /\ k \in 1..Len(ls)
  BY <1>2, <1>3
<1>5. c[k - 1] = d[k - 1] /\ f[ks[k]] = g[ls[k]]
  BY <1>4 DEF Agree
<1>6. c[k] = Join(c[k - 1], f[ks[k]]) /\ d[k] = Join(d[k - 1], g[ls[k]])
  BY <1>1, <1>4 DEF IsCat
<1> QED
  BY <1>2, <1>5, <1>6

LEMMA FlatSame ==
  ASSUME NEW V, NEW f, NEW ks, Lists(V, f, ks), NEW g, NEW ls, Lists(V, g, ls),
         Len(ks) = Len(ls), Agree(f, ks, g, ls, Len(ks))
  PROVE  Flat(f, ks) = Flat(g, ls)
<1> DEFINE N == Len(ks)
<1>1. N \in Nat /\ N <= Len(ks) /\ N <= Len(ls)
  BY DEF Lists
<1>2. Cat(f, ks)[N] = Cat(g, ls)[N]
  <2>1. Agree(f, ks, g, ls, N)
    OBVIOUS
  <2> HIDE DEF N
  <2> QED
    BY <1>1, <2>1, CatPrefix, SMT
<1> QED
  BY <1>2 DEF Flat

LEMMA FlatNil ==
  ASSUME NEW V, NEW f, Lists(V, f, <<>>)
  PROVE  Flat(f, <<>>) = <<>>
<1>1. Len(<<>>) = 0
  OBVIOUS
<1>2. IsCat(Cat(f, <<>>), V, f, <<>>)
  BY <1>1, CatFacts, Zenon
<1> QED
  BY <1>1, <1>2 DEF Flat, IsCat

LEMMA FlatOne ==
  ASSUME NEW V, NEW f, NEW k, Lists(V, f, <<k>>)
  PROVE  Flat(f, <<k>>) = f[k]
<1>1. Len(<<k>>) = 1 /\ <<k>>[1] = k
  OBVIOUS
<1>0. IsCat(Cat(f, <<k>>), V, f, <<k>>)
  BY <1>1, CatFacts, Zenon
<1> DEFINE c == Cat(f, <<k>>)
<1>2. c[0] = <<>> /\ c[1] = Join(c[0], f[k])
  <2> HIDE DEF c
  <2> DEFINE s == <<k>>
  <2>1. IsCat(c, V, f, s) /\ Len(s) = 1 /\ s[1] = k
    BY <1>0, <1>1 DEF c
  <2> HIDE DEF s
  <2> QED
    BY <2>1 DEF IsCat
<1>3. f[k] \in Seq(V)
  BY DEF Lists
<1> QED
  BY <1>1, <1>2, <1>3, JoinNil DEF Flat

LEMMA FlatConcat ==
  ASSUME NEW V, NEW f, NEW ks, Lists(V, f, ks), NEW ls, Lists(V, f, ls)
  PROVE  Flat(f, Join(ks, ls)) = Join(Flat(f, ks), Flat(f, ls))
<1> DEFINE K == Len(ks)
           L == Len(ls)
           c == Cat(f, Join(ks, ls))
           d == Cat(f, ls)
           b == Flat(f, ks)
           T == {n \in Nat : n <= L /\ c[K + n] # Join(b, d[n])}
<1>1. /\ K \in Nat /\ L \in Nat
      /\ Lists(V, f, Join(ks, ls)) /\ Len(Join(ks, ls)) = K + L
      /\ \A i \in 1..K : Join(ks, ls)[i] = ks[i]
      /\ \A i \in 1..L : Join(ks, ls)[K + i] = ls[i]
  BY ConcatProperties DEF Join, Lists
<1>2. c[K] = b
  <2>1. K <= Len(Join(ks, ls)) /\ Agree(f, Join(ks, ls), f, ks, K)
    BY <1>1 DEF Agree
  <2>2. Cat(f, Join(ks, ls))[K] = Cat(f, ks)[K]
    <3>1. K <= Len(ks)
      BY <1>1
    <3> HIDE DEF K
    <3> QED
      BY <1>1, <2>1, <3>1, CatPrefix, SMT
  <2> QED
    BY <2>2 DEF Flat
<1>3. b \in Seq(V)
  BY CatFacts, Zenon
<1>40. IsCat(d, V, f, ls) /\ IsCat(c, V, f, Join(ks, ls))
  BY <1>1, CatFacts, Zenon
<1> HIDE DEF c, d, b
<1>4. d \in [0..L -> Seq(V)] /\ d[0] = <<>> /\ \A n \in 1..L : d[n] = Join(d[n - 1], f[ls[n]])
  BY <1>40 DEF IsCat
<1>5. \A n \in 1..(K + L) : c[n] = Join(c[n - 1], f[Join(ks, ls)[n]])
  BY <1>40, <1>1 DEF IsCat
<1>6. \A n \in Nat : n <= L => c[K + n] = Join(b, d[n])
  <2> SUFFICES ASSUME T # {} PROVE FALSE
    OBVIOUS
  <2>1. PICK k \in T : \A m \in T : k <= m
    BY LeastNat
  <2>2. k # 0
    BY <1>1, <1>2, <1>3, <1>4, <2>1, JoinNil
  <2>3. k \in 1..L /\ k - 1 \in 0..L /\ k - 1 \notin T /\ K + k \in 1..(K + L)
    BY <1>1, <2>1, <2>2
  <2>4. c[K + (k - 1)] = Join(b, d[k - 1]) /\ (K + k) - 1 = K + (k - 1)
    BY <1>1, <2>3
  <2>50. c[K + k] = Join(c[(K + k) - 1], f[Join(ks, ls)[K + k]])
    BY <1>5, <2>3
  <2>5. c[K + k] = Join(Join(b, d[k - 1]), f[ls[k]])
    BY <1>1, <2>50, <2>3, <2>4
  <2>6. d[k - 1] \in Seq(V) /\ f[ls[k]] \in Seq(V)
    <3>1. d[k - 1] \in Seq(V)
      BY <1>4, <2>3
    <3>2. ls \in Seq(DOMAIN f) /\ f \in [DOMAIN f -> Seq(V)]
      BY DEF Lists
    <3>3. ls[k] \in DOMAIN f
      BY <2>3, <3>2
    <3> QED
      BY <3>1, <3>2, <3>3
  <2>7. Join(Join(b, d[k - 1]), f[ls[k]]) = Join(b, Join(d[k - 1], f[ls[k]]))
    BY <1>3, <2>6, JoinAssoc
  <2>8. c[K + k] = Join(b, d[k])
    BY <1>4, <2>3, <2>5, <2>7
  <2> QED
    BY <2>1, <2>8
<1>7. L \in Nat /\ L <= L
  BY <1>1
<1>8. c[K + L] = Join(b, d[L])
  BY <1>6, <1>7
<1> QED
  BY <1>1, <1>8 DEF Flat, c, d, b

LEMMA FlatEmpty ==
  ASSUME NEW V, NEW f, NEW ks, Lists(V, f, ks),
         \A n \in 1..Len(ks) : f[ks[n]] = <<>>
  PROVE  Flat(f, ks) = <<>>
<1> DEFINE c == Cat(f, ks)
           T == {n \in Nat : n <= Len(ks) /\ c[n] # <<>>}
<1>1. IsCat(c, V, f, ks)
  BY CatFacts, Zenon
<1> HIDE DEF c
<1>2. \A n \in 0..Len(ks) : c[n] = <<>>
  <2> SUFFICES ASSUME T # {} PROVE FALSE
    OBVIOUS
  <2>1. PICK k \in T : \A m \in T : k <= m
    BY LeastNat
  <2>2. k \in 1..Len(ks) /\ k - 1 \in 0..Len(ks) /\ k - 1 \notin T
    BY <1>1, <2>1 DEF IsCat
  <2>30. c[k] = Join(c[k - 1], f[ks[k]]) /\ c[k - 1] = <<>> /\ f[ks[k]] = <<>>
    BY <1>1, <2>2 DEF IsCat
  <2>3. c[k] = Join(<<>>, <<>>) /\ <<>> \in Seq(V)
    BY <2>30
  <2> QED
    BY <2>1, <2>3, JoinNil
<1> QED
  BY <1>2 DEF c, Flat

----------------------------------------------------------------------------
(* The children of a run, and the length of a FileNode.                     *)

Items(C) == [sep : Nat, child : C]

Kids(run) == [i \in DOMAIN run |-> run[i].child]

LEMMA KidsType ==
  ASSUME NEW C, NEW run \in Seq(Items(C))
  PROVE  /\ Kids(run) \in Seq(C) /\ Len(Kids(run)) = Len(run)
         /\ \A i \in 1..Len(run) : Kids(run)[i] = run[i].child
<1>0. DOMAIN run = 1..Len(run) /\ Len(run) \in Nat /\ \A i \in 1..Len(run) : run[i] \in Items(C)
  OBVIOUS
<1>1. \A i \in 1..Len(run) : run[i].child \in C
  BY <1>0 DEF Items
<1>2. Kids(run) = [i \in 1..Len(run) |-> run[i].child]
  BY <1>0 DEF Kids
<1> QED
  BY <1>0, <1>1, <1>2

LEMMA KidsAppend ==
  ASSUME NEW C, NEW run \in Seq(Items(C)), NEW it \in Items(C)
  PROVE  Kids(Append(run, it)) = Join(Kids(run), <<it.child>>)
<1> DEFINE s == Kids(Append(run, it))
           t == Join(Kids(run), <<it.child>>)
<1>1. /\ Append(run, it) \in Seq(Items(C)) /\ Len(Append(run, it)) = Len(run) + 1
      /\ Append(run, it)[Len(run) + 1] = it
      /\ \A i \in 1..Len(run) : Append(run, it)[i] = run[i]
  OBVIOUS
<1>2. /\ s \in Seq(C) /\ Len(s) = Len(run) + 1
      /\ \A i \in 1..(Len(run) + 1) : s[i] = Append(run, it)[i].child
  BY <1>1, KidsType
<1>3. /\ Kids(run) \in Seq(C) /\ Len(Kids(run)) = Len(run)
      /\ \A i \in 1..Len(run) : Kids(run)[i] = run[i].child
  BY KidsType
<1>40. it.child \in C
  BY DEF Items
<1>4. <<it.child>> \in Seq(C) /\ Len(<<it.child>>) = 1 /\ <<it.child>>[1] = it.child
  BY <1>40
<1>5. /\ t \in Seq(C) /\ Len(t) = Len(run) + 1
      /\ \A i \in 1..Len(run) : t[i] = run[i].child
      /\ t[Len(run) + 1] = it.child
  <2> DEFINE a == Kids(run)
             b == <<it.child>>
  <2>1. t \in Seq(C) /\ Len(t) = Len(a) + Len(b)
    BY <1>3, <1>4, JoinType
  <2>2. \A i \in 1..(Len(a) + Len(b)) : t[i] = IF i <= Len(a) THEN a[i] ELSE b[i - Len(a)]
    BY <1>3, <1>4, ConcatProperties DEF Join
  <2> HIDE DEF a, b, t
  <2>3. Len(a) = Len(run) /\ Len(b) = 1 /\ b[1] = it.child /\ Len(run) \in Nat
        /\ \A i \in 1..Len(run) : a[i] = run[i].child
    BY <1>3, <1>4 DEF a, b
  <2>4. (Len(run) + 1) - Len(a) = 1
    BY <2>3
  <2> QED
    BY <2>1, <2>2, <2>3, <2>4
<1>6. ASSUME NEW i \in 1..(Len(run) + 1) PROVE s[i] = t[i]
  <2>1. Len(run) \in Nat /\ s[i] = Append(run, it)[i].child
    BY <1>2
  <2>2. CASE i = Len(run) + 1
    BY <1>1, <1>5, <2>1, <2>2
  <2>3. CASE i \in 1..Len(run)
    BY <1>1, <1>5, <2>1, <2>3
  <2> QED
    BY <2>1, <2>2, <2>3
<1> HIDE DEF s, t
<1> QED
  BY <1>2, <1>5, <1>6, SeqEqual DEF s, t

LEMMA KidsNil == Kids(<<>>) = <<>>
<1>1. DOMAIN <<>> = {}
  OBVIOUS
<1> QED
  BY <1>1 DEF Kids

LEMMA KidsOne ==
  ASSUME NEW C, NEW run \in Seq(Items(C)), Len(run) = 1
  PROVE  Kids(run) = <<run[1].child>>
<1>1. /\ Kids(run) \in Seq(C) /\ Len(Kids(run)) = 1 /\ Kids(run)[1] = run[1].child
  BY KidsType
<1>2. run[1].child \in C
  <2>1. run[1] \in Items(C)
    OBVIOUS
  <2> QED
    BY <2>1 DEF Items
<1>3. <<run[1].child>> \in Seq(C) /\ Len(<<run[1].child>>) = 1 /\ <<run[1].child>>[1] = run[1].child
  BY <1>2
<1>4. \A i \in 1..1 : Kids(run)[i] = <<run[1].child>>[i]
  BY <1>1, <1>3
<1> QED
  BY <1>1, <1>3, <1>4, SeqEqual

Measured(f, run) == \A i \in 1..Len(run) : run[i].child.length = Len(f[run[i].child])

\* What EncodeFileNode records is the length of what the node stands for.
LEMMA TotalIsLength ==
  ASSUME NEW V, NEW f, NEW C, NEW run \in Seq(Items(C)),
         Lists(V, f, Kids(run)), Measured(f, run)
  PROVE  TotalLength(run) = Len(Flat(f, Kids(run))) /\ TotalLength(run) \in Nat
<1> DEFINE N == Len(run)
           c == Cat(f, Kids(run))
           d == [n \in 0..N |-> Len(c[n])]
           Is(e) == e = [n \in 0..N |-> IF n = 0 THEN 0 ELSE e[n - 1] + run[n].child.length]
           total == CHOOSE e : Is(e)
           T == {n \in Nat : n <= N /\ total[n] # d[n]}
<1>1. N \in Nat /\ Len(Kids(run)) = N /\ \A i \in 1..N : Kids(run)[i] = run[i].child
  <2>1. N \in Nat
    OBVIOUS
  <2> QED
    BY <2>1, KidsType
<1>2. IsCat(c, V, f, Kids(run))
  BY CatFacts, Zenon
<1> HIDE DEF c
<1>3. \A n \in 0..N : c[n] \in Seq(V) /\ d[n] = Len(c[n]) /\ d[n] \in Nat
  <2>1. c \in [0..N -> Seq(V)]
    <3> HIDE DEF N
    <3> QED
      BY <1>1, <1>2 DEF IsCat
  <2> QED
    BY <2>1
<1>4. d[0] = 0
  BY <1>1, <1>2 DEF IsCat
<1>5. ASSUME NEW n \in 1..N PROVE d[n] = d[n - 1] + run[n].child.length
  <2>1. c[n] = Join(c[n - 1], f[run[n].child]) /\ n - 1 \in 0..N /\ n \in 0..N
    BY <1>1, <1>2 DEF IsCat
  <2>2. f[run[n].child] \in Seq(V)
    BY <1>1 DEF Lists
  <2>3. Len(c[n]) = Len(c[n - 1]) + Len(f[run[n].child])
    <3>1. c[n - 1] \in Seq(V)
      BY <1>3, <2>1
    <3> QED
      BY <2>1, <2>2, <3>1, JoinType
  <2> QED
    BY <1>3, <2>1, <2>3 DEF Measured
<1>6. Is(d)
  <2>1. d = [n \in 0..N |-> d[n]]
    OBVIOUS
  <2> HIDE DEF d
  <2>2. \A n \in 0..N : d[n] = IF n = 0 THEN 0 ELSE d[n - 1] + run[n].child.length
    <3> SUFFICES ASSUME NEW n \in 0..N
                 PROVE  d[n] = IF n = 0 THEN 0 ELSE d[n - 1] + run[n].child.length
      OBVIOUS
    <3>1. n = 0 \/ n \in 1..N
      BY <1>1
    <3> QED
      BY <1>4, <1>5, <3>1
  <2> QED
    BY <2>1, <2>2
<1>7. Is(total)
  BY <1>6, Zenon
<1> HIDE DEF total, d
<1>8. total[0] = 0 /\ \A n \in 1..N : total[n] = total[n - 1] + run[n].child.length
  BY <1>1, <1>7
<1>9. \A n \in Nat : n <= N => total[n] = d[n]
  <2> SUFFICES ASSUME T # {} PROVE FALSE
    OBVIOUS
  <2>1. PICK k \in T : \A m \in T : k <= m
    BY LeastNat
  <2>2. k # 0
    BY <1>4, <1>8, <2>1
  <2>3. k \in 1..N /\ k - 1 \in Nat /\ k - 1 <= N /\ k - 1 \notin T
    BY <1>1, <2>1, <2>2
  <2>4. total[k] = d[k]
    BY <1>5, <1>8, <2>3
  <2> QED
    BY <2>1, <2>4
<1>10. TotalLength(run) = total[N]
  BY Zenon DEF TotalLength, total
<1>11. total[N] = Len(c[N]) /\ total[N] \in Nat
  BY <1>1, <1>3, <1>9
<1> QED
  BY <1>1, <1>10, <1>11 DEF Flat, c

----------------------------------------------------------------------------
(* Paths, and the listing of a directory.                                   *)

Name == Nat \ {0}

LEMMA PathSplit ==
  ASSUME NEW S, NEW q \in Seq(S), q # <<>>
  PROVE  /\ Front(q) \in Seq(S) /\ Last(q) \in S /\ Len(Front(q)) = Len(q) - 1
         /\ \A i \in 1..(Len(q) - 1) : Front(q)[i] = q[i]
         /\ q = Append(Front(q), Last(q))
<1> DEFINE n == Len(q) - 1
           u == Front(q)
           v == Append(u, Last(q))
<1>1. Len(q) \in Nat /\ Len(q) # 0 /\ n \in Nat
  BY EmptySeq
<1>2. /\ u \in Seq(S) /\ Len(u) = n
      /\ \A i \in 1..n : u[i] = q[i]
  <2>1. \A i \in 1..n : q[i] \in S
    BY <1>1
  <2>2. 1 \in Int /\ n \in Int
    BY <1>1
  <2>3. /\ SubSeq(q, 1, n) \in Seq(S)
        /\ Len(SubSeq(q, 1, n)) = IF 1 <= n THEN n - 1 + 1 ELSE 0
        /\ \A i \in 1..(n - 1 + 1) : SubSeq(q, 1, n)[i] = q[1 + i - 1]
    <3> HIDE DEF n
    <3> QED
      BY <2>1, <2>2, SubSeqProperties
  <2>4. u = SubSeq(q, 1, n)
    BY DEF Front
  <2> HIDE DEF n, u
  <2>5. /\ u \in Seq(S) /\ Len(u) = IF 1 <= n THEN n - 1 + 1 ELSE 0
        /\ \A i \in 1..(n - 1 + 1) : u[i] = q[1 + i - 1]
    BY <2>3, <2>4
  <2> QED
    BY <1>1, <2>5
<1>3. Last(q) \in S /\ Last(q) = q[Len(q)]
  BY <1>1 DEF Last
<1> HIDE DEF u
<1>4. v \in Seq(S) /\ Len(v) = Len(q)
  BY <1>1, <1>2, <1>3
<1>5. ASSUME NEW i \in 1..Len(q) PROVE q[i] = v[i]
  <2>1. CASE i = Len(q)
    BY <1>1, <1>2, <1>3, <2>1
  <2>2. CASE i \in 1..n
    BY <1>1, <1>2, <1>3, <2>2
  <2>3. i = Len(q) \/ i \in 1..n
    BY <1>1
  <2> HIDE DEF v, n
  <2> QED
    BY <2>1, <2>2, <2>3
<1> HIDE DEF v
<1>6. q = v
  BY <1>4, <1>5, SeqEqual
<1> QED
  BY <1>2, <1>3, <1>6 DEF u, v

LEMMA PathAppend ==
  ASSUME NEW S, NEW p \in Seq(S), NEW n \in S
  PROVE  /\ Append(p, n) \in Seq(S) /\ Append(p, n) # <<>>
         /\ Front(Append(p, n)) = p /\ Last(Append(p, n)) = n /\ Len(Append(p, n)) = Len(p) + 1
<1> DEFINE q == Append(p, n)
<1>1. q \in Seq(S) /\ Len(q) = Len(p) + 1 /\ q[Len(p) + 1] = n /\ \A i \in 1..Len(p) : q[i] = p[i]
  OBVIOUS
<1>2. Len(p) \in Nat
  OBVIOUS
<1> HIDE DEF q
<1>3. q # <<>>
  BY <1>1, <1>2
<1>4. /\ Front(q) \in Seq(S) /\ Len(Front(q)) = Len(q) - 1
      /\ \A i \in 1..(Len(q) - 1) : Front(q)[i] = q[i]
  BY <1>1, <1>3, PathSplit
<1>5. Len(Front(q)) = Len(p) /\ \A i \in 1..Len(p) : Front(q)[i] = p[i]
  BY <1>1, <1>2, <1>4
<1>6. Front(q) = p
  BY <1>4, <1>5, SeqEqual
<1> QED
  BY <1>1, <1>3, <1>6 DEF q, Last

LEMMA PrefixIsFront ==
  ASSUME NEW S, NEW p \in Seq(S), NEW q \in Seq(S), Len(q) = Len(p) + 1
  PROVE  IsPrefix(p, q) <=> Front(q) = p
<1>1. Len(p) \in Nat /\ Len(q) - 1 = Len(p) /\ Len(p) <= Len(q)
  OBVIOUS
<1>2. SubSeq(p, 1, Len(p)) = p
  BY <1>1, SubSeqFull
<1>3. Front(q) = SubSeq(q, 1, Len(p))
  BY <1>1 DEF Front
<1> QED
  BY <1>1, <1>2, <1>3 DEF IsPrefix

LEMMA ChildrenFacts ==
  ASSUME NEW s, IsTree(s), NEW p \in Seq(Name)
  PROVE  Children(s, p) = {q \in DOMAIN s : Front(q) = p}
<1>1. \A q \in DOMAIN s : q \in Seq(Name) /\ q # <<>>
  BY DEF IsTree, Name
<1>2. ASSUME NEW q \in DOMAIN s, Front(q) = p PROVE Len(q) = Len(p) + 1
  <2>1. q \in Seq(Name) /\ q # <<>>
    BY <1>1
  <2>2. Len(Front(q)) = Len(q) - 1 /\ Len(q) \in Nat
    BY <2>1, PathSplit
  <2> QED
    BY <1>2, <2>2
<1>3. ASSUME NEW q \in DOMAIN s, Len(q) = Len(p) + 1 PROVE IsPrefix(p, q) <=> Front(q) = p
  <2>1. q \in Seq(Name)
    BY <1>1
  <2> QED
    BY <1>3, <2>1, PrefixIsFront
<1> QED
  BY <1>2, <1>3 DEF Children

\* The rank of a number in a finite set of them.
Rank(N) == [n \in N |-> Cardinality({m \in N : m <= n})]

LEMMA RankFacts ==
  ASSUME NEW N \in SUBSET Nat, IsFiniteSet(N)
  PROVE  /\ Cardinality(N) \in Nat
         /\ \A n \in N : Rank(N)[n] \in 1..Cardinality(N)
         /\ \A m, n \in N : m < n => Rank(N)[m] < Rank(N)[n]
         /\ \A i \in 1..Cardinality(N) : \E n \in N : Rank(N)[n] = i
<1> DEFINE below(n) == {m \in N : m <= n}
           c == Cardinality(N)
           r == Rank(N)
<1>1. c \in Nat
  BY FS_CardinalityType
<1>2. ASSUME NEW n \in N
      PROVE  /\ IsFiniteSet(below(n)) /\ Cardinality(below(n)) \in Nat /\ Cardinality(below(n)) <= c
             /\ Cardinality(below(n)) # 0 /\ r[n] = Cardinality(below(n))
  <2>1. below(n) \in SUBSET N /\ n \in below(n)
    OBVIOUS
  <2> HIDE DEF below
  <2>2. IsFiniteSet(below(n)) /\ Cardinality(below(n)) <= c
    BY <2>1, FS_Subset
  <2>3. Cardinality(below(n)) \in Nat
    BY <2>2, FS_CardinalityType
  <2>4. Cardinality(below(n)) # 0
    BY <2>1, <2>2, FS_EmptySet
  <2>5. r[n] = Cardinality(below(n))
    BY DEF Rank, below
  <2> QED
    BY <2>2, <2>3, <2>4, <2>5
<1>3. ASSUME NEW m \in N, NEW n \in N, m < n PROVE r[m] < r[n]
  <2>0. m \in Nat /\ n \in Nat /\ ~(n <= m) /\ \A x \in N : x \in Nat
    BY <1>3
  <2>1. below(m) \in SUBSET below(n) /\ n \in below(n) /\ n \notin below(m)
    <3>1. \A x \in N : x <= m => x <= n
      BY <1>3, <2>0
    <3>2. n <= n
      BY <2>0
    <3> QED
      BY <2>0, <3>1, <3>2, Zenon
  <2> HIDE DEF below, r
  <2>2. Cardinality(below(m)) <= Cardinality(below(n)) /\ Cardinality(below(n)) # Cardinality(below(m))
    BY <1>2, <2>1, FS_Subset
  <2> QED
    BY <1>2, <2>2
<1>4. \A n \in N : r[n] \in 1..c
  <2> HIDE DEF below, r, c
  <2> QED
    BY <1>1, <1>2
<1>5. r \in Injection(N, 1..c)
  <2>1. r \in [N -> 1..c]
    BY <1>4 DEF Rank
  <2>2. ASSUME NEW m \in N, NEW n \in N, r[m] = r[n] PROVE m = n
    <3> HIDE DEF r, c
    <3>1. m \in Nat /\ n \in Nat /\ r[m] \in 1..c /\ ~(m < n) /\ ~(n < m)
      BY <1>3, <1>4, <2>2
    <3> QED
      BY <3>1
  <2> HIDE DEF r, c
  <2> QED
    BY <2>1, <2>2 DEF Injection, IsInjective
<1>6. IsFiniteSet(1..c) /\ Cardinality(1..c) = c
  <2>1. 1 \in Int /\ c \in Int
    BY <1>1
  <2>2. IsFiniteSet(1..c) /\ Cardinality(1..c) = IF 1 > c THEN 0 ELSE c - 1 + 1
    <3> HIDE DEF c
    <3> QED
      BY <2>1, FS_Interval
  <2> QED
    BY <1>1, <2>2
<1>7. r \in Surjection(N, 1..c)
  <2> DEFINE I == 1..c
  <2>1. r \in Injection(N, I) /\ IsFiniteSet(I) /\ Cardinality(N) = Cardinality(I)
    BY <1>5, <1>6
  <2> HIDE DEF r, I
  <2>2. r \in Surjection(N, I)
    BY <2>1, FS_Injection
  <2> QED
    BY <2>2 DEF I
<1>8. \A i \in 1..c : \E n \in N : r[n] = i
  <2> HIDE DEF r, c
  <2> QED
    BY <1>7 DEF Surjection
<1> QED
  <2> HIDE DEF r, c
  <2>1. /\ c \in Nat
        /\ \A n \in N : r[n] \in 1..c
        /\ \A m, n \in N : m < n => r[m] < r[n]
        /\ \A i \in 1..c : \E n \in N : r[n] = i
    BY <1>1, <1>3, <1>4, <1>8
  <2> QED
    BY <2>1 DEF r, c

\* r lists the entries of p, each once, by increasing names.
Listing(s, p, r) ==
  /\ r \in Seq(Children(s, p))
  /\ \A q \in Children(s, p) : \E i \in 1..Len(r) : r[i] = q
  /\ \A i, j \in 1..Len(r) : i < j => Last(r[i]) < Last(r[j])

\* os.ReadDir sorts by name.
LEMMA ReadDirFacts ==
  ASSUME NEW s, IsTree(s), NEW p \in Seq(Name)
  PROVE  Listing(s, p, ReadDir(s, p))
<1> DEFINE K == Children(s, p)
           N == {Last(q) : q \in K}
           c == Cardinality(N)
           nth(i) == CHOOSE n \in N : Cardinality({m \in N : m <= n}) = i
           r == ReadDir(s, p)
<1>1. K = {q \in DOMAIN s : Front(q) = p}
  BY ChildrenFacts
<1>2. \A q \in K : q \in Seq(Name) /\ q # <<>> /\ q = Append(p, Last(q)) /\ Last(q) \in Name
  <2>1. \A q \in DOMAIN s : q \in Seq(Name) /\ q # <<>>
    BY DEF IsTree, Name
  <2> SUFFICES ASSUME NEW q \in K
               PROVE  q \in Seq(Name) /\ q # <<>> /\ q = Append(p, Last(q)) /\ Last(q) \in Name
    OBVIOUS
  <2>2. q \in Seq(Name) /\ q # <<>> /\ Front(q) = p
    BY <1>1, <2>1
  <2>3. q = Append(Front(q), Last(q)) /\ Last(q) \in Name
    BY <2>2, PathSplit
  <2> QED
    BY <2>2, <2>3
<1>3. IsFiniteSet(N)
  <2>1. IsFiniteSet(K)
    <3>1. K \in SUBSET (DOMAIN s) /\ IsFiniteSet(DOMAIN s)
      BY <1>1 DEF IsTree
    <3> HIDE DEF K
    <3> QED
      BY <3>1, FS_Subset
  <2> DEFINE g == [q \in K |-> Last(q)]
  <2> HIDE DEF K
  <2>2. g \in Surjection(K, N)
    BY DEF Surjection
  <2> HIDE DEF g, N
  <2> QED
    BY <2>1, <2>2, FS_Surjection
<1>4. N \in SUBSET Nat /\ N \subseteq Name
  BY <1>2 DEF Name
<1>5. /\ c \in Nat
      /\ \A n \in N : Rank(N)[n] \in 1..c
      /\ \A m, n \in N : m < n => Rank(N)[m] < Rank(N)[n]
      /\ \A i \in 1..c : \E n \in N : Rank(N)[n] = i
  <2> HIDE DEF N
  <2> QED
    BY <1>3, <1>4, RankFacts
<1>6. \A n \in N : Rank(N)[n] = Cardinality({m \in N : m <= n})
  BY DEF Rank
<1>7. \A i \in 1..c : nth(i) \in N /\ Rank(N)[nth(i)] = i
  <2> SUFFICES ASSUME NEW i \in 1..c PROVE nth(i) \in N /\ Rank(N)[nth(i)] = i
    OBVIOUS
  <2>1. \E n \in N : Cardinality({m \in N : m <= n}) = i
    BY <1>5, <1>6
  <2>2. nth(i) \in N /\ Cardinality({m \in N : m <= nth(i)}) = i
    <3> HIDE DEF N, c
    <3> QED
      BY <2>1
  <2> HIDE DEF nth, N
  <2> QED
    BY <1>6, <2>2
<1>8. r = [i \in 1..c |-> Append(p, nth(i))]
  BY DEF ReadDir
<1> HIDE DEF nth, c, r
<1>9. \A i \in 1..c : r[i] = Append(p, nth(i)) /\ r[i] \in K /\ Last(r[i]) = nth(i)
  <2> SUFFICES ASSUME NEW i \in 1..c
               PROVE  r[i] = Append(p, nth(i)) /\ r[i] \in K /\ Last(r[i]) = nth(i)
    OBVIOUS
  <2>1. r[i] = Append(p, nth(i))
    BY <1>8
  <2>2. PICK q \in K : nth(i) = Last(q)
    BY <1>7
  <2>3. r[i] = q
    BY <1>2, <2>1, <2>2
  <2> QED
    BY <2>1, <2>2, <2>3
<1>10. r \in Seq(K) /\ Len(r) = c
  <2> HIDE DEF K
  <2>1. r \in [1..c -> K]
    BY <1>8, <1>9
  <2> QED
    BY <1>5, <2>1
<1>11. ASSUME NEW q \in K PROVE \E i \in 1..Len(r) : r[i] = q
  <2> DEFINE n == Last(q)
  <2>1. n \in N
    OBVIOUS
  <2> DEFINE i == Rank(N)[n]
  <2> HIDE DEF N
  <2>2. i \in 1..c /\ nth(i) \in N /\ Rank(N)[nth(i)] = i
    BY <1>5, <1>7, <2>1
  <2> HIDE DEF n
  <2>3. nth(i) = n
    <3> DEFINE m == nth(i)
    <3>1. m \in N /\ Rank(N)[m] = Rank(N)[n] /\ m \in Nat /\ n \in Nat
      BY <1>4, <2>1, <2>2
    <3>2. ~(m < n) /\ ~(n < m)
      <4> HIDE DEF m
      <4>1. Rank(N)[m] \in 1..c
        BY <1>5, <3>1
      <4> QED
        BY <1>5, <2>1, <3>1, <4>1
    <3> HIDE DEF m
    <3>3. m = n
      BY <3>1, <3>2
    <3> QED
      BY <3>3 DEF m
  <2> HIDE DEF i
  <2>4. r[i] = q
    BY <1>2, <1>9, <2>2, <2>3 DEF n
  <2> QED
    BY <1>10, <2>2, <2>4
<1>12. ASSUME NEW i \in 1..c, NEW j \in 1..c, i < j PROVE Last(r[i]) < Last(r[j])
  <2> DEFINE m == nth(i)
             n == nth(j)
  <2>1. m \in N /\ n \in N /\ Rank(N)[m] = i /\ Rank(N)[n] = j
    BY <1>7
  <2> HIDE DEF m, n, N
  <2>2. m \in Nat /\ n \in Nat
    BY <1>4, <2>1
  <2>3. ~(n < m) /\ m # n
    BY <1>5, <1>12, <2>1
  <2>4. m < n
    BY <2>2, <2>3
  <2> QED
    BY <1>9, <2>4 DEF m, n
<1> QED
  <2> HIDE DEF K
  <2>1. Listing(s, p, r)
    BY <1>10, <1>11, <1>12 DEF Listing, K
  <2> QED
    BY <2>1 DEF r

----------------------------------------------------------------------------
(* The children held by the levels of a builder, from the top level down.   *)

Down(a, b) == [i \in 1..((a + 1) - b) |-> (a + 1) - i]

KidsOf(ls) == [l \in DOMAIN ls |-> Kids(ls[l])]

AllKids(ls) == Flat(KidsOf(ls), Down(Len(ls), 1))

LEMMA DownFacts ==
  ASSUME NEW a \in Nat, NEW b \in Nat, b <= a + 1
  PROVE  /\ Down(a, b) \in Seq(b..a) /\ Len(Down(a, b)) = (a + 1) - b
         /\ \A i \in 1..((a + 1) - b) : Down(a, b)[i] = (a + 1) - i
BY DEF Down

LEMMA DownSplit ==
  ASSUME NEW n \in Nat, NEW l \in 1..n
  PROVE  Down(n, 1) = Join(Join(Down(n, l + 1), <<l>>), Down(l - 1, 1))
<1> DEFINE a == Down(n, l + 1)
           b == <<l>>
           c == Down(l - 1, 1)
           e == Join(a, b)
           t == Join(e, c)
           d == Down(n, 1)
           m == (n - l) + 1
<1>1. /\ a \in Seq(Nat) /\ Len(a) = n - l /\ \A i \in 1..(n - l) : a[i] = (n + 1) - i
      /\ c \in Seq(Nat) /\ Len(c) = l - 1 /\ \A i \in 1..(l - 1) : c[i] = l - i
      /\ d \in Seq(Nat) /\ Len(d) = n /\ \A i \in 1..n : d[i] = (n + 1) - i
  BY DEF Down
<1>2. b \in Seq(Nat) /\ Len(b) = 1 /\ b[1] = l
  OBVIOUS
<1> HIDE DEF a, b, c, d
<1>3. /\ e \in Seq(Nat) /\ Len(e) = (n - l) + 1
      /\ \A i \in 1..(n - l) : e[i] = a[i]
      /\ \A i \in 1..1 : e[(n - l) + i] = b[i]
  <2>1. Joined(e, a, b) /\ e \in Seq(Nat)
    BY <1>1, <1>2, JoinAt, JoinType
  <2> HIDE DEF e
  <2> QED
    BY <1>1, <1>2, <2>1 DEF Joined
<1> HIDE DEF e
<1>4. \A i \in 1..m : e[i] = (n + 1) - i
  <2> SUFFICES ASSUME NEW i \in 1..m PROVE e[i] = (n + 1) - i
    OBVIOUS
  <2>1. CASE i \in 1..(n - l)
    BY <1>1, <1>3, <2>1
  <2>2. CASE i = (n - l) + 1
    BY <1>2, <1>3, <2>2
  <2> QED
    BY <2>1, <2>2
<1>5. m \in Nat /\ Len(e) = m
  BY <1>3
<1>6. /\ t \in Seq(Nat) /\ Len(t) = m + (l - 1)
      /\ \A i \in 1..m : t[i] = e[i]
      /\ \A i \in 1..(l - 1) : t[m + i] = c[i]
      /\ \A i \in 1..(m + (l - 1)) : i \in 1..m \/ \E j \in 1..(l - 1) : i = m + j
  <2>1. Joined(t, e, c) /\ t \in Seq(Nat)
    BY <1>1, <1>3, JoinAt, JoinType
  <2>2. Len(c) = l - 1
    BY <1>1
  <2> DEFINE k == l - 1
  <2>3. k = Len(c)
    BY <2>2
  <2> HIDE DEF m, t, k
  <2>4. /\ t \in Seq(Nat) /\ Len(t) = m + k
        /\ \A i \in 1..m : t[i] = e[i]
        /\ \A i \in 1..k : t[m + i] = c[i]
        /\ \A i \in 1..(m + k) : i \in 1..m \/ \E j \in 1..k : i = m + j
    BY <1>5, <2>1, <2>3 DEF Joined
  <2> QED
    BY <2>4 DEF k
<1> HIDE DEF t
<1>7. \A i \in 1..n : t[i] = (n + 1) - i
  <2> SUFFICES ASSUME NEW i \in 1..n PROVE t[i] = (n + 1) - i
    OBVIOUS
  <2>1. m + (l - 1) = n
    OBVIOUS
  <2>2. CASE i \in 1..m
    BY <1>4, <1>6, <2>2
  <2>3. ASSUME NEW j \in 1..(l - 1), i = m + j PROVE t[i] = (n + 1) - i
    <3>1. t[m + j] = c[j] /\ c[j] = l - j
      BY <1>1, <1>6
    <3>2. l - j = (n + 1) - i
      BY <2>3
    <3> QED
      BY <2>3, <3>1, <3>2
  <2> QED
    BY <1>6, <2>1, <2>2, <2>3
<1>8. Len(t) = n
  BY <1>6
<1>9. d = t
  BY <1>1, <1>6, <1>7, <1>8, SeqEqual
<1> QED
  BY <1>9 DEF t, e, a, b, c, d

LEMMA KidsOfType ==
  ASSUME NEW C, NEW ls \in Seq(Seq(Items(C))), NEW ks \in Seq(1..Len(ls))
  PROVE  /\ Lists(C, KidsOf(ls), ks)
         /\ \A l \in 1..Len(ls) : KidsOf(ls)[l] = Kids(ls[l])
<1>1. DOMAIN ls = 1..Len(ls) /\ \A l \in 1..Len(ls) : ls[l] \in Seq(Items(C))
  OBVIOUS
<1>2. \A l \in 1..Len(ls) : Kids(ls[l]) \in Seq(C)
  BY <1>1, KidsType
<1> QED
  BY <1>1, <1>2 DEF KidsOf, Lists

\* The children at and above a level, when the levels below it are empty.
LEMMA AllKidsSplit ==
  ASSUME NEW C, NEW ls \in Seq(Seq(Items(C))), NEW l \in 1..Len(ls),
         \A j \in 1..(l - 1) : ls[j] = <<>>
  PROVE  /\ AllKids(ls) = Join(Flat(KidsOf(ls), Down(Len(ls), l + 1)), Kids(ls[l]))
         /\ Flat(KidsOf(ls), Down(Len(ls), l + 1)) \in Seq(C)
         /\ AllKids(ls) \in Seq(C)
<1> DEFINE n == Len(ls)
           a == Down(n, l + 1)
           b == <<l>>
           c == Down(l - 1, 1)
           K == KidsOf(ls)
<1>1. n \in Nat /\ l \in 1..n /\ l - 1 \in Nat /\ l + 1 \in Nat /\ l \in Nat
  OBVIOUS
<1>2. a \in Seq(1..n) /\ b \in Seq(1..n) /\ c \in Seq(1..n)
  <2>0. l + 1 <= n + 1 /\ 1 <= (l - 1) + 1 /\ 1 \in Nat
    BY <1>1
  <2>1. a \in Seq((l + 1)..n) /\ c \in Seq(1..(l - 1))
    <3>1. a \in Seq((l + 1)..n)
      BY <1>1, <2>0, DownFacts
    <3>2. c \in Seq(1..(l - 1))
      <4> DEFINE m == l - 1
      <4>1. m \in Nat /\ 1 <= m + 1
        BY <1>1
      <4> HIDE DEF m
      <4>2. Down(m, 1) \in Seq(1..m)
        BY <2>0, <4>1, DownFacts
      <4> QED
        BY <4>2 DEF m
    <3> QED
      BY <3>1, <3>2
  <2>2. (l + 1)..n \subseteq 1..n /\ 1..(l - 1) \subseteq 1..n
    BY <1>1
  <2> HIDE DEF a, c
  <2> QED
    BY <1>1, <2>1, <2>2, SeqMonotonic
<1>3. Down(n, 1) = Join(Join(a, b), c)
  BY <1>1, DownSplit
<1>4. Join(a, b) \in Seq(1..n)
  <2> HIDE DEF a, b
  <2> QED
    BY <1>2, JoinType
<1>5. Lists(C, K, a) /\ Lists(C, K, b) /\ Lists(C, K, c) /\ Lists(C, K, Join(a, b))
  <2> HIDE DEF a, b, c
  <2> QED
    BY <1>2, <1>4, KidsOfType
<1>6. Flat(K, c) = <<>>
  <2>1. \A i \in 1..Len(c) : c[i] \in 1..(l - 1)
    <3> DEFINE m == l - 1
    <3>1. m \in Nat /\ 1 <= m + 1 /\ 1 \in Nat
      BY <1>1
    <3> HIDE DEF m
    <3>2. Down(m, 1) \in Seq(1..m)
      BY <3>1, DownFacts
    <3>3. \A i \in 1..Len(Down(m, 1)) : Down(m, 1)[i] \in 1..m
      <4> DEFINE d == Down(m, 1)
      <4>1. d \in Seq(1..m)
        BY <3>2
      <4> HIDE DEF d
      <4>2. \A i \in 1..Len(d) : d[i] \in 1..m
        BY <3>1, <4>1
      <4> QED
        BY <4>2 DEF d
    <3> QED
      BY <3>3 DEF m
  <2>2. \A j \in 1..(l - 1) : K[j] = <<>>
    <3>1. \A j \in 1..(l - 1) : j \in DOMAIN ls /\ ls[j] = <<>>
      BY <1>1
    <3> QED
      BY <3>1, KidsNil DEF KidsOf
  <2> HIDE DEF K, c
  <2>3. \A i \in 1..Len(c) : K[c[i]] = <<>>
    BY <2>1, <2>2
  <2> QED
    BY <1>5, <2>3, FlatEmpty
<1>7. Flat(K, b) = K[l] /\ K[l] = Kids(ls[l])
  <2>1. K[l] = Kids(ls[l])
    BY <1>1 DEF KidsOf
  <2> QED
    BY <1>5, <2>1, FlatOne
<1>8. Flat(K, Join(Join(a, b), c)) = Join(Join(Flat(K, a), Flat(K, b)), Flat(K, c))
  <2> HIDE DEF a, b, c, K
  <2>1. Flat(K, Join(Join(a, b), c)) = Join(Flat(K, Join(a, b)), Flat(K, c))
    BY <1>5, FlatConcat
  <2>2. Flat(K, Join(a, b)) = Join(Flat(K, a), Flat(K, b))
    BY <1>5, FlatConcat
  <2> QED
    BY <2>1, <2>2
<1>9. Flat(K, a) \in Seq(C) /\ Flat(K, b) \in Seq(C)
  BY <1>5, CatFacts
<1>10. Join(Flat(K, a), Flat(K, b)) \in Seq(C)
  BY <1>9, JoinType
<1> QED
  <2> HIDE DEF a, b, c, K
  <2>1. AllKids(ls) = Flat(K, Join(Join(a, b), c))
    BY <1>3 DEF AllKids, K
  <2>2. AllKids(ls) = Join(Flat(K, a), Kids(ls[l])) /\ AllKids(ls) \in Seq(C)
    BY <2>1, <1>6, <1>7, <1>8, <1>10, JoinNil
  <2> QED
    BY <2>2, <1>9 DEF K, a

\* Nothing is held below level l.
Low(C, ls, l) ==
  ls \in Seq(Seq(Items(C))) /\ l \in 1..Len(ls) /\ \A j \in 1..(l - 1) : ls[j] = <<>>

\* What the levels above l hold.
Over(ls, l) == Flat(KidsOf(ls), Down(Len(ls), l + 1))

LEMMA LevelChanged ==
  ASSUME NEW C, NEW ls, NEW l, Low(C, ls, l), NEW r \in Seq(Items(C))
  PROVE  /\ AllKids(ls) = Join(Over(ls, l), Kids(ls[l])) /\ Over(ls, l) \in Seq(C)
         /\ AllKids([ls EXCEPT ![l] = r]) = Join(Over(ls, l), Kids(r))
<1>0. ls \in Seq(Seq(Items(C))) /\ l \in 1..Len(ls) /\ \A j \in 1..(l - 1) : ls[j] = <<>>
  BY DEF Low
<1> DEFINE n == Len(ls)
           rs == [ls EXCEPT ![l] = r]
           a == Down(n, l + 1)
<1>1. n \in Nat /\ l \in 1..n /\ l + 1 \in Nat /\ l + 1 <= n + 1
  BY <1>0
<1>2. rs \in Seq(Seq(Items(C))) /\ Len(rs) = n /\ rs[l] = r /\ \A j \in 1..n : j # l => rs[j] = ls[j]
  <2> DEFINE S == Seq(Items(C))
  <2> HIDE DEF S
  <2>1. ls \in Seq(S) /\ r \in S
    BY <1>0 DEF S
  <2> QED
    BY <1>0, <2>1, ExceptSeq DEF S
<1> HIDE DEF rs
<1>3. \A j \in 1..(l - 1) : rs[j] = <<>>
  <2> SUFFICES ASSUME NEW j \in 1..(l - 1) PROVE rs[j] = <<>>
    OBVIOUS
  <2>1. j \in 1..n /\ j # l
    BY <1>1
  <2>2. ls[j] = <<>>
    BY <1>0
  <2> QED
    BY <1>2, <2>1, <2>2
<1>4. /\ AllKids(ls) = Join(Flat(KidsOf(ls), a), Kids(ls[l]))
      /\ Flat(KidsOf(ls), a) \in Seq(C)
  BY <1>0, <1>1, AllKidsSplit
<1>5. AllKids(rs) = Join(Flat(KidsOf(rs), a), Kids(r))
  BY <1>1, <1>2, <1>3, AllKidsSplit
<1>6. /\ a \in Seq((l + 1)..n) /\ Len(a) \in Nat /\ \A i \in 1..Len(a) : a[i] \in (l + 1)..n
  <2>1. a \in Seq((l + 1)..n)
    BY <1>1, DownFacts
  <2> DEFINE S == (l + 1)..n
  <2> HIDE DEF a, S
  <2>2. a \in Seq(S)
    BY <2>1 DEF S
  <2>3. Len(a) \in Nat /\ \A i \in 1..Len(a) : a[i] \in S
    BY <2>2
  <2> QED
    BY <2>2, <2>3 DEF S
<1>7. a \in Seq(1..n)
  <2>1. (l + 1)..n \subseteq 1..n
    BY <1>1
  <2> HIDE DEF a
  <2> QED
    BY <1>6, <2>1, SeqMonotonic
<1>8. Lists(C, KidsOf(ls), a) /\ Lists(C, KidsOf(rs), a)
  <2> HIDE DEF a
  <2> QED
    BY <1>0, <1>2, <1>7, KidsOfType
<1>9. Agree(KidsOf(ls), a, KidsOf(rs), a, Len(a))
  <2>1. ASSUME NEW i \in 1..Len(a) PROVE KidsOf(ls)[a[i]] = KidsOf(rs)[a[i]]
    <3> DEFINE j == a[i]
    <3>1. j \in 1..n /\ j # l
      BY <1>1, <1>6
    <3> HIDE DEF j
    <3>2. ls[j] = rs[j] /\ j \in DOMAIN ls /\ j \in DOMAIN rs
      <4>1. DOMAIN ls = 1..n /\ DOMAIN rs = 1..n
        BY <1>0, <1>2
      <4> QED
        BY <1>2, <3>1, <4>1
    <3>3. KidsOf(ls)[j] = KidsOf(rs)[j]
      BY <3>2 DEF KidsOf
    <3> QED
      BY <3>3 DEF j
  <2> HIDE DEF a
  <2> QED
    BY <2>1 DEF Agree
<1>10. Flat(KidsOf(ls), a) = Flat(KidsOf(rs), a)
  <2> HIDE DEF a
  <2> QED
    BY <1>8, <1>9, FlatSame
<1> QED
  BY <1>4, <1>5, <1>10 DEF rs, Over

\* Only the top level holds anything.
LEMMA AllKidsTop ==
  ASSUME NEW C, NEW ls \in Seq(Seq(Items(C))), ls # <<>>,
         \A j \in 1..(Len(ls) - 1) : ls[j] = <<>>
  PROVE  AllKids(ls) = Kids(ls[Len(ls)])
<1> DEFINE n == Len(ls)
           a == Down(n, n + 1)
<1>1. n \in Nat /\ n \in 1..n /\ n + 1 \in Nat
  OBVIOUS
<1>2. /\ AllKids(ls) = Join(Flat(KidsOf(ls), a), Kids(ls[n]))
  BY <1>1, AllKidsSplit
<1>3. a = <<>>
  <2>1. a \in Seq(Nat) /\ Len(a) = 0
    BY <1>1 DEF Down
  <2> HIDE DEF a
  <2> QED
    BY <2>1, EmptySeq
<1>4. <<>> \in Seq(1..n)
  OBVIOUS
<1>5. Flat(KidsOf(ls), a) = <<>>
  BY <1>3, <1>4, KidsOfType, FlatNil
<1>6. Kids(ls[n]) \in Seq(C)
  BY <1>1, KidsType
<1> QED
  BY <1>2, <1>5, <1>6, JoinNil

LEMMA AllKidsNil == AllKids(<<>>) = <<>>
<1>1. <<>> \in Seq(Seq(Items({}))) /\ Len(<<>>) = 0 /\ <<>> \in Seq(1..Len(<<>>))
  OBVIOUS
<1>2. Lists({}, KidsOf(<<>>), <<>>)
  BY <1>1, KidsOfType
<1>3. Down(Len(<<>>), 1) = <<>>
  BY <1>1 DEF Down
<1> QED
  BY <1>2, <1>3, FlatNil DEF AllKids

\* A new, empty level.
LEMMA AllKidsGrow ==
  ASSUME NEW C, NEW ls \in Seq(Seq(Items(C)))
  PROVE  AllKids(Append(ls, <<>>)) = AllKids(ls) /\ AllKids(ls) \in Seq(C)
<1> DEFINE n == Len(ls)
           gs == Append(ls, <<>>)
           a == Down(n + 1, (n + 1) + 1)
           b == <<n + 1>>
           c == Down((n + 1) - 1, 1)
<1>1. n \in Nat /\ n + 1 \in 1..(n + 1) /\ (n + 1) - 1 = n /\ n + 1 \in Nat
  OBVIOUS
<1>2. /\ gs \in Seq(Seq(Items(C))) /\ Len(gs) = n + 1
      /\ gs[n + 1] = <<>> /\ \A j \in 1..n : gs[j] = ls[j]
  <2> DEFINE S == Seq(Items(C))
  <2>1. ls \in Seq(S) /\ <<>> \in S
    OBVIOUS
  <2> HIDE DEF S
  <2> QED
    BY <2>1, AppendProperties DEF S
<1> HIDE DEF gs
<1>3. Down(n + 1, 1) = Join(Join(a, b), c)
  BY <1>1, DownSplit
<1>4. a = <<>>
  <2>1. a \in Seq(Nat) /\ Len(a) = 0
    BY <1>1 DEF Down
  <2> HIDE DEF a
  <2> QED
    BY <2>1, EmptySeq
<1>5. c \in Seq(1..n) /\ c \in Seq(1..(n + 1)) /\ c = Down(n, 1) /\ Len(c) \in Nat
  <2>1. c = Down(n, 1)
    BY <1>1
  <2>2. Down(n, 1) \in Seq(1..n)
    BY <1>1, DownFacts
  <2>3. 1..n \subseteq 1..(n + 1)
    BY <1>1
  <2> HIDE DEF c
  <2> QED
    BY <2>1, <2>2, <2>3, SeqMonotonic
<1>6. b \in Seq(1..(n + 1)) /\ Join(<<>>, b) = b
  <2>1. b \in Seq(1..(n + 1))
    BY <1>1
  <2> QED
    BY <2>1, JoinNil
<1>7. Lists(C, KidsOf(gs), b) /\ Lists(C, KidsOf(gs), c) /\ Lists(C, KidsOf(ls), c)
  <2> HIDE DEF b, c
  <2> QED
    BY <1>2, <1>5, <1>6, KidsOfType
<1>8. Flat(KidsOf(gs), b) = <<>>
  <2>1. Flat(KidsOf(gs), b) = KidsOf(gs)[n + 1]
    BY <1>7, FlatOne
  <2>2. KidsOf(gs)[n + 1] = Kids(gs[n + 1])
    BY <1>1, <1>2 DEF KidsOf
  <2> QED
    BY <1>2, <2>1, <2>2, KidsNil
<1>9. Flat(KidsOf(gs), c) = Flat(KidsOf(ls), c) /\ Flat(KidsOf(ls), c) \in Seq(C)
  <2>1. ASSUME NEW i \in 1..Len(c) PROVE KidsOf(gs)[c[i]] = KidsOf(ls)[c[i]]
    <3> DEFINE j == c[i]
    <3>1. j \in 1..n
      <4> HIDE DEF c
      <4> QED
        BY <1>5
    <3> HIDE DEF j
    <3>2. j \in DOMAIN gs /\ j \in DOMAIN ls /\ gs[j] = ls[j]
      BY <1>1, <1>2, <3>1
    <3>3. KidsOf(gs)[j] = KidsOf(ls)[j]
      BY <3>2 DEF KidsOf
    <3> QED
      BY <3>3 DEF j
  <2>2. Agree(KidsOf(gs), c, KidsOf(ls), c, Len(c))
    <3> HIDE DEF c
    <3> QED
      BY <2>1 DEF Agree
  <2> HIDE DEF c
  <2>3. Flat(KidsOf(gs), c) = Flat(KidsOf(ls), c)
    BY <1>7, <2>2, FlatSame
  <2> QED
    BY <1>7, <2>3, CatFacts
<1>10. Flat(KidsOf(gs), Join(b, c)) = Join(Flat(KidsOf(gs), b), Flat(KidsOf(gs), c))
  <2> HIDE DEF b, c
  <2> QED
    BY <1>7, FlatConcat
<1>11. AllKids(gs) = Flat(KidsOf(gs), Join(b, c))
  <2> HIDE DEF a, b, c
  <2> QED
    BY <1>2, <1>3, <1>4, <1>6 DEF AllKids
<1> QED
  <2> HIDE DEF a, b, c
  <2>1. AllKids(gs) = Flat(KidsOf(ls), c)
    BY <1>8, <1>9, <1>10, <1>11, JoinNil
  <2> QED
    BY <1>5, <1>9, <2>1 DEF AllKids, gs

----------------------------------------------------------------------------
(* The invariant of the build.                                              *)

Stored == ToSet(emitted)

\* The nodes whose entries can be made.
Ready == {p \in DOMAIN src : HasContent(src[p]) => p \in DOMAIN keyOf}

Entries == {Entry(src, keyOf, p) : p \in Ready}

Typed ==
  /\ scenario \in Scenarios
  /\ phase \in {"build", "built", "restore"} /\ isDir \in BOOLEAN /\ spilled \in BOOLEAN
  /\ emitted \in Seq(Stored)
  /\ leaf \in Seq(Entries)
  /\ levels \in Seq(Seq(Items(Stored)))
  /\ fin \in Nat
  /\ call # <<>> => call \in (Nat \ {0}) \X Items(Stored)

\* Every node built has its root stored; the one being built has all it needs, and
\* without one the builder is fresh.
NodeTyped ==
  /\ DOMAIN keyOf \subseteq Built(src)
  /\ \A q \in DOMAIN keyOf : keyOf[q] \in Stored
  /\ node # <<>> =>
       /\ phase = "build" /\ node = <<node[1]>> /\ node[1] \in Built(src) \ DOMAIN keyOf
       /\ isDir = IsDirectory(src, node[1])
       /\ Children(src, node[1]) \cap Built(src) \subseteq DOMAIN keyOf
  /\ node = <<>> =>
       leaf = <<>> /\ levels = <<>> /\ call = <<>> /\ fin = 0 /\ input = <<>> /\ ~spilled
  /\ isDir => input \in Seq(Entries)
  /\ ~isDir => input \in Seq(Chunk \cup {NoChunk}) /\ leaf = <<>>

Bounded ==
  /\ Len(leaf) < MaxRun
  /\ \A l \in 1..Len(levels) : Len(levels[l]) < MaxRun

\* A call of add waits where everything below is empty, and Finish has left
\* nothing behind.
Settled ==
  /\ fin <= Len(levels) + 1
  /\ fin > 0 => leaf = <<>> /\ input = <<>>
  /\ \A j \in 1..Len(levels) : j < fin => levels[j] = <<>>
  /\ call # <<>> =>
       /\ leaf = <<>> /\ fin <= call[1] /\ call[1] <= Len(levels) + 1
       /\ \A j \in 1..Len(levels) : j < call[1] => levels[j] = <<>>

\* Attribute sets are stored before the entries that name them are held.
Spilt ==
  /\ \A e \in ToSet(leaf) : ToSet(e.xattrsKey) \subseteq Stored
  /\ spilled => isDir /\ call = <<>> /\ fin = 0 /\ input # <<>> /\ XattrSet \in Stored

Closed ==
  \A i \in 1..Len(emitted) : ChildKeys(emitted[i]) \subseteq {emitted[j] : j \in 1..(i - 1)}

Lowest(l) == l \in 1..Len(levels) /\ levels[l] # <<>> /\ \A j \in 1..(l - 1) : levels[j] = <<>>

\* The last object emitted is the last item held, unless entries wait in a leaf.
Tip ==
  node # <<>> /\ ~spilled /\ leaf = <<>> =>
    /\ call # <<>> => call[2].child = Last(emitted)
    /\ call = <<>> => \A l \in 1..Len(levels) : Lowest(l) => Last(levels[l]).child = Last(emitted)

BuildInv ==
  Typed /\ NodeTyped /\ Bounded /\ Settled /\ Spilt /\ Closed /\ Tip /\ NoDegenerateNode

----------------------------------------------------------------------------
(* What the builders' operators preserve.                                   *)

LEMMA SameEmitted ==
  ASSUME BuildInv, emitted' = emitted
  PROVE  Closed' /\ NoDegenerateNode'
<1>1. Closed /\ NoDegenerateNode
  BY DEF BuildInv
<1>2. Closed'
  <2> DEFINE C(e) == \A i \in 1..Len(e) : ChildKeys(e[i]) \subseteq {e[j] : j \in 1..(i - 1)}
  <2>1. Closed = C(emitted)
    BY Zenon DEF Closed
  <2>2. Closed' = C(emitted')
    BY Zenon DEF Closed
  <2> HIDE DEF C
  <2> QED
    BY <1>1, <2>1, <2>2
<1>3. NoDegenerateNode'
  BY <1>1 DEF NoDegenerateNode
<1> QED
  BY <1>2, <1>3

LEMMA Updated ==
  ASSUME NEW f, NEW x, NEW y
  PROVE  /\ DOMAIN With(f, x, y) = DOMAIN f \cup {x}
         /\ \A q \in DOMAIN f \cup {x} : With(f, x, y)[q] = IF q = x THEN y ELSE f[q]
BY DEF With

LEMMA MaxRunFacts == MaxRun \in Nat /\ MaxRun >= 4 /\ MinRun \in Nat /\ MinRun >= 2
<1> DEFINE d == 2 ^ Bits
<1>1. d \in Nat /\ d >= 1
  BY BitsAssumption
<1> HIDE DEF d
<1>2. 4 * d \in Nat /\ 4 * d >= 4 /\ d \div 4 \in Nat
  BY <1>1
<1> QED
  BY <1>2 DEF d, MaxRun, MinRun

\* A run that is closed has two items at least, one that is kept has room.
LEMMA BoundaryFacts ==
  ASSUME NEW item, NEW n \in Nat, n <= MaxRun, NEW b \in BOOLEAN, IsBoundary(item, n, b)
  PROVE  (b => n >= 2) /\ (~b => n < MaxRun)
BY MaxRunFacts DEF IsBoundary

LEMMA ToSetSeq ==
  ASSUME NEW S, NEW s \in Seq(S)
  PROVE  ToSet(s) = {s[i] : i \in 1..Len(s)} /\ ToSet(s) \subseteq S /\ s \in Seq(ToSet(s))
<1>1. DOMAIN s = 1..Len(s) /\ Len(s) \in Nat /\ \A i \in 1..Len(s) : s[i] \in S
  OBVIOUS
<1>2. ToSet(s) = {s[i] : i \in 1..Len(s)}
  BY <1>1 DEF ToSet
<1>3. \A i \in 1..Len(s) : s[i] \in ToSet(s)
  BY <1>2
<1>4. s \in Seq(ToSet(s))
  <2> DEFINE T == ToSet(s)
  <2> HIDE DEF T
  <2>1. s \in [1..Len(s) -> T]
    BY <1>1, <1>3 DEF T
  <2>2. s \in Seq(T)
    BY <1>1, <2>1
  <2> QED
    BY <2>2 DEF T
<1> QED
  BY <1>1, <1>2, <1>4

LEMMA ToSetAppend ==
  ASSUME NEW S, NEW s \in Seq(S), NEW o
  PROVE  ToSet(Append(s, o)) = ToSet(s) \cup {o}
<1> DEFINE n == Len(s)
           t == Append(s, o)
<1>1. s \in Seq(S \cup {o}) /\ o \in S \cup {o}
  <2>1. S \subseteq S \cup {o}
    OBVIOUS
  <2> QED
    BY <2>1, SeqMonotonic
<1>2. /\ t \in Seq(S \cup {o}) /\ Len(t) = n + 1 /\ n \in Nat
      /\ \A i \in 1..n : t[i] = s[i]
      /\ t[n + 1] = o
  <2> DEFINE R == S \cup {o}
  <2> HIDE DEF R
  <2>1. s \in Seq(R) /\ o \in R
    BY <1>1 DEF R
  <2> QED
    BY <2>1 DEF R
<1>3. ToSet(s) = {s[i] : i \in 1..n} /\ ToSet(t) = {t[i] : i \in 1..(n + 1)}
  <2> HIDE DEF t
  <2> QED
    BY <1>2, ToSetSeq
<1>4. \A i \in 1..(n + 1) : i \in 1..n \/ i = n + 1
  BY <1>2
<1>5. n + 1 \in 1..(n + 1) /\ \A i \in 1..n : i \in 1..(n + 1)
  BY <1>2
<1> HIDE DEF t, n
<1>6. ToSet(t) = ToSet(s) \cup {o}
  BY <1>2, <1>3, <1>4, <1>5
<1> QED
  BY <1>6 DEF t

LEMMA ItemsMono ==
  ASSUME NEW C, NEW E, C \subseteq E
  PROVE  /\ Items(C) \subseteq Items(E) /\ Seq(Items(C)) \subseteq Seq(Items(E))
         /\ Seq(Seq(Items(C))) \subseteq Seq(Seq(Items(E)))
<1>1. Items(C) \subseteq Items(E)
  BY DEF Items
<1>2. Seq(Items(C)) \subseteq Seq(Items(E))
  BY <1>1, SeqMonotonic
<1>3. Seq(Seq(Items(C))) \subseteq Seq(Seq(Items(E)))
  BY <1>2, SeqMonotonic
<1> QED
  BY <1>1, <1>2, <1>3

LEMMA ItemFacts ==
  ASSUME NEW C, NEW it \in Items(C)
  PROVE  it.child \in C /\ it.sep \in Nat
BY DEF Items

LEMMA MakeItem ==
  ASSUME NEW C, NEW k \in C, NEW n \in Nat
  PROVE  [sep |-> n, child |-> k] \in Items(C) /\ [child |-> k, sep |-> n] \in Items(C)
BY DEF Items

\* What NoDegenerateNode says of one object.
Sized(o) ==
  /\ o.type \in {"FileNode", "DirNode"} => Len(o.body) \in 2..MaxRun
  /\ o.type = "DirLeaf" => Len(o.body) <= MaxRun

LEMMA Emitting ==
  ASSUME NEW o, emit(o), emitted \in Seq(Stored), Closed, NoDegenerateNode,
         ChildKeys(o) \subseteq Stored, Sized(o)
  PROVE  /\ emitted' \in Seq(Stored') /\ Stored' = Stored \cup {o} /\ Last(emitted') = o
         /\ Closed' /\ NoDegenerateNode'
<1> DEFINE n == Len(emitted)
           t == emitted'
           S == Stored
<1>1. t = Append(emitted, o) /\ emitted \in Seq(S)
  BY DEF emit
<1>2. Stored' = S \cup {o}
  BY <1>1, ToSetAppend DEF Stored
<1>3. emitted \in Seq(S \cup {o}) /\ o \in S \cup {o} /\ n \in Nat
  <2>1. S \subseteq S \cup {o}
    OBVIOUS
  <2> HIDE DEF S
  <2> QED
    BY <1>1, <2>1, SeqMonotonic
<1>4. /\ t \in Seq(S \cup {o}) /\ Len(t) = n + 1
      /\ \A i \in 1..n : t[i] = emitted[i]
      /\ t[n + 1] = o
  <2> DEFINE R == S \cup {o}
  <2> HIDE DEF R
  <2>1. emitted \in Seq(R) /\ o \in R
    BY <1>3 DEF R
  <2> QED
    BY <1>1, <2>1 DEF R
<1>5. t \in Seq(Stored')
  BY <1>2, <1>4
<1>6. Last(t) = o
  BY <1>4 DEF Last
<1>7. Closed'
  <2> SUFFICES ASSUME NEW i \in 1..(n + 1)
               PROVE  ChildKeys(t[i]) \subseteq {t[j] : j \in 1..(i - 1)}
    BY <1>4 DEF Closed
  <2>1. CASE i \in 1..n
    <3>1. ChildKeys(emitted[i]) \subseteq {emitted[j] : j \in 1..(i - 1)}
      BY <2>1 DEF Closed
    <3>2. \A j \in 1..(i - 1) : t[j] = emitted[j]
      BY <1>3, <1>4, <2>1
    <3>3. t[i] = emitted[i]
      BY <1>4, <2>1
    <3> HIDE DEF t
    <3> QED
      BY <3>1, <3>2, <3>3
  <2>2. CASE i = n + 1
    <3>1. S = {emitted[j] : j \in 1..n}
      BY <1>1, ToSetSeq DEF Stored
    <3>2. i - 1 = n
      BY <1>3, <2>2
    <3> HIDE DEF t, S
    <3>3. ChildKeys(o) \subseteq S
      BY DEF S
    <3>4. S = {t[j] : j \in 1..n}
      BY <1>4, <3>1
    <3> QED
      BY <1>4, <2>2, <3>2, <3>3, <3>4
  <2>3. i \in 1..n \/ i = n + 1
    BY <1>3
  <2> QED
    BY <2>1, <2>2, <2>3
<1>8. NoDegenerateNode'
  <2>1. \A x \in S : Sized(x)
    BY DEF NoDegenerateNode, Sized, Stored
  <2>2. \A x \in Stored' : Sized(x)
    BY <1>2, <2>1
  <2> QED
    BY <2>2 DEF NoDegenerateNode, Sized, Stored
<1> QED
  BY <1>2, <1>5, <1>6, <1>7, <1>8

\* The object of a run of items, and of a run of entries.
LEMMA NodeFacts ==
  ASSUME NEW C, NEW run \in Seq(Items(C)), Len(run) \in 2..MaxRun
  PROVE  /\ ChildKeys(buildNode(run).child) \subseteq C /\ Sized(buildNode(run).child)
         /\ buildNode(run).sep \in Nat
         /\ buildNode(run) = [child |-> buildNode(run).child, sep |-> buildNode(run).sep]
         /\ buildNode(run).child = IF isDir THEN EncodeDirNode(run) ELSE EncodeFileNode(run)
<1> DEFINE k == IF isDir THEN EncodeDirNode(run) ELSE EncodeFileNode(run)
<1>1. buildNode(run).child = k /\ buildNode(run).sep = Last(run).sep
  BY DEF buildNode
<1>2. \A i \in 1..Len(run) : run[i] \in Items(C)
  OBVIOUS
<1>3. Last(run).sep \in Nat
  <2>1. Last(run) \in Items(C)
    BY <1>2 DEF Last
  <2> QED
    BY <2>1, ItemFacts
<1>4. ToSet(run) = {run[i] : i \in 1..Len(run)}
  BY ToSetSeq
<1>5. EncodeFileNode(run).type = "FileNode" /\ EncodeFileNode(run).body = Kids(run)
  BY DEF EncodeFileNode, Kids
<1>6. EncodeDirNode(run).type = "DirNode" /\ EncodeDirNode(run).body = run
  BY DEF EncodeDirNode
<1>7. Kids(run) \in Seq(C) /\ Len(Kids(run)) = Len(run)
  BY KidsType
<1>8. ToSet(Kids(run)) \subseteq C
  BY <1>7, ToSetSeq
<1>9. {x.child : x \in ToSet(run)} \subseteq C
  BY <1>2, <1>4, ItemFacts
<1>10. ChildKeys(k) \subseteq C
  BY <1>5, <1>6, <1>8, <1>9 DEF ChildKeys
<1>11. Sized(k)
  BY <1>5, <1>6, <1>7 DEF Sized
<1> HIDE DEF k
<1> QED
  BY <1>1, <1>3, <1>10, <1>11 DEF buildNode, k

LEMMA EntryFacts ==
  ASSUME Typed, NodeTyped, NEW e \in Entries
  PROVE  e.name \in Nat /\ ToSet(e.content) \subseteq Stored
<1>1. PICK p \in Ready : e = Entry(src, keyOf, p)
  BY DEF Entries
<1>2. p \in Seq(Name) /\ p # <<>>
  BY <1>1, ScenarioAssumption DEF Ready, Typed, IsTree, Name, src
<1>3. Last(p) \in Name
  BY <1>2, PathSplit
<1>4. e.name = Last(p) /\ e.content = IF HasContent(src[p]) THEN <<keyOf[p]>> ELSE <<>>
  BY <1>1 DEF Entry
<1>5. HasContent(src[p]) => keyOf[p] \in Stored
  BY <1>1 DEF NodeTyped, Ready
<1>6. ToSet(<<>>) = {} /\ ToSet(<<keyOf[p]>>) = {keyOf[p]}
  BY DEF ToSet
<1> QED
  BY <1>3, <1>4, <1>5, <1>6 DEF Name

LEMMA LeafFacts ==
  ASSUME Typed, NodeTyped, NEW es \in Seq(Entries), Len(es) <= MaxRun,
         \A e \in ToSet(es) : ToSet(e.xattrsKey) \subseteq Stored
  PROVE  /\ ChildKeys(EncodeDirLeaf(es)) \subseteq Stored /\ Sized(EncodeDirLeaf(es))
         /\ (IF es = <<>> THEN NoSep ELSE Last(es).name) \in Nat
<1>1. ToSet(es) \subseteq Entries
  BY ToSetSeq
<1>2. EncodeDirLeaf(es).type = "DirLeaf" /\ EncodeDirLeaf(es).body = es
  BY DEF EncodeDirLeaf
<1>3. \A e \in ToSet(es) : ToSet(e.content) \subseteq Stored
  BY <1>1, EntryFacts
<1>4. ChildKeys(EncodeDirLeaf(es)) = UNION {ToSet(e.content) \cup ToSet(e.xattrsKey) : e \in ToSet(es)}
  BY <1>2 DEF ChildKeys
<1>5. ChildKeys(EncodeDirLeaf(es)) \subseteq Stored
  BY <1>3, <1>4
<1>6. Sized(EncodeDirLeaf(es))
  BY <1>2 DEF Sized
<1>7. es # <<>> => Last(es).name \in Nat
  <2> SUFFICES ASSUME es # <<>> PROVE Last(es).name \in Nat
    OBVIOUS
  <2>1. Last(es) \in Entries
    BY PathSplit
  <2> QED
    BY <2>1, EntryFacts
<1> QED
  BY <1>5, <1>6, <1>7 DEF NoSep

----------------------------------------------------------------------------
(* Every step of the build preserves its invariant.                         *)

LEMMA SameNodes ==
  ASSUME scenario' = scenario, keyOf' = keyOf
  PROVE  src' = src /\ Entries' = Entries /\ Built(src)' = Built(src)
BY DEF src, Entries, Ready

\* A new object is emitted and goes up as an item.
Rises(o, l, it) ==
  /\ l \in Nat \ {0} /\ it \in Items(Stored \cup {o}) /\ it.child = o
  /\ emit(o) /\ ChildKeys(o) \subseteq Stored /\ Sized(o)
  /\ call' = <<l, it>> /\ leaf' = <<>>
  /\ levels' \in Seq(Seq(Items(Stored))) /\ l <= Len(levels') + 1
  /\ \A i \in 1..Len(levels') : Len(levels'[i]) < MaxRun
  /\ \A j \in 1..Len(levels') : j < l => levels'[j] = <<>>
  /\ fin' \in Nat /\ fin' <= l /\ (fin' > 0 => input' = <<>>)
  /\ isDir => input' \in Seq(Entries)
  /\ ~isDir => input' \in Seq(Chunk \cup {NoChunk})
  /\ spilled' = FALSE /\ UNCHANGED <<phase, node, keyOf, isDir>>

LEMMA EmitItem ==
  ASSUME BuildInv, AtNode, NEW o, NEW l, NEW it, Rises(o, l, it)
  PROVE  BuildInv'
<1> USE DEF Rises
<1>1. /\ emitted' \in Seq(Stored') /\ Stored' = Stored \cup {o} /\ Last(emitted') = o
      /\ Closed' /\ NoDegenerateNode'
  BY Emitting DEF BuildInv, Typed
<1>2. scenario' = scenario /\ src' = src /\ Entries' = Entries /\ Built(src)' = Built(src)
  BY SameNodes DEF AtNode, Building
<1>3. levels' \in Seq(Seq(Items(Stored')))
  <2>1. Stored \subseteq Stored'
    BY <1>1
  <2> QED
    BY <2>1, ItemsMono
<1>4. call'[1] = l /\ call'[2] = it /\ call' # <<>>
  OBVIOUS
<1>5. <<>> \in Seq(Entries) /\ Len(<<>>) = 0 /\ ToSet(<<>>) = {}
  BY DEF ToSet
<1>6. Typed'
  BY <1>1, <1>2, <1>3, <1>5 DEF BuildInv, Typed
<1>7. NodeTyped'
  <2>1. node # <<>> /\ node' = node /\ phase = "build"
    BY DEF AtNode, Building
  <2>2. \A q \in DOMAIN keyOf : keyOf[q] \in Stored'
    BY <1>1 DEF BuildInv, NodeTyped
  <2> QED
    BY <1>2, <2>1, <2>2 DEF BuildInv, NodeTyped
<1>8. Bounded'
  BY <1>5, MaxRunFacts DEF Bounded
<1>9. Settled'
  <2>1. Len(levels') \in Nat
    BY <1>3
  <2> QED
    BY <1>4, <2>1 DEF Settled
<1>10. Spilt'
  BY <1>5 DEF Spilt
<1>11. Tip'
  BY <1>1, <1>4 DEF Tip
<1> QED
  BY <1>1, <1>6, <1>7, <1>8, <1>9, <1>10, <1>11 DEF BuildInv

LEMMA SourceFacts ==
  ASSUME scenario \in Scenarios
  PROVE  /\ IsTree(src) /\ \A q \in DOMAIN src : src[q].kind = "reg" => src[q].data \in Seq(Chunk)
         /\ \A q \in DOMAIN src : q \in Seq(Name) /\ q # <<>>
         /\ \A q \in Built(src) : q \in Seq(Name)
<1>1. IsTree(src) /\ \A q \in DOMAIN src : src[q].kind = "reg" => src[q].data \in Seq(Chunk)
  BY ScenarioAssumption DEF src
<1>2. \A q \in DOMAIN src : q \in Seq(Name) /\ q # <<>>
  BY <1>1 DEF IsTree, Name
<1>3. <<>> \in Seq(Name)
  OBVIOUS
<1> QED
  BY <1>1, <1>2, <1>3 DEF Built

LEMMA NodeStart ==
  ASSUME BuildInv, scenario \in Scenarios, NEW p \in Built(src), StartNode(p)
  PROVE  input' \in IF IsDirectory(src, p) THEN Seq(Entries) ELSE Seq(Chunk \cup {NoChunk})
<1>1. IsTree(src) /\ \A q \in DOMAIN src : src[q].kind = "reg" => src[q].data \in Seq(Chunk)
  BY SourceFacts
<1>2. p \in Seq(Name)
  BY SourceFacts
<1>3. input' = Input(src, keyOf, p)
  BY DEF StartNode
<1>4. CASE IsDirectory(src, p)
  <2> DEFINE r == ReadDir(src, p)
             t == [i \in DOMAIN r |-> Entry(src, keyOf, r[i])]
  <2>1. r \in Seq(Children(src, p))
    BY <1>1, <1>2, ReadDirFacts DEF Listing
  <2> HIDE DEF r
  <2>2. Children(src, p) \subseteq Ready
    BY DEF Children, Ready, StartNode, Built
  <2>3. \A i \in 1..Len(r) : Entry(src, keyOf, r[i]) \in Entries
    BY <2>1, <2>2 DEF Entries
  <2>4. DOMAIN r = 1..Len(r) /\ Len(r) \in Nat
    BY <2>1
  <2>5. t \in Seq(Entries)
    <3> DEFINE E == Entries
               g(i) == Entry(src, keyOf, r[i])
    <3>1. \A i \in 1..Len(r) : g(i) \in E
      BY <2>3
    <3> HIDE DEF E, g
    <3>2. [i \in 1..Len(r) |-> g(i)] \in [1..Len(r) -> E]
      BY <3>1
    <3>3. [i \in 1..Len(r) |-> g(i)] \in Seq(E)
      BY <2>4, <3>2
    <3> QED
      BY <2>4, <3>3 DEF E, g
  <2> QED
    BY <1>3, <1>4, <2>5 DEF Input, r
<1>5. CASE ~IsDirectory(src, p)
  <2>1. p \in DOMAIN src /\ src[p].kind = "reg"
    BY <1>5 DEF Built, IsDirectory, HasContent
  <2>2. src[p].data \in Seq(Chunk)
    BY <1>1, <2>1
  <2>3. src[p].data \in Seq(Chunk \cup {NoChunk})
    <3>1. Chunk \subseteq Chunk \cup {NoChunk}
      OBVIOUS
    <3> QED
      BY <2>2, <3>1, SeqMonotonic
  <2>4. <<NoChunk>> \in Seq(Chunk \cup {NoChunk})
    OBVIOUS
  <2>5. Input(src, keyOf, p) = IF src[p].data = <<>> THEN <<NoChunk>> ELSE src[p].data
    BY <1>5 DEF Input
  <2> QED
    BY <1>3, <1>5, <2>3, <2>4, <2>5
<1> QED
  BY <1>4, <1>5

LEMMA BuildInvStart ==
  ASSUME BuildInv, NEW p \in Built(src), StartNode(p)
  PROVE  BuildInv'
<1>0. scenario \in Scenarios
  BY DEF BuildInv, Typed
<1>1. /\ phase = "build" /\ phase' = phase /\ scenario' = scenario /\ keyOf' = keyOf /\ node = <<>>
      /\ node' = <<p>> /\ p \notin DOMAIN keyOf /\ Children(src, p) \cap Built(src) \subseteq DOMAIN keyOf
      /\ isDir' = IsDirectory(src, p) /\ leaf' = <<>> /\ levels' = <<>> /\ call' = <<>> /\ fin' = 0
      /\ spilled' = spilled /\ emitted' = emitted
  BY DEF StartNode, Building, NewBuilder
<1>2. src' = src /\ Entries' = Entries /\ Built(src)' = Built(src) /\ Stored' = Stored
  BY <1>1, SameNodes DEF Stored
<1>3. input' \in IF IsDirectory(src, p) THEN Seq(Entries) ELSE Seq(Chunk \cup {NoChunk})
  BY <1>0, NodeStart
<1>4. IsDirectory(src, p) \in BOOLEAN
  BY DEF IsDirectory
<1>5. <<>> \in Seq(Entries) /\ Len(<<>>) = 0 /\ ToSet(<<>>) = {} /\ <<>> \in Seq(Seq(Items(Stored)))
  BY DEF ToSet
<1>6. Typed'
  BY <1>1, <1>2, <1>4, <1>5 DEF BuildInv, Typed
<1>7. NodeTyped'
  <2>1. node' # <<>> /\ node'[1] = p
    BY <1>1
  <2> QED
    BY <1>1, <1>2, <1>3, <2>1 DEF BuildInv, NodeTyped
<1>8. Bounded' /\ Settled' /\ Spilt'
  BY <1>1, <1>5, MaxRunFacts DEF Bounded, Settled, Spilt, BuildInv, NodeTyped
<1>9. Closed' /\ NoDegenerateNode' /\ Tip'
  BY <1>1, <1>5 DEF Closed, NoDegenerateNode, Tip, BuildInv
<1> QED
  BY <1>6, <1>7, <1>8, <1>9 DEF BuildInv

LEMMA XattrKey ==
  ASSUME NEW e \in Entries
  PROVE  e.xattrsKey \in {<<>>, <<XattrSet>>}
BY DEF Entries, Entry

LEMMA BuildInvSpill ==
  ASSUME BuildInv, SpillXattrs
  PROVE  BuildInv'
<1> DEFINE o == input[1].xattrsKey[1]
<1>1. /\ AtNode /\ call = <<>> /\ isDir /\ input # <<>> /\ input[1].xattrsKey # <<>> /\ emit(o)
      /\ ~spilled /\ spilled' = TRUE
      /\ UNCHANGED <<phase, node, input, keyOf, isDir, leaf, levels, call, fin>>
  BY DEF SpillXattrs
<1>2. input \in Seq(Entries) /\ input[1] \in Entries
  BY <1>1, EmptySeq DEF BuildInv, NodeTyped
<1>3. o = XattrSet
  BY <1>1, <1>2, XattrKey
<1>4. ChildKeys(XattrSet) = {} /\ Sized(XattrSet)
  BY DEF XattrSet, ChildKeys, Sized
<1>5. /\ emitted' \in Seq(Stored') /\ Stored' = Stored \cup {XattrSet} /\ Closed' /\ NoDegenerateNode'
  BY <1>1, <1>3, <1>4, Emitting DEF BuildInv, Typed
<1>6. scenario' = scenario /\ src' = src /\ Entries' = Entries /\ Built(src)' = Built(src)
  BY <1>1, SameNodes DEF AtNode, Building
<1>7. Stored \subseteq Stored'
  BY <1>5
<1>8. Typed'
  BY <1>1, <1>5, <1>6, <1>7, ItemsMono DEF BuildInv, Typed
<1>9. NodeTyped'
  <2>1. \A q \in DOMAIN keyOf : keyOf[q] \in Stored'
    BY <1>7 DEF BuildInv, NodeTyped
  <2>2. node # <<>> /\ node' = node
    BY <1>1 DEF AtNode
  <2> QED
    BY <1>1, <1>6, <2>1, <2>2 DEF BuildInv, NodeTyped
<1>10. Bounded' /\ Settled'
  BY <1>1 DEF BuildInv, Bounded, Settled
<1>11. Spilt'
  <2>1. fin = 0
    BY <1>1 DEF BuildInv, Settled, Typed
  <2> QED
    BY <1>1, <1>5, <1>7, <2>1 DEF BuildInv, Spilt
<1>12. Tip'
  BY <1>1 DEF Tip
<1> QED
  BY <1>5, <1>8, <1>9, <1>10, <1>11, <1>12 DEF BuildInv

\* AddEntry, with and without a boundary.
LEMMA BuildInvEntry ==
  ASSUME BuildInv, AtNode, input # <<>>, isDir, input[1].xattrsKey # <<>> => spilled,
         AddEntry(input[1]), input' = Tail(input), spilled' = FALSE, UNCHANGED <<phase, node, keyOf>>
  PROVE  BuildInv'
<1> DEFINE e == input[1]
           es == Append(leaf, e)
           o == EncodeDirLeaf(es)
<1>1. /\ call = <<>> /\ fin = 0 /\ fin' = fin /\ isDir' = isDir /\ levels' = levels
      /\ input \in Seq(Entries) /\ leaf \in Seq(Entries)
      /\ scenario' = scenario /\ src' = src /\ Entries' = Entries /\ Built(src)' = Built(src)
  BY SameNodes DEF AddEntry, AtNode, Building, BuildInv, NodeTyped, Typed
<1>2. e \in Entries /\ Tail(input) \in Seq(Entries)
  BY <1>1, EmptySeq
<1>3. es \in Seq(Entries) /\ Len(es) = Len(leaf) + 1 /\ Len(leaf) \in Nat /\ es # <<>>
  BY <1>1, <1>2, PathAppend
<1>4. Len(leaf) < MaxRun /\ Len(es) <= MaxRun
  BY <1>3, MaxRunFacts DEF BuildInv, Bounded
<1>5. \A x \in ToSet(es) : ToSet(x.xattrsKey) \subseteq Stored
  <2>1. ToSet(es) = ToSet(leaf) \cup {e}
    BY <1>1, ToSetAppend
  <2>2. ToSet(<<>>) = {} /\ ToSet(<<XattrSet>>) = {XattrSet}
    BY DEF ToSet
  <2>3. ToSet(e.xattrsKey) \subseteq Stored
    BY <1>2, <2>2, XattrKey DEF BuildInv, Spilt
  <2> QED
    BY <2>1, <2>3 DEF BuildInv, Spilt
<1>6. PICK b \in BOOLEAN :
        /\ IsBoundary(e, Len(leaf) + 1, b)
        /\ IF b THEN closeLeaf(es) ELSE leaf' = es /\ UNCHANGED <<call, emitted>>
  BY DEF AddEntry
<1>7. CASE b
  <2> DEFINE it == [sep |-> Last(es).name, child |-> o]
  <2>1. leaf' = <<>> /\ emit(o) /\ call' = <<1, it>>
    BY <1>3, <1>6, <1>7 DEF closeLeaf, AddChild
  <2>2. ChildKeys(o) \subseteq Stored /\ Sized(o) /\ Last(es).name \in Nat
    <3>1. Typed /\ NodeTyped
      BY DEF BuildInv
    <3> HIDE DEF es
    <3> QED
      BY <1>3, <1>4, <1>5, <3>1, LeafFacts
  <2>3. it \in Items(Stored \cup {o}) /\ it.child = o
    BY <2>2, MakeItem
  <2>4. /\ levels' \in Seq(Seq(Items(Stored)))
        /\ \A i \in 1..Len(levels') : Len(levels'[i]) < MaxRun
        /\ Len(levels') \in Nat
    BY <1>1 DEF BuildInv, Typed, Bounded
  <2> HIDE DEF it, o
  <2>5. Rises(o, 1, it)
    BY <1>1, <1>2, <2>1, <2>2, <2>3, <2>4 DEF Rises
  <2> QED
    BY <1>1, <2>5, EmitItem
<1>8. CASE ~b
  <2>1. leaf' = es /\ call' = call /\ emitted' = emitted /\ Stored' = Stored
    BY <1>6, <1>8 DEF Stored
  <2>2. Len(es) < MaxRun
    <3>1. Len(leaf) + 1 \in Nat /\ Len(leaf) + 1 <= MaxRun
      BY <1>3, <1>4
    <3>2. Len(leaf) + 1 < MaxRun
      BY <1>6, <1>8, <3>1, BoundaryFacts
    <3> QED
      BY <1>3, <3>2
  <2> HIDE DEF es
  <2>3. Typed'
    BY <1>1, <1>3, <2>1 DEF BuildInv, Typed
  <2>4. NodeTyped'
    <3>1. node # <<>> /\ node' = node
      BY DEF AtNode
    <3> QED
      BY <1>1, <1>2, <2>1, <3>1 DEF BuildInv, NodeTyped
  <2>5. Bounded'
    BY <1>1, <2>1, <2>2 DEF BuildInv, Bounded
  <2>6. Settled'
    BY <1>1, <2>1 DEF BuildInv, Settled
  <2>7. Spilt'
    BY <1>5, <2>1 DEF Spilt
  <2>8. Closed' /\ NoDegenerateNode'
    BY <2>1 DEF BuildInv, Closed, NoDegenerateNode
  <2>9. Tip'
    BY <1>3, <2>1 DEF Tip
  <2> QED
    BY <2>3, <2>4, <2>5, <2>6, <2>7, <2>8, <2>9 DEF BuildInv
<1> QED
  BY <1>7, <1>8

LEMMA BuildInvChunk ==
  ASSUME BuildInv, AtNode, input # <<>>, AddChunk(input[1]), input' = Tail(input), spilled' = FALSE,
         UNCHANGED <<phase, node, keyOf>>
  PROVE  BuildInv'
<1> DEFINE o == EncodeBlob(input[1])
           it == [sep |-> NoSep, child |-> o]
<1>1. /\ ~isDir /\ call = <<>> /\ fin = 0 /\ fin' = fin /\ isDir' = isDir /\ levels' = levels /\ leaf' = leaf
      /\ emit(o) /\ call' = <<1, it>>
  BY DEF AddChunk, AddChild
<1>2. leaf = <<>> /\ input \in Seq(Chunk \cup {NoChunk})
  BY <1>1 DEF BuildInv, NodeTyped
<1>3. Tail(input) \in Seq(Chunk \cup {NoChunk})
  BY <1>2
<1>4. ChildKeys(o) = {} /\ Sized(o)
  BY DEF EncodeBlob, ChildKeys, Sized
<1>5. it \in Items(Stored \cup {o}) /\ it.child = o
  BY MakeItem DEF NoSep
<1>6. /\ levels' \in Seq(Seq(Items(Stored)))
      /\ \A i \in 1..Len(levels') : Len(levels'[i]) < MaxRun
      /\ Len(levels') \in Nat
  BY <1>1 DEF BuildInv, Typed, Bounded
<1> HIDE DEF it, o
<1> QED
  <2>1. Rises(o, 1, it)
    BY <1>1, <1>2, <1>3, <1>4, <1>5, <1>6 DEF Rises
  <2> QED
    BY <2>1, EmitItem

LEMMA BuildInvFeed ==
  ASSUME BuildInv, Feed
  PROVE  BuildInv'
BY BuildInvEntry, BuildInvChunk DEF Feed

LEMMA BuildInvFinish ==
  ASSUME BuildInv, FinishNode
  PROVE  BuildInv'
<1>1. /\ AtNode /\ input = <<>> /\ call = <<>> /\ fin = 0 /\ fin' = 1 /\ isDir' = isDir /\ levels' = levels
      /\ UNCHANGED <<phase, node, input, spilled, keyOf>>
  BY DEF FinishNode, FinishLeaf, buildVars
<1>2. /\ scenario' = scenario /\ src' = src /\ Entries' = Entries /\ Built(src)' = Built(src)
      /\ leaf \in Seq(Entries) /\ <<>> \in Seq(Entries) /\ <<>> \in Seq(Chunk \cup {NoChunk})
      /\ ~spilled /\ spilled \in BOOLEAN /\ Len(levels) \in Nat
  BY <1>1, SameNodes DEF AtNode, Building, BuildInv, Typed, Spilt
<1>3. CASE isDir /\ (leaf # <<>> \/ levels = <<>>)
  <2> DEFINE o == EncodeDirLeaf(leaf)
             n == IF leaf = <<>> THEN NoSep ELSE Last(leaf).name
             it == [sep |-> n, child |-> o]
  <2>1. leaf' = <<>> /\ emit(o) /\ call' = <<1, it>>
    BY <1>3 DEF FinishNode, FinishLeaf, closeLeaf, AddChild
  <2>2. ChildKeys(o) \subseteq Stored /\ Sized(o) /\ n \in Nat
    <3>1. Len(leaf) \in Nat /\ Len(leaf) <= MaxRun
      BY <1>2, MaxRunFacts DEF BuildInv, Bounded
    <3> QED
      BY <1>2, <3>1, LeafFacts DEF BuildInv, Spilt
  <2>3. it \in Items(Stored \cup {o}) /\ it.child = o
    BY <2>2, MakeItem
  <2>4. /\ levels' \in Seq(Seq(Items(Stored)))
        /\ \A i \in 1..Len(levels') : Len(levels'[i]) < MaxRun
        /\ Len(levels') \in Nat
    BY <1>1 DEF BuildInv, Typed, Bounded
  <2> HIDE DEF it, o
  <2>5. Rises(o, 1, it)
    BY <1>1, <1>2, <2>1, <2>2, <2>3, <2>4 DEF Rises
  <2> QED
    BY <1>1, <2>5, EmitItem
<1>4. CASE ~(isDir /\ (leaf # <<>> \/ levels = <<>>))
  <2>1. leaf' = leaf /\ call' = call /\ emitted' = emitted /\ Stored' = Stored
    BY <1>4 DEF FinishNode, FinishLeaf, Stored
  <2>2. leaf = <<>>
    BY <1>4 DEF BuildInv, NodeTyped
  <2>3. Typed'
    BY <1>1, <1>2, <2>1 DEF BuildInv, Typed
  <2>4. NodeTyped'
    <3>1. node # <<>> /\ node' = node
      BY <1>1 DEF AtNode
    <3> QED
      BY <1>1, <1>2, <2>1, <3>1 DEF BuildInv, NodeTyped
  <2>5. Bounded' /\ Spilt'
    BY <1>1, <1>2, <2>1 DEF BuildInv, Bounded, Spilt
  <2>6. Settled'
    BY <1>1, <1>2, <2>1, <2>2 DEF BuildInv, Settled
  <2>7. Closed' /\ NoDegenerateNode'
    BY <2>1 DEF BuildInv, Closed, NoDegenerateNode
  <2>8. Tip'
    BY <1>1, <2>1 DEF BuildInv, Tip, Lowest
  <2> QED
    BY <2>3, <2>4, <2>5, <2>6, <2>7, <2>8 DEF BuildInv
<1> QED
  BY <1>3, <1>4

LEMMA EnsureFacts ==
  ASSUME BuildInv, call # <<>>, NEW l, l = call[1]
  PROVE  /\ ensure(l) \in Seq(Seq(Items(Stored))) /\ l \in 1..Len(ensure(l)) /\ l \in Nat \ {0}
         /\ Len(ensure(l)) \in Nat /\ Len(levels) <= Len(ensure(l))
         /\ \A j \in 1..(l - 1) : ensure(l)[j] = <<>>
         /\ \A j \in 1..Len(ensure(l)) : Len(ensure(l)[j]) < MaxRun
<1> DEFINE S == Seq(Items(Stored))
<1>1. /\ levels \in Seq(S) /\ l \in Nat \ {0} /\ l <= Len(levels) + 1 /\ <<>> \in S
      /\ \A j \in 1..Len(levels) : j < l => levels[j] = <<>>
      /\ \A j \in 1..Len(levels) : Len(levels[j]) < MaxRun
  BY DEF BuildInv, Typed, Settled, Bounded
<1>2. Len(<<>>) = 0 /\ 0 < MaxRun
  BY MaxRunFacts
<1> HIDE DEF S
<1>3. CASE l > Len(levels)
  <2> DEFINE n == Len(levels)
             t == Append(levels, <<>>)
  <2>1. /\ t \in Seq(S) /\ Len(t) = n + 1 /\ n \in Nat /\ l = n + 1
        /\ \A j \in 1..n : t[j] = levels[j]
        /\ t[n + 1] = <<>>
    BY <1>1, <1>3, AppendProperties
  <2>2. ensure(l) = t
    BY <1>3 DEF ensure
  <2> HIDE DEF t, n
  <2>3. \A j \in 1..(n + 1) : j \in 1..n \/ j = n + 1
    BY <2>1
  <2>4. \A j \in 1..Len(t) : Len(t[j]) < MaxRun
    BY <1>1, <1>2, <2>1, <2>3 DEF n
  <2>5. \A j \in 1..(l - 1) : t[j] = <<>>
    BY <1>1, <2>1 DEF n
  <2> QED
    BY <1>1, <2>1, <2>2, <2>4, <2>5 DEF S, n
<1>4. CASE ~(l > Len(levels))
  <2>1. ensure(l) = levels /\ Len(levels) \in Nat
    BY <1>1, <1>4 DEF ensure
  <2>2. l \in 1..Len(levels) /\ \A j \in 1..(l - 1) : j \in 1..Len(levels) /\ j < l
    BY <1>1, <1>4, <2>1
  <2> QED
    BY <1>1, <2>1, <2>2 DEF S
<1> QED
  BY <1>3, <1>4

\* A level is replaced.
LEMMA LevelPut ==
  ASSUME NEW C, NEW ls \in Seq(Seq(Items(C))), NEW l \in 1..Len(ls), NEW r \in Seq(Items(C)),
         Len(r) < MaxRun,
         \A j \in 1..(l - 1) : ls[j] = <<>>,
         \A j \in 1..Len(ls) : Len(ls[j]) < MaxRun
  PROVE  /\ [ls EXCEPT ![l] = r] \in Seq(Seq(Items(C))) /\ Len([ls EXCEPT ![l] = r]) = Len(ls)
         /\ [ls EXCEPT ![l] = r][l] = r
         /\ \A j \in 1..Len(ls) : j # l => [ls EXCEPT ![l] = r][j] = ls[j]
         /\ \A j \in 1..Len(ls) : j < l => [ls EXCEPT ![l] = r][j] = <<>>
         /\ \A j \in 1..Len(ls) : Len([ls EXCEPT ![l] = r][j]) < MaxRun
<1> DEFINE S == Seq(Items(C))
           t == [ls EXCEPT ![l] = r]
<1>1. ls \in Seq(S) /\ r \in S /\ l \in 1..Len(ls) /\ Len(ls) \in Nat
  OBVIOUS
<1> HIDE DEF S
<1>2. /\ t \in Seq(S) /\ Len(t) = Len(ls)
      /\ \A j \in 1..Len(ls) : t[j] = IF j = l THEN r ELSE ls[j]
  BY <1>1, ExceptSeq
<1> HIDE DEF t
<1>3. \A j \in 1..Len(ls) : j < l => j \in 1..(l - 1) /\ j # l
  BY <1>1
<1>4. /\ t[l] = r
      /\ \A j \in 1..Len(ls) : j # l => t[j] = ls[j]
      /\ \A j \in 1..Len(ls) : j < l => t[j] = <<>>
      /\ \A j \in 1..Len(ls) : Len(t[j]) < MaxRun
  BY <1>1, <1>2, <1>3
<1> QED
  BY <1>2, <1>4 DEF t, S

\* What add works on.
Joining(l, it, run) ==
  /\ l = call[1] /\ it = call[2] /\ it \in Items(Stored) /\ it.child = Last(emitted)
  /\ run = Append(ensure(l)[l], it)
  /\ run \in Seq(Items(Stored)) /\ run # <<>> /\ Last(run) = it
  /\ Len(run) \in Nat /\ Len(run) <= MaxRun
  /\ ~spilled /\ leaf = <<>> /\ fin <= l

LEMMA JoiningFacts ==
  ASSUME BuildInv, AtNode, call # <<>>
  PROVE  Joining(call[1], call[2], Append(ensure(call[1])[call[1]], call[2]))
<1> DEFINE l == call[1]
           it == call[2]
           r == ensure(l)[l]
           run == Append(r, it)
<1>1. it \in Items(Stored) /\ leaf = <<>> /\ fin <= l
  BY DEF BuildInv, Typed, Settled
<1>2. ~spilled
  BY DEF BuildInv, Spilt
<1>3. it.child = Last(emitted)
  BY <1>1, <1>2 DEF BuildInv, Tip, AtNode
<1>4. r \in Seq(Items(Stored)) /\ Len(r) < MaxRun
  <2>1. /\ ensure(l) \in Seq(Seq(Items(Stored))) /\ l \in 1..Len(ensure(l))
        /\ \A j \in 1..Len(ensure(l)) : Len(ensure(l)[j]) < MaxRun
    BY EnsureFacts
  <2> QED
    BY <2>1
<1> HIDE DEF r, it
<1>5. run \in Seq(Items(Stored)) /\ run # <<>> /\ Last(run) = it /\ Len(run) = Len(r) + 1
  BY <1>1, <1>4, PathAppend
<1>6. Len(r) \in Nat
  BY <1>4
<1>7. Len(run) \in Nat /\ Len(run) <= MaxRun
  BY <1>4, <1>5, <1>6, MaxRunFacts
<1> HIDE DEF run
<1>8. Joining(l, it, run)
  BY <1>1, <1>2, <1>3, <1>5, <1>7 DEF Joining, r, it, run
<1> QED
  BY <1>8 DEF run, r, it

LEMMA BuildInvAdd ==
  ASSUME BuildInv, AtNode, add, UNCHANGED buildVars
  PROVE  BuildInv'
<1> DEFINE l == call[1]
           it == call[2]
           run == Append(ensure(l)[l], it)
           ls == ensure(l)
<1>1. /\ call # <<>> /\ isDir' = isDir /\ leaf' = leaf /\ fin' = fin
      /\ UNCHANGED <<phase, node, input, spilled, keyOf>>
  BY DEF add, buildVars
<1>2. Joining(l, it, run)
  BY <1>1, JoiningFacts
<1>3. /\ ls \in Seq(Seq(Items(Stored))) /\ l \in 1..Len(ls) /\ l \in Nat \ {0}
      /\ Len(ls) \in Nat /\ Len(levels) <= Len(ls) /\ Len(levels) \in Nat
      /\ \A j \in 1..(l - 1) : ls[j] = <<>>
      /\ \A j \in 1..Len(ls) : Len(ls[j]) < MaxRun
  <2>1. Len(levels) \in Nat
    BY DEF BuildInv, Typed
  <2> HIDE DEF l
  <2> QED
    BY <1>1, <2>1, EnsureFacts DEF l
<1>4. /\ scenario' = scenario /\ src' = src /\ Entries' = Entries /\ Built(src)' = Built(src)
  BY <1>1, SameNodes DEF AtNode, Building
<1>5. PICK b \in BOOLEAN :
        /\ IsBoundary(it, Len(run), b)
        /\ IF b THEN /\ levels' = [ls EXCEPT ![l] = <<>>]
                     /\ emit(buildNode(run).child)
                     /\ call' = <<l + 1, buildNode(run)>>
           ELSE /\ levels' = [ls EXCEPT ![l] = run]
                /\ call' = <<>>
                /\ UNCHANGED emitted
  BY DEF add
<1>6. fin \in Nat /\ (fin > 0 => input = <<>>)
  BY DEF BuildInv, Typed, Settled
<1> HIDE DEF l, it, run, ls
<1>7. (b => Len(run) >= 2) /\ (~b => Len(run) < MaxRun)
  <2>1. Len(run) \in Nat /\ Len(run) <= MaxRun /\ IsBoundary(it, Len(run), b) /\ b \in BOOLEAN
    BY <1>2, <1>5 DEF Joining
  <2> QED
    BY <2>1, BoundaryFacts
<1>8. CASE b
  <2> DEFINE nd == buildNode(run)
             o == nd.child
  <2>1. levels' = [ls EXCEPT ![l] = <<>>] /\ emit(o) /\ call' = <<l + 1, nd>>
    BY <1>5, <1>8
  <2>2. /\ ChildKeys(o) \subseteq Stored /\ Sized(o) /\ nd.sep \in Nat
        /\ nd = [child |-> o, sep |-> nd.sep]
    <3>1. run \in Seq(Items(Stored)) /\ Len(run) \in 2..MaxRun
      BY <1>2, <1>7, <1>8, MaxRunFacts DEF Joining
    <3> QED
      BY <3>1, NodeFacts
  <2>3. nd \in Items(Stored \cup {o})
    <3> HIDE DEF nd
    <3> QED
      BY <2>2, MakeItem
  <2>4. /\ levels' \in Seq(Seq(Items(Stored))) /\ Len(levels') = Len(ls)
        /\ \A j \in 1..Len(ls) : Len(levels'[j]) < MaxRun
        /\ \A j \in 1..Len(ls) : j < l => levels'[j] = <<>>
        /\ levels'[l] = <<>>
    <3>1. <<>> \in Seq(Items(Stored)) /\ Len(<<>>) < MaxRun
      BY MaxRunFacts
    <3> QED
      BY <1>3, <2>1, <3>1, LevelPut
  <2>5. l + 1 \in Nat \ {0} /\ l + 1 <= Len(levels') + 1 /\ fin <= l + 1
    <3>1. fin <= l
      BY <1>2 DEF Joining
    <3>2. Len(levels') = Len(ls)
      BY <2>4
    <3> QED
      BY <1>3, <1>6, <3>1, <3>2
  <2>6. \A j \in 1..Len(levels') : j < l + 1 => levels'[j] = <<>>
    <3>1. \A j \in 1..Len(ls) : j < l + 1 => j < l \/ j = l
      BY <1>3
    <3> QED
      BY <2>4, <3>1
  <2>7. isDir => input \in Seq(Entries)
    BY DEF BuildInv, NodeTyped
  <2>8. ~isDir => input \in Seq(Chunk \cup {NoChunk})
    BY DEF BuildInv, NodeTyped
  <2>9. ~spilled /\ leaf = <<>> /\ spilled \in BOOLEAN
    BY <1>2 DEF Joining, BuildInv, Typed
  <2> HIDE DEF nd
  <2>10. Rises(o, l + 1, nd)
    BY <1>1, <1>6, <2>1, <2>2, <2>3, <2>4, <2>5, <2>6, <2>7, <2>8, <2>9 DEF Rises
  <2> QED
    BY <2>10, EmitItem
<1>9. CASE ~b
  <2>1. levels' = [ls EXCEPT ![l] = run] /\ call' = <<>> /\ emitted' = emitted /\ Stored' = Stored
    BY <1>5, <1>9 DEF Stored
  <2>2. run \in Seq(Items(Stored)) /\ Len(run) < MaxRun
    BY <1>2, <1>7, <1>9 DEF Joining
  <2>3. /\ levels' \in Seq(Seq(Items(Stored))) /\ Len(levels') = Len(ls)
        /\ levels'[l] = run
        /\ \A j \in 1..Len(ls) : Len(levels'[j]) < MaxRun
        /\ \A j \in 1..Len(ls) : j < l => levels'[j] = <<>>
    BY <1>3, <2>1, <2>2, LevelPut
  <2>4. Typed'
    BY <1>1, <1>4, <2>1, <2>3 DEF BuildInv, Typed
  <2>5. NodeTyped'
    <3>1. node # <<>> /\ node' = node
      BY <1>1 DEF AtNode
    <3> QED
      BY <1>1, <1>4, <2>1, <3>1 DEF BuildInv, NodeTyped
  <2>6. Bounded'
    BY <1>1, <2>3 DEF BuildInv, Bounded
  <2>7. Settled'
    <3>1. leaf = <<>> /\ fin <= l
      BY <1>2 DEF Joining
    <3>2. \A j \in 1..Len(ls) : j < fin => j < l
      BY <1>3, <1>6, <3>1
    <3>3. fin <= Len(ls) + 1
      BY <1>3, <1>6, <3>1
    <3> QED
      BY <1>1, <1>6, <2>1, <2>3, <3>1, <3>2, <3>3 DEF Settled
  <2>8. Spilt'
    BY <1>1, <1>2, <2>1 DEF BuildInv, Spilt, Joining
  <2>9. Closed' /\ NoDegenerateNode'
    BY <2>1, SameEmitted
  <2>10. Tip'
    <3> SUFFICES ASSUME NEW j \in 1..Len(levels'), Lowest(j)'
                 PROVE  Last(levels'[j]).child = Last(emitted)
      BY <2>1 DEF Tip
    <3>1. levels'[j] # <<>> /\ \A i \in 1..(j - 1) : levels'[i] = <<>>
      BY DEF Lowest
    <3>2. run # <<>>
      BY <1>2 DEF Joining
    <3>3. j = l
      <4>1. ~(j < l)
        BY <2>3, <3>1
      <4>2. ~(l < j)
        <5>1. l < j => l \in 1..(j - 1)
          BY <1>3
        <5> QED
          BY <2>3, <3>1, <3>2, <5>1
      <4> QED
        BY <1>3, <4>1, <4>2
    <3> QED
      BY <1>2, <2>3, <3>3 DEF Joining
  <2> QED
    BY <2>4, <2>5, <2>6, <2>7, <2>8, <2>9, <2>10 DEF BuildInv
<1> QED
  BY <1>8, <1>9

\* What Finish finds at a level that is not empty.
AtRun(r) ==
  /\ r = levels[fin] /\ r \in Seq(Items(Stored)) /\ Len(r) \in Nat /\ Len(r) < MaxRun
  /\ fin \in 1..Len(levels) /\ fin \in Nat /\ Len(levels) \in Nat
  /\ leaf = <<>> /\ input = <<>> /\ ~spilled
  /\ \A j \in 1..(fin - 1) : levels[j] = <<>>
  /\ r # <<>> => Last(r).child = Last(emitted) /\ Last(r) \in Items(Stored)

LEMMA AtRunFacts ==
  ASSUME BuildInv, AtNode, AtLevel
  PROVE  AtRun(levels[fin])
<1>1. call = <<>> /\ levels \in Seq(Seq(Items(Stored))) /\ fin \in 1..Len(levels) /\ Len(levels) \in Nat
  BY DEF AtLevel, BuildInv, Typed
<1>2. fin > 0 /\ fin \in Nat
  BY <1>1
<1>3. leaf = <<>> /\ input = <<>> /\ ~spilled
  BY <1>2 DEF BuildInv, Settled, Spilt
<1>4. levels[fin] \in Seq(Items(Stored)) /\ Len(levels[fin]) < MaxRun
  BY <1>1 DEF BuildInv, Bounded
<1>5. Len(levels[fin]) \in Nat
  BY <1>4
<1>6. \A j \in 1..(fin - 1) : levels[j] = <<>>
  <2>1. \A j \in 1..(fin - 1) : j \in 1..Len(levels) /\ j < fin
    BY <1>1
  <2> QED
    BY <2>1 DEF BuildInv, Settled
<1>7. ASSUME levels[fin] # <<>> PROVE Last(levels[fin]).child = Last(emitted)
  <2>1. Lowest(fin)
    BY <1>1, <1>6, <1>7 DEF Lowest
  <2> QED
    BY <1>1, <1>3, <2>1 DEF BuildInv, Tip, AtNode
<1>8. ASSUME levels[fin] # <<>> PROVE Last(levels[fin]) \in Items(Stored)
  BY <1>4, <1>8, PathSplit
<1> QED
  BY <1>1, <1>2, <1>3, <1>4, <1>5, <1>6, <1>7, <1>8 DEF AtRun

LEMMA BuildInvEmpty ==
  ASSUME BuildInv, AtNode, FinishEmpty, UNCHANGED buildVars
  PROVE  BuildInv'
<1>1. /\ AtLevel /\ levels[fin] = <<>> /\ fin' = fin + 1
      /\ UNCHANGED <<isDir, leaf, levels, call, emitted, phase, node, input, spilled, keyOf>>
  BY DEF FinishEmpty, buildVars
<1>2. /\ scenario' = scenario /\ src' = src /\ Entries' = Entries /\ Built(src)' = Built(src)
      /\ Stored' = Stored
  BY <1>1, SameNodes DEF AtNode, Building, Stored
<1>3. AtRun(levels[fin]) /\ call = <<>>
  BY <1>1, AtRunFacts DEF AtLevel
<1>4. fin + 1 \in Nat /\ fin + 1 <= Len(levels) + 1
  BY <1>3 DEF AtRun
<1>5. Typed'
  BY <1>1, <1>2, <1>4 DEF BuildInv, Typed
<1>6. NodeTyped'
  <2>1. node # <<>> /\ node' = node
    BY <1>1 DEF AtNode
  <2> QED
    BY <1>1, <1>2, <2>1 DEF BuildInv, NodeTyped
<1>7. Settled'
  <2>1. \A j \in 1..Len(levels) : j < fin + 1 => j \in 1..(fin - 1) \/ j = fin
    BY <1>3 DEF AtRun
  <2> QED
    BY <1>1, <1>3, <1>4, <2>1 DEF Settled, AtRun
<1>8. Bounded' /\ Closed' /\ NoDegenerateNode'
  <2>1. Bounded'
    BY <1>1 DEF BuildInv, Bounded
  <2> QED
    BY <1>1, <2>1, SameEmitted
<1>9. Spilt'
  BY <1>1, <1>3 DEF BuildInv, Spilt, Stored, AtRun
<1>10. Tip'
  BY <1>1 DEF BuildInv, Tip, Lowest
<1> QED
  BY <1>5, <1>6, <1>7, <1>8, <1>9, <1>10 DEF BuildInv

LEMMA BuildInvSingle ==
  ASSUME BuildInv, AtNode, FinishSingle, UNCHANGED buildVars
  PROVE  BuildInv'
<1> DEFINE it == levels[fin][1]
<1>1. /\ AtLevel /\ Len(levels[fin]) = 1 /\ fin < Len(levels) /\ fin' = fin + 1
      /\ levels' = [levels EXCEPT ![fin] = <<>>] /\ call' = <<fin + 1, it>>
      /\ UNCHANGED <<isDir, leaf, emitted, phase, node, input, spilled, keyOf>>
  BY DEF FinishSingle, buildVars
<1>2. /\ scenario' = scenario /\ src' = src /\ Entries' = Entries /\ Built(src)' = Built(src)
      /\ Stored' = Stored
  BY <1>1, SameNodes DEF AtNode, Building, Stored
<1>3. AtRun(levels[fin])
  BY <1>1, AtRunFacts
<1>4. it = Last(levels[fin]) /\ levels[fin] # <<>>
  BY <1>1 DEF Last
<1>5. it \in Items(Stored) /\ it.child = Last(emitted)
  BY <1>3, <1>4 DEF AtRun
<1> HIDE DEF it
<1>6. /\ levels' \in Seq(Seq(Items(Stored))) /\ Len(levels') = Len(levels)
      /\ levels'[fin] = <<>>
      /\ \A j \in 1..Len(levels) : Len(levels'[j]) < MaxRun
      /\ \A j \in 1..Len(levels) : j < fin => levels'[j] = <<>>
  <2>1. <<>> \in Seq(Items(Stored)) /\ Len(<<>>) < MaxRun
    BY MaxRunFacts
  <2>2. levels \in Seq(Seq(Items(Stored))) /\ \A j \in 1..Len(levels) : Len(levels[j]) < MaxRun
    BY DEF BuildInv, Typed, Bounded
  <2>3. fin \in 1..Len(levels) /\ \A j \in 1..(fin - 1) : levels[j] = <<>>
    BY <1>3 DEF AtRun
  <2> QED
    BY <1>1, <2>1, <2>2, <2>3, LevelPut
<1>7. fin + 1 \in Nat \ {0} /\ fin + 1 <= Len(levels) + 1
  BY <1>3 DEF AtRun
<1>8. Typed'
  BY <1>1, <1>2, <1>5, <1>6, <1>7 DEF BuildInv, Typed
<1>9. NodeTyped'
  <2>1. node # <<>> /\ node' = node
    BY <1>1 DEF AtNode
  <2> QED
    BY <1>1, <1>2, <2>1 DEF BuildInv, NodeTyped
<1>10. Settled'
  <2>1. \A j \in 1..Len(levels) : j < fin + 1 => j < fin \/ j = fin
    BY <1>3 DEF AtRun
  <2>2. call'[1] = fin + 1 /\ leaf = <<>> /\ input = <<>>
    BY <1>1, <1>3 DEF AtRun
  <2> QED
    BY <1>1, <1>6, <1>7, <2>1, <2>2 DEF Settled
<1>11. Bounded' /\ Closed' /\ NoDegenerateNode'
  <2>1. Bounded'
    BY <1>1, <1>6 DEF BuildInv, Bounded
  <2> QED
    BY <1>1, <2>1, SameEmitted
<1>12. Spilt'
  BY <1>1, <1>3 DEF BuildInv, Spilt, Stored, AtRun
<1>13. Tip'
  <2>1. call' # <<>> /\ call'[2] = it
    BY <1>1
  <2> QED
    BY <1>1, <1>5, <2>1 DEF Tip
<1> QED
  BY <1>8, <1>9, <1>10, <1>11, <1>12, <1>13 DEF BuildInv

LEMMA BuildInvRun ==
  ASSUME BuildInv, AtNode, FinishRun, UNCHANGED buildVars
  PROVE  BuildInv'
<1> DEFINE run == levels[fin]
           nd == buildNode(run)
           o == nd.child
<1>1. /\ AtLevel /\ Len(run) > 1 /\ fin' = fin + 1
      /\ levels' = [levels EXCEPT ![fin] = <<>>] /\ call' = <<fin + 1, nd>> /\ emit(o)
      /\ UNCHANGED <<isDir, leaf, phase, node, input, spilled, keyOf>>
  BY DEF FinishRun, buildVars
<1>2. AtRun(run)
  BY <1>1, AtRunFacts
<1>3. run \in Seq(Items(Stored)) /\ Len(run) \in 2..MaxRun
  BY <1>1, <1>2, MaxRunFacts DEF AtRun
<1>4. /\ ChildKeys(o) \subseteq Stored /\ Sized(o) /\ nd.sep \in Nat
      /\ nd = [child |-> o, sep |-> nd.sep]
  <2> HIDE DEF run
  <2> QED
    BY <1>3, NodeFacts
<1>5. nd \in Items(Stored \cup {o})
  <2> HIDE DEF nd
  <2> QED
    BY <1>4, MakeItem
<1> HIDE DEF nd
<1>6. /\ levels' \in Seq(Seq(Items(Stored))) /\ Len(levels') = Len(levels)
      /\ levels'[fin] = <<>>
      /\ \A j \in 1..Len(levels) : Len(levels'[j]) < MaxRun
      /\ \A j \in 1..Len(levels) : j < fin => levels'[j] = <<>>
  <2>1. <<>> \in Seq(Items(Stored)) /\ Len(<<>>) < MaxRun
    BY MaxRunFacts
  <2>2. levels \in Seq(Seq(Items(Stored))) /\ \A j \in 1..Len(levels) : Len(levels[j]) < MaxRun
    BY DEF BuildInv, Typed, Bounded
  <2>3. fin \in 1..Len(levels) /\ \A j \in 1..(fin - 1) : levels[j] = <<>>
    BY <1>2 DEF AtRun
  <2> QED
    BY <1>1, <2>1, <2>2, <2>3, LevelPut
<1>7. fin + 1 \in Nat \ {0} /\ fin + 1 <= Len(levels') + 1
  BY <1>2, <1>6 DEF AtRun
<1>8. \A j \in 1..Len(levels') : j < fin + 1 => levels'[j] = <<>>
  <2>1. \A j \in 1..Len(levels) : j < fin + 1 => j < fin \/ j = fin
    BY <1>2 DEF AtRun
  <2> QED
    BY <1>6, <2>1
<1>9. /\ isDir => input \in Seq(Entries)
      /\ ~isDir => input \in Seq(Chunk \cup {NoChunk})
      /\ spilled \in BOOLEAN
  BY DEF BuildInv, NodeTyped, Typed
<1>10. ~spilled /\ leaf = <<>> /\ input = <<>>
  BY <1>2 DEF AtRun
<1>11. Rises(o, fin + 1, nd)
  <2> HIDE DEF run
  <2> QED
    BY <1>1, <1>4, <1>5, <1>6, <1>7, <1>8, <1>9, <1>10 DEF Rises
<1> QED
  BY <1>11, EmitItem

LEMMA BuildInvNode ==
  ASSUME BuildInv, NodeBuilt
  PROVE  BuildInv'
<1> DEFINE p == node[1]
<1>1. /\ AtNode /\ Finished /\ keyOf' = With(keyOf, p, Root) /\ node' = <<>>
      /\ phase' \in {"built", "build"}
      /\ isDir' = TRUE /\ leaf' = <<>> /\ levels' = <<>> /\ call' = <<>> /\ fin' = 0
      /\ UNCHANGED <<input, spilled, emitted>>
  BY DEF NodeBuilt, NewBuilder, AtNode, Building
<1>2. AtRun(levels[fin]) /\ Len(levels[fin]) = 1
  BY <1>1, AtRunFacts DEF Finished
<1>3. Root \in Stored
  <2>1. levels[fin][1] \in Items(Stored)
    BY <1>2 DEF AtRun
  <2> QED
    BY <2>1, ItemFacts DEF Root
<1>4. scenario' = scenario /\ src' = src /\ Built(src)' = Built(src) /\ Stored' = Stored
  BY <1>1 DEF AtNode, Building, src, Stored
<1>5. p \in Built(src)
  BY <1>1 DEF AtNode, BuildInv, NodeTyped
<1>6. /\ DOMAIN keyOf' = DOMAIN keyOf \cup {p}
      /\ \A q \in DOMAIN keyOf' : keyOf'[q] = IF q = p THEN Root ELSE keyOf[q]
  <2>1. keyOf' = With(keyOf, p, Root)
    BY <1>1
  <2> HIDE DEF p
  <2> QED
    BY <2>1 DEF With
<1>7. <<>> \in Seq(Entries') /\ Len(<<>>) = 0 /\ ToSet(<<>>) = {} /\ <<>> \in Seq(Seq(Items(Stored)))
  BY DEF ToSet
<1>8. input = <<>> /\ ~spilled
  BY <1>2 DEF AtRun
<1>9. Typed'
  BY <1>1, <1>4, <1>7 DEF BuildInv, Typed
<1>10. NodeTyped'
  <2>1. DOMAIN keyOf' \subseteq Built(src) /\ \A q \in DOMAIN keyOf' : keyOf'[q] \in Stored
    BY <1>3, <1>5, <1>6 DEF BuildInv, NodeTyped
  <2> QED
    BY <1>1, <1>4, <1>7, <1>8, <2>1 DEF NodeTyped
<1>11. Bounded' /\ Settled' /\ Spilt'
  BY <1>1, <1>7, <1>8, MaxRunFacts DEF Bounded, Settled, Spilt
<1>12. Closed' /\ NoDegenerateNode' /\ Tip'
  BY <1>1 DEF Closed, NoDegenerateNode, Tip, BuildInv
<1> QED
  BY <1>9, <1>10, <1>11, <1>12 DEF BuildInv

LEMMA BuildInvForget ==
  ASSUME BuildInv, StartRestore
  PROVE  BuildInv'
<1>1. /\ phase' = "restore" /\ emitted' = <<>> /\ keyOf' = <<>> /\ scenario' = scenario
      /\ phase = "built"
      /\ UNCHANGED <<node, input, spilled, isDir, leaf, levels, call, fin>>
  BY DEF StartRestore
<1>2. node = <<>>
  BY <1>1 DEF BuildInv, NodeTyped
<1>3. leaf = <<>> /\ levels = <<>> /\ call = <<>> /\ fin = 0 /\ input = <<>> /\ ~spilled
  BY <1>2 DEF BuildInv, NodeTyped
<1>4. Stored' = {} /\ DOMAIN keyOf' = {} /\ src' = src /\ Built(src)' = Built(src)
  BY <1>1 DEF Stored, ToSet, src
<1>5. /\ <<>> \in Seq(Entries') /\ Len(<<>>) = 0 /\ ToSet(<<>>) = {} /\ <<>> \in Seq(Seq(Items(Stored')))
      /\ <<>> \in Seq(Stored') /\ <<>> \in Seq(Chunk \cup {NoChunk})
  BY DEF ToSet
<1>6. Typed'
  BY <1>1, <1>3, <1>5 DEF BuildInv, Typed
<1>7. NodeTyped'
  BY <1>1, <1>2, <1>3, <1>4, <1>5 DEF NodeTyped
<1>8. Bounded' /\ Settled' /\ Spilt'
  BY <1>1, <1>3, <1>5, MaxRunFacts DEF Bounded, Settled, Spilt
<1>9. Closed' /\ NoDegenerateNode' /\ Tip'
  <2>1. \A i \in 1..Len(emitted') : FALSE
    BY <1>1, <1>5
  <2> QED
    BY <1>1, <1>2, <1>5, <2>1 DEF Closed, NoDegenerateNode, Tip
<1> QED
  BY <1>6, <1>7, <1>8, <1>9 DEF BuildInv

\* What the restore leaves alone.
LEMMA BuildInvSame ==
  ASSUME BuildInv, UNCHANGED <<scenario, buildVars, treeVars>>
  PROVE  BuildInv'
<1>1. UNCHANGED <<scenario, phase, node, input, spilled, keyOf, isDir, leaf, levels, call, fin, emitted>>
  BY DEF buildVars, treeVars
<1>2. /\ src' = src /\ Entries' = Entries /\ Built(src)' = Built(src) /\ Stored' = Stored
  BY <1>1, SameNodes DEF Stored
<1>3. Typed'
  BY <1>1, <1>2 DEF BuildInv, Typed
<1>4. NodeTyped'
  BY <1>1, <1>2 DEF BuildInv, NodeTyped
<1>5. Bounded' /\ Settled' /\ Spilt'
  BY <1>1, <1>2 DEF BuildInv, Bounded, Settled, Spilt
<1>6. Closed' /\ NoDegenerateNode' /\ Tip'
  BY <1>1 DEF BuildInv, Closed, NoDegenerateNode, Tip, Lowest
<1> QED
  BY <1>3, <1>4, <1>5, <1>6 DEF BuildInv

LEMMA BuildInvInit ==
  ASSUME Init
  PROVE  BuildInv
<1>1. /\ scenario \in Scenarios /\ phase = "build" /\ node = <<>> /\ input = <<>> /\ spilled = FALSE
      /\ keyOf = <<>> /\ isDir = TRUE /\ leaf = <<>> /\ levels = <<>> /\ call = <<>> /\ fin = 0
      /\ emitted = <<>>
  BY DEF Init
<1>2. Stored = {} /\ DOMAIN keyOf = {}
  BY <1>1 DEF Stored, ToSet
<1>3. /\ <<>> \in Seq(Entries) /\ Len(<<>>) = 0 /\ ToSet(<<>>) = {} /\ <<>> \in Seq(Seq(Items(Stored)))
      /\ <<>> \in Seq(Stored)
  BY DEF ToSet
<1>4. Typed
  BY <1>1, <1>3 DEF Typed
<1>5. NodeTyped
  BY <1>1, <1>2, <1>3 DEF NodeTyped
<1>6. Bounded /\ Settled /\ Spilt
  BY <1>1, <1>3, MaxRunFacts DEF Bounded, Settled, Spilt
<1>7. Closed /\ NoDegenerateNode /\ Tip
  <2>1. \A i \in 1..Len(emitted) : FALSE
    BY <1>1, <1>3
  <2> QED
    BY <1>1, <1>3, <2>1 DEF Closed, NoDegenerateNode, Tip
<1> QED
  BY <1>4, <1>5, <1>6, <1>7 DEF BuildInv

LEMMA BuildInvStep ==
  ASSUME BuildInv, [Next]_vars
  PROVE  BuildInv'
<1>1. ASSUME NEW p \in Built(src), StartNode(p) PROVE BuildInv'
  BY <1>1, BuildInvStart
<1>2. CASE SpillXattrs
  BY <1>2, BuildInvSpill
<1>3. CASE Feed
  BY <1>3, BuildInvFeed
<1>4. CASE FinishNode
  BY <1>4, BuildInvFinish
<1>5. CASE BuildStep
  BY <1>5, BuildInvAdd, BuildInvEmpty, BuildInvSingle, BuildInvRun DEF BuildStep, BuilderStep
<1>6. CASE NodeBuilt
  BY <1>6, BuildInvNode
<1>7. CASE StartRestore
  BY <1>7, BuildInvForget
<1>8. CASE UNCHANGED <<scenario, buildVars, treeVars>>
  BY <1>8, BuildInvSame
<1>9. CASE UNCHANGED vars
  BY <1>9, BuildInvSame DEF vars
<1> QED
  BY <1>1, <1>2, <1>3, <1>4, <1>5, <1>6, <1>7, <1>8, <1>9 DEF Next, Build, Restore, Done

\* The inductive invariant of the build: the builders' runs, levels and pending
\* calls, the objects emitted and the roots of the nodes stay consistent, for every
\* source tree and every cut point.
THEOREM BuildInvariance == Spec => []BuildInv
<1>1. Init => BuildInv
  BY BuildInvInit
<1>2. BuildInv /\ [Next]_vars => BuildInv'
  BY BuildInvStep
<1> QED
  BY <1>1, <1>2, PTL DEF Spec

\* Objects are emitted children before parents, and the root of a node last: a store
\* that loses its tail holds no object with a missing child.
THEOREM EmittedAlwaysClosed == Spec => []EmittedClosed
<1>1. BuildInv => EmittedClosed
  <2> SUFFICES ASSUME BuildInv PROVE EmittedClosed
    OBVIOUS
  <2>1. DOMAIN emitted = 1..Len(emitted)
    BY DEF BuildInv, Typed
  <2>2. ASSUME phase = "build", Finished PROVE Root = Last(emitted)
    <3>1. AtLevel /\ levels # <<>>
      BY <2>2 DEF Finished, AtLevel
    <3>2. node # <<>>
      BY <3>1 DEF BuildInv, NodeTyped
    <3>3. fin \in 1..Len(levels) /\ fin > 0 /\ call = <<>>
      BY <3>1 DEF AtLevel, BuildInv, Typed
    <3>4. leaf = <<>> /\ ~spilled
      BY <3>3 DEF BuildInv, Settled, Spilt
    <3>5. Lowest(fin)
      <4>1. levels[fin] # <<>>
        BY <2>2 DEF Finished
      <4>2. \A j \in 1..(fin - 1) : j \in 1..Len(levels) /\ j < fin
        BY <3>3
      <4> QED
        BY <3>3, <4>1, <4>2 DEF Lowest, BuildInv, Settled
    <3>6. Last(levels[fin]).child = Last(emitted)
      BY <3>2, <3>3, <3>4, <3>5 DEF BuildInv, Tip
    <3> QED
      BY <2>2, <3>6 DEF Finished, Root, Last
  <2> QED
    BY <2>1, <2>2 DEF EmittedClosed, BuildInv, Closed
<1> QED
  BY <1>1, BuildInvariance, PTL

\* Every index node has between two and MaxRun children and no leaf exceeds MaxRun,
\* as IndexBuilder.Finish promises, wherever the hashes put the cut points.
THEOREM NeverDegenerate == Spec => []NoDegenerateNode
<1>1. BuildInv => NoDegenerateNode
  BY DEF BuildInv
<1> QED
  BY <1>1, BuildInvariance, PTL

----------------------------------------------------------------------------
(* What objects stand for.  f maps keys to the chunks or the entries below  *)
(* them; it cannot be defined by recursion over objects here, so the        *)
(* invariant says that one exists and each new object extends it.           *)

IsFileKey(k) == k.type \in {"Blob", "FileNode"}

IsDirKey(k) == k.type \in {"DirLeaf", "DirNode"}

FileKeys(f) == {k \in DOMAIN f : IsFileKey(k)}

DirKeys(f) == {k \in DOMAIN f : IsDirKey(k)}

\* What an object stands for, by what its children stand for.
Value(f, k) ==
  CASE k.type = "Blob" -> IF k.length = 0 THEN <<>> ELSE <<k.body>>
    [] k.type = "FileNode" -> Flat(f, k.body)
    [] k.type = "DirLeaf" -> k.body
    [] k.type = "DirNode" -> Flat(f, Kids(k.body))

WellFormed(f, k) ==
  /\ IsFileKey(k) \/ IsDirKey(k)
  /\ k.type = "FileNode" => k.body \in Seq(FileKeys(f))
  /\ k.type = "DirNode" => Kids(k.body) \in Seq(DirKeys(f))
  /\ IsFileKey(k) => k.length = Len(Value(f, k)) /\ k.length \in Nat

Denotes(V, f) ==
  /\ f \in [DOMAIN f -> Seq(V)]
  /\ \A k \in DOMAIN f : WellFormed(f, k) /\ f[k] = Value(f, k)

\* g is f and also says what o stands for.
Extends(V, f, W, g, o) ==
  /\ f \in [DOMAIN f -> Seq(V)] /\ g \in [DOMAIN g -> Seq(W)] /\ V \subseteq W
  /\ DOMAIN g = DOMAIN f \cup {o}
  /\ \A k \in DOMAIN f : g[k] = f[k]

LEMMA ListsMono ==
  ASSUME NEW V, NEW W, V \subseteq W, NEW f, NEW ks, Lists(V, f, ks)
  PROVE  Lists(W, f, ks)
<1>1. Seq(V) \subseteq Seq(W)
  BY SeqMonotonic
<1>2. f \in [DOMAIN f -> Seq(W)]
  BY <1>1 DEF Lists
<1> QED
  BY <1>2 DEF Lists

LEMMA KeysFacts ==
  ASSUME NEW f, NEW g, DOMAIN f \subseteq DOMAIN g
  PROVE  /\ FileKeys(f) \subseteq DOMAIN f /\ DirKeys(f) \subseteq DOMAIN f
         /\ FileKeys(f) \subseteq FileKeys(g) /\ DirKeys(f) \subseteq DirKeys(g)
BY DEF FileKeys, DirKeys

LEMMA FlatExtended ==
  ASSUME NEW V, NEW f, NEW W, NEW g, NEW o, Extends(V, f, W, g, o), NEW ks \in Seq(DOMAIN f)
  PROVE  Flat(g, ks) = Flat(f, ks) /\ Lists(V, f, ks) /\ Lists(W, g, ks) /\ Lists(W, f, ks)
<1>1. Lists(V, f, ks)
  BY DEF Extends, Lists
<1>2. Lists(W, f, ks)
  BY <1>1, ListsMono DEF Extends
<1>3. ks \in Seq(DOMAIN g)
  <2>1. DOMAIN f \subseteq DOMAIN g
    BY DEF Extends
  <2> QED
    BY <2>1, SeqMonotonic
<1>4. Lists(W, g, ks)
  BY <1>3 DEF Extends, Lists
<1>5. Agree(g, ks, f, ks, Len(ks))
  BY DEF Agree, Extends
<1>6. Flat(g, ks) = Flat(f, ks)
  BY <1>2, <1>4, <1>5, FlatSame
<1> QED
  BY <1>1, <1>2, <1>4, <1>6

LEMMA ValueExtended ==
  ASSUME NEW V, NEW f, NEW W, NEW g, NEW o, Extends(V, f, W, g, o), NEW k, WellFormed(f, k)
  PROVE  Value(g, k) = Value(f, k) /\ WellFormed(g, k)
<1>1. DOMAIN f \subseteq DOMAIN g
  BY DEF Extends
<1>2. /\ FileKeys(f) \subseteq DOMAIN f /\ DirKeys(f) \subseteq DOMAIN f
      /\ FileKeys(f) \subseteq FileKeys(g) /\ DirKeys(f) \subseteq DirKeys(g)
  BY <1>1, KeysFacts
<1>3. CASE k.type = "FileNode"
  <2>1. k.body \in Seq(FileKeys(f))
    BY <1>3 DEF WellFormed
  <2>2. k.body \in Seq(DOMAIN f) /\ k.body \in Seq(FileKeys(g))
    BY <1>2, <2>1, SeqMonotonic
  <2>3. Flat(g, k.body) = Flat(f, k.body)
    BY <2>2, FlatExtended
  <2>4. Value(g, k) = Value(f, k)
    BY <1>3, <2>3 DEF Value
  <2> QED
    BY <1>3, <2>2, <2>4 DEF WellFormed
<1>4. CASE k.type = "DirNode"
  <2>1. Kids(k.body) \in Seq(DirKeys(f))
    BY <1>4 DEF WellFormed
  <2>2. Kids(k.body) \in Seq(DOMAIN f) /\ Kids(k.body) \in Seq(DirKeys(g))
    BY <1>2, <2>1, SeqMonotonic
  <2>3. Flat(g, Kids(k.body)) = Flat(f, Kids(k.body))
    BY <2>2, FlatExtended
  <2>4. Value(g, k) = Value(f, k)
    BY <1>4, <2>3 DEF Value
  <2> QED
    BY <1>4, <2>2, <2>4 DEF WellFormed, IsFileKey, IsDirKey
<1>5. CASE k.type \in {"Blob", "DirLeaf"}
  <2>1. Value(g, k) = Value(f, k)
    BY <1>5 DEF Value
  <2> QED
    BY <1>5, <2>1 DEF WellFormed
<1> QED
  BY <1>3, <1>4, <1>5 DEF WellFormed, IsFileKey, IsDirKey

\* An object whose children are known extends what is known.
LEMMA DenoteMore ==
  ASSUME NEW V, NEW f, Denotes(V, f), NEW W, V \subseteq W,
         NEW o, WellFormed(f, o), Value(f, o) \in Seq(W)
  PROVE  \E g : Denotes(W, g) /\ Extends(V, f, W, g, o) /\ g[o] = Value(f, o)
<1>0. Seq(V) \subseteq Seq(W)
  BY SeqMonotonic
<1>1. CASE o \in DOMAIN f
  <2>1. f \in [DOMAIN f -> Seq(V)] /\ f \in [DOMAIN f -> Seq(W)]
    BY <1>0 DEF Denotes
  <2>2. Denotes(W, f) /\ f[o] = Value(f, o)
    BY <1>1, <2>1 DEF Denotes
  <2>3. DOMAIN f = DOMAIN f \cup {o}
    BY <1>1
  <2>4. Extends(V, f, W, f, o)
    BY <2>1, <2>3 DEF Extends
  <2> QED
    BY <2>2, <2>4
<1>2. CASE o \notin DOMAIN f
  <2> DEFINE g == With(f, o, Value(f, o))
  <2>1. /\ DOMAIN g = DOMAIN f \cup {o} /\ g[o] = Value(f, o)
        /\ \A k \in DOMAIN f : g[k] = f[k]
        /\ g = [k \in DOMAIN f \cup {o} |-> g[k]]
    BY <1>2 DEF With
  <2> HIDE DEF g
  <2>2. f \in [DOMAIN f -> Seq(V)]
    BY DEF Denotes
  <2>3. \A k \in DOMAIN g : g[k] \in Seq(W)
    BY <1>0, <2>1, <2>2
  <2>4. g \in [DOMAIN g -> Seq(W)]
    BY <2>1, <2>3
  <2>5. Extends(V, f, W, g, o)
    BY <2>1, <2>2, <2>4 DEF Extends
  <2>6. ASSUME NEW k \in DOMAIN g PROVE WellFormed(g, k) /\ g[k] = Value(g, k)
    <3>1. CASE k = o
      BY <2>1, <2>5, <3>1, ValueExtended
    <3>2. CASE k \in DOMAIN f
      <4>1. WellFormed(f, k) /\ f[k] = Value(f, k)
        BY <3>2 DEF Denotes
      <4>2. Value(g, k) = Value(f, k) /\ WellFormed(g, k)
        BY <2>5, <4>1, ValueExtended
      <4> QED
        BY <2>1, <3>2, <4>1, <4>2
    <3> QED
      BY <2>1, <3>1, <3>2
  <2>7. Denotes(W, g)
    BY <2>4, <2>6 DEF Denotes
  <2> QED
    BY <2>1, <2>5, <2>7
<1> QED
  BY <1>1, <1>2

\* Holding one object for several, or for what a builder took in.
Replaces(V, f, W, g, o, up, ks, in, out) ==
  /\ Extends(V, f, W, g, o) /\ up \in Seq(DOMAIN f) /\ ks \in Seq(DOMAIN f)
  /\ in \in Seq(W) /\ out \in Seq(W)
  /\ Join(Flat(f, ks), in) = Join(g[o], out)

LEMMA SameContent ==
  ASSUME NEW V, NEW f, NEW W, NEW g, NEW o, NEW up, NEW ks, NEW in, NEW out,
         Replaces(V, f, W, g, o, up, ks, in, out)
  PROVE  Join(Flat(g, Join(up, <<o>>)), out) = Join(Flat(f, Join(up, ks)), in)
<1>1. /\ Flat(g, up) = Flat(f, up) /\ Lists(V, f, up) /\ Lists(W, g, up) /\ Lists(W, f, up)
      /\ Lists(W, f, ks)
  BY FlatExtended DEF Replaces
<1>2. o \in DOMAIN g /\ g \in [DOMAIN g -> Seq(W)] /\ in \in Seq(W) /\ out \in Seq(W)
  BY DEF Replaces, Extends
<1>3. <<o>> \in Seq(DOMAIN g) /\ g[o] \in Seq(W)
  BY <1>2
<1>4. Lists(W, g, <<o>>)
  BY <1>2, <1>3 DEF Lists
<1>5. Flat(g, Join(up, <<o>>)) = Join(Flat(f, up), g[o])
  BY <1>1, <1>4, FlatConcat, FlatOne
<1>6. Flat(f, Join(up, ks)) = Join(Flat(f, up), Flat(f, ks))
  BY <1>1, FlatConcat
<1>7. Flat(f, up) \in Seq(W) /\ Flat(f, ks) \in Seq(W)
  BY <1>1, CatFacts
<1>8. Join(Join(Flat(f, up), g[o]), out) = Join(Flat(f, up), Join(g[o], out))
  BY <1>2, <1>3, <1>7, JoinAssoc
<1>9. Join(Join(Flat(f, up), Flat(f, ks)), in) = Join(Flat(f, up), Join(Flat(f, ks), in))
  BY <1>2, <1>7, JoinAssoc
<1> QED
  BY <1>5, <1>6, <1>8, <1>9 DEF Replaces

HeldKeys(f) == IF isDir THEN DirKeys(f) ELSE FileKeys(f)

\* The object that a run is closed into stands for what its items stand for.
LEMMA RunValue ==
  ASSUME NEW V, NEW f, Denotes(V, f), NEW run \in Seq(Items(HeldKeys(f))), isDir \in BOOLEAN
  PROVE  /\ WellFormed(f, buildNode(run).child)
         /\ Value(f, buildNode(run).child) = Flat(f, Kids(run))
         /\ Flat(f, Kids(run)) \in Seq(V) /\ Kids(run) \in Seq(DOMAIN f)
         /\ isDir => IsDirKey(buildNode(run).child)
         /\ ~isDir => IsFileKey(buildNode(run).child)
<1>0. f \in [DOMAIN f -> Seq(V)] /\ HeldKeys(f) \subseteq DOMAIN f
  BY DEF Denotes, HeldKeys, DirKeys, FileKeys
<1>1. /\ Kids(run) \in Seq(HeldKeys(f)) /\ Len(Kids(run)) = Len(run)
      /\ \A i \in 1..Len(run) : Kids(run)[i] = run[i].child
  BY KidsType
<1>2. Kids(run) \in Seq(DOMAIN f)
  BY <1>0, <1>1, SeqMonotonic
<1>3. Lists(V, f, Kids(run))
  BY <1>0, <1>2 DEF Lists
<1>4. Flat(f, Kids(run)) \in Seq(V)
  BY <1>3, CatFacts
<1>5. CASE isDir
  <2> DEFINE k == EncodeDirNode(run)
  <2>1. buildNode(run).child = k /\ k.type = "DirNode" /\ k.body = run
    BY <1>5 DEF buildNode, EncodeDirNode
  <2> HIDE DEF k
  <2>2. Value(f, k) = Flat(f, Kids(run)) /\ IsDirKey(k) /\ ~IsFileKey(k)
    BY <2>1 DEF Value, IsDirKey, IsFileKey
  <2>3. WellFormed(f, k)
    BY <1>1, <1>5, <2>1, <2>2 DEF WellFormed, HeldKeys
  <2> QED
    BY <1>2, <1>4, <1>5, <2>1, <2>2, <2>3
<1>6. CASE ~isDir
  <2> DEFINE k == EncodeFileNode(run)
  <2>1. /\ buildNode(run).child = k /\ k.type = "FileNode" /\ k.body = Kids(run)
        /\ k.length = TotalLength(run)
    BY <1>6 DEF buildNode, EncodeFileNode, Kids
  <2>2. Measured(f, run)
    <3> SUFFICES ASSUME NEW i \in 1..Len(run)
                 PROVE  run[i].child.length = Len(f[run[i].child])
      BY DEF Measured
    <3>1. run[i].child \in FileKeys(f)
      <4>1. run[i] \in Items(FileKeys(f))
        BY <1>6 DEF HeldKeys
      <4> QED
        BY <4>1, ItemFacts
    <3> QED
      BY <3>1 DEF Denotes, WellFormed, FileKeys
  <2>3. TotalLength(run) = Len(Flat(f, Kids(run))) /\ TotalLength(run) \in Nat
    BY <1>3, <2>2, TotalIsLength
  <2> HIDE DEF k
  <2>4. Value(f, k) = Flat(f, Kids(run)) /\ IsFileKey(k)
    BY <2>1 DEF Value, IsFileKey
  <2>5. WellFormed(f, k)
    BY <1>1, <1>6, <2>1, <2>3, <2>4 DEF WellFormed, HeldKeys
  <2> QED
    BY <1>2, <1>4, <1>6, <2>1, <2>4, <2>5
<1> QED
  BY <1>5, <1>6

LEMMA LeafValue ==
  ASSUME NEW f, NEW es
  PROVE  /\ WellFormed(f, EncodeDirLeaf(es)) /\ Value(f, EncodeDirLeaf(es)) = es
         /\ IsDirKey(EncodeDirLeaf(es))
<1> DEFINE k == EncodeDirLeaf(es)
<1>1. k.type = "DirLeaf" /\ k.body = es
  BY DEF EncodeDirLeaf
<1> HIDE DEF k
<1>2. Value(f, k) = es /\ IsDirKey(k) /\ WellFormed(f, k)
  BY <1>1 DEF Value, IsDirKey, IsFileKey, WellFormed
<1> QED
  BY <1>2 DEF k

LEMMA BlobValue ==
  ASSUME NEW f, NEW c
  PROVE  /\ WellFormed(f, EncodeBlob(c))
         /\ Value(f, EncodeBlob(c)) = IF c = NoChunk THEN <<>> ELSE <<c>>
         /\ IsFileKey(EncodeBlob(c))
<1> DEFINE k == EncodeBlob(c)
<1>1. k.type = "Blob" /\ k.body = c /\ k.length = IF c = NoChunk THEN 0 ELSE 1
  BY DEF EncodeBlob
<1> HIDE DEF k
<1>2. Value(f, k) = (IF c = NoChunk THEN <<>> ELSE <<c>>) /\ IsFileKey(k)
  BY <1>1 DEF Value, IsFileKey
<1>3. k.length = Len(Value(f, k)) /\ k.length \in Nat
  BY <1>1, <1>2
<1>4. WellFormed(f, k)
  BY <1>1, <1>2, <1>3 DEF WellFormed
<1> QED
  BY <1>2, <1>4 DEF k

\* What a node stands for: the entries of a directory, the data of a file.
Content(s, keys, p) == IF IsDirectory(s, p) THEN Input(s, keys, p) ELSE s[p].data

\* It depends on the keys of its own children alone.
LEMMA ContentSame ==
  ASSUME NEW s, IsTree(s), NEW p \in Seq(Name), NEW keys, NEW more,
         \A q \in Children(s, p) \cap Built(s) : more[q] = keys[q]
  PROVE  Content(s, more, p) = Content(s, keys, p)
<1>1. CASE IsDirectory(s, p)
  <2> DEFINE r == ReadDir(s, p)
  <2>1. r \in Seq(Children(s, p))
    BY ReadDirFacts DEF Listing
  <2> HIDE DEF r
  <2>2. \A i \in DOMAIN r : r[i] \in Children(s, p)
    BY <2>1
  <2>3. \A i \in DOMAIN r : Entry(s, more, r[i]) = Entry(s, keys, r[i])
    <3> SUFFICES ASSUME NEW i \in DOMAIN r PROVE Entry(s, more, r[i]) = Entry(s, keys, r[i])
      OBVIOUS
    <3>1. r[i] \in DOMAIN s
      BY <2>2 DEF Children
    <3>2. HasContent(s[r[i]]) => more[r[i]] = keys[r[i]]
      BY <2>2, <3>1 DEF Built
    <3> QED
      BY <3>2 DEF Entry
  <2>4. [i \in DOMAIN r |-> Entry(s, more, r[i])] = [i \in DOMAIN r |-> Entry(s, keys, r[i])]
    <3> DEFINE a(i) == Entry(s, more, r[i])
               b(i) == Entry(s, keys, r[i])
    <3>1. \A i \in DOMAIN r : a(i) = b(i)
      BY <2>3
    <3> HIDE DEF a, b
    <3>2. [i \in DOMAIN r |-> a(i)] = [i \in DOMAIN r |-> b(i)]
      BY <3>1
    <3> QED
      BY <3>2 DEF a, b
  <2> QED
    BY <1>1, <2>4 DEF Content, Input, r
<1>2. CASE ~IsDirectory(s, p)
  BY <1>2 DEF Content
<1> QED
  BY <1>1, <1>2


----------------------------------------------------------------------------
(* The second invariant of the build: every key stands for the content of   *)
(* its node, and what the builder holds and still gets stands for that of   *)
(* the node it is at.                                                       *)

NodeKeys(f, p) == IF IsDirectory(src, p) THEN DirKeys(f) ELSE FileKeys(f)

Knows(V, f, keys) ==
  /\ Denotes(V, f) /\ Chunk \subseteq V
  /\ \A q \in DOMAIN keys :
       /\ keys[q] \in NodeKeys(f, q) /\ f[keys[q]] = Content(src, keys, q)
       /\ Children(src, q) \cap Built(src) \subseteq DOMAIN keys

\* The keys held, those of higher levels first.
Held == Join(AllKids(levels), IF call = <<>> THEN <<>> ELSE <<call[2].child>>)

Pending == IF isDir THEN Join(leaf, input) ELSE IF input = <<NoChunk>> THEN <<>> ELSE input

HoldsTyped(V, f) ==
  /\ levels \in Seq(Seq(Items(HeldKeys(f))))
  /\ call # <<>> => call[2] \in Items(HeldKeys(f))
  /\ leaf \in Seq(V)
  /\ isDir => input \in Seq(V)
  /\ ~isDir => input \in Seq(Chunk) \/ input = <<NoChunk>>

Holds(V, f) ==
  HoldsTyped(V, f) /\ Join(Flat(f, Held), Pending) = Content(src, keyOf, node[1])

Meaning(V, f) == Knows(V, f, keyOf) /\ (node # <<>> => Holds(V, f))

MeaningInv ==
  phase \in {"build", "built"} =>
    /\ \E V, f : Meaning(V, f)
    /\ phase = "built" => <<>> \in DOMAIN keyOf

LEMMA PendingType ==
  ASSUME NEW V, NEW f, Chunk \subseteq V, HoldsTyped(V, f)
  PROVE  Pending \in Seq(V)
<1>1. CASE isDir
  BY <1>1, JoinType DEF HoldsTyped, Pending
<1>2. CASE ~isDir
  <2>1. Seq(Chunk) \subseteq Seq(V)
    BY SeqMonotonic
  <2> QED
    BY <1>2, <2>1 DEF HoldsTyped, Pending
<1> QED
  BY <1>1, <1>2

LEMMA HeldType ==
  ASSUME NEW V, NEW f, HoldsTyped(V, f)
  PROVE  /\ AllKids(levels) \in Seq(HeldKeys(f)) /\ Held \in Seq(HeldKeys(f))
         /\ HeldKeys(f) \subseteq DOMAIN f /\ Seq(HeldKeys(f)) \subseteq Seq(DOMAIN f)
         /\ call = <<>> => Held = AllKids(levels)
         /\ call # <<>> => Held = Join(AllKids(levels), <<call[2].child>>)
<1>1. HeldKeys(f) \subseteq DOMAIN f
  BY DEF HeldKeys, DirKeys, FileKeys
<1>2. AllKids(levels) \in Seq(HeldKeys(f))
  BY AllKidsGrow DEF HoldsTyped
<1>3. CASE call = <<>>
  <2>1. Held = AllKids(levels)
    BY <1>2, <1>3, JoinNil DEF Held
  <2> QED
    BY <1>1, <1>2, <1>3, <2>1, SeqMonotonic
<1>4. CASE call # <<>>
  <2>1. Held = Join(AllKids(levels), <<call[2].child>>)
    BY <1>4 DEF Held
  <2>2. call[2].child \in HeldKeys(f)
    BY <1>4, ItemFacts DEF HoldsTyped
  <2>3. <<call[2].child>> \in Seq(HeldKeys(f))
    BY <2>2
  <2>4. Held \in Seq(HeldKeys(f))
    BY <1>2, <2>1, <2>3, JoinType
  <2> QED
    BY <1>1, <1>2, <1>4, <2>1, <2>4, SeqMonotonic
<1> QED
  BY <1>3, <1>4

\* A new object leaves what is known.
LEMMA KnowsMore ==
  ASSUME NEW V, NEW f, NEW keys, Knows(V, f, keys), NEW g, NEW o,
         Denotes(V, g), Extends(V, f, V, g, o), scenario' = scenario
  PROVE  Knows(V, g, keys)'
<1>1. src' = src
  BY DEF src
<1>2. DOMAIN f \subseteq DOMAIN g
  BY DEF Extends
<1>3. /\ FileKeys(f) \subseteq DOMAIN f /\ DirKeys(f) \subseteq DOMAIN f
      /\ FileKeys(f) \subseteq FileKeys(g) /\ DirKeys(f) \subseteq DirKeys(g)
  BY <1>2, KeysFacts
<1>4. ASSUME NEW q \in DOMAIN keys
      PROVE  /\ keys[q] \in NodeKeys(g, q) /\ g[keys[q]] = Content(src, keys, q)
             /\ Children(src, q) \cap Built(src) \subseteq DOMAIN keys
  <2>1. /\ keys[q] \in NodeKeys(f, q) /\ f[keys[q]] = Content(src, keys, q)
        /\ Children(src, q) \cap Built(src) \subseteq DOMAIN keys
    BY DEF Knows
  <2>2. keys[q] \in DOMAIN f /\ keys[q] \in NodeKeys(g, q)
    BY <1>3, <2>1 DEF NodeKeys
  <2>3. g[keys[q]] = f[keys[q]]
    BY <2>2 DEF Extends
  <2> QED
    BY <2>1, <2>2, <2>3
<1>5. Knows(V, g, keys)
  BY <1>4 DEF Knows
<1> QED
  BY <1>1, <1>5 DEF Knows, NodeKeys

\* Steps that change what is held and no node.
Within == UNCHANGED <<scenario, node, keyOf, isDir>> /\ node # <<>>

LEMMA HoldSame ==
  ASSUME NEW V, NEW f, Meaning(V, f), Within, HoldsTyped(V, f)', Held' = Held, Pending' = Pending
  PROVE  Meaning(V, f)'
<1>1. src' = src /\ node' = node /\ keyOf' = keyOf /\ node # <<>>
  BY DEF Within, src
<1>2. Knows(V, f, keyOf)'
  BY <1>1 DEF Meaning, Knows, NodeKeys
<1>3. Holds(V, f)'
  BY <1>1 DEF Meaning, Holds
<1> QED
  BY <1>1, <1>2, <1>3 DEF Meaning

\* Steps that hold a new object o for the keys ks and a part of what is pending.
Closes(V, f, o, up, ks) ==
  /\ WellFormed(f, o) /\ Value(f, o) \in Seq(V)
  /\ up \in Seq(DOMAIN f) /\ ks \in Seq(DOMAIN f)
  /\ Held = Join(up, ks) /\ Held' = Join(up, <<o>>)
  /\ Pending' \in Seq(V) /\ Join(Flat(f, ks), Pending) = Join(Value(f, o), Pending')

LEMMA HoldObject ==
  ASSUME NEW V, NEW f, Meaning(V, f), Within, NEW o, NEW up, NEW ks, Closes(V, f, o, up, ks),
         \A g : Extends(V, f, V, g, o) => HoldsTyped(V, g)'
  PROVE  \E g : Meaning(V, g)'
<1>1. src' = src /\ node' = node /\ keyOf' = keyOf /\ node # <<>> /\ scenario' = scenario
  BY DEF Within, src
<1>2. Knows(V, f, keyOf) /\ Holds(V, f) /\ Denotes(V, f) /\ Chunk \subseteq V
  BY <1>1 DEF Meaning, Knows
<1>3. PICK g : Denotes(V, g) /\ Extends(V, f, V, g, o) /\ g[o] = Value(f, o)
  BY <1>2, DenoteMore DEF Closes
<1>4. Pending \in Seq(V)
  BY <1>2, PendingType DEF Holds
<1>5. Replaces(V, f, V, g, o, up, ks, Pending, Pending')
  BY <1>3, <1>4 DEF Replaces, Closes
<1>6. Join(Flat(g, Held'), Pending') = Join(Flat(f, Held), Pending)
  BY <1>5, SameContent DEF Closes
<1>7. Holds(V, g)'
  BY <1>1, <1>2, <1>3, <1>6 DEF Holds
<1>8. Knows(V, g, keyOf)'
  <2> DEFINE k == keyOf
  <2>1. ASSUME NEW keys, Knows(V, f, keys) PROVE Knows(V, g, keys)'
    BY <1>1, <1>3, <2>1, KnowsMore
  <2> QED
    BY <1>1, <1>2, <2>1 DEF Knows
<1> QED
  BY <1>7, <1>8 DEF Meaning

\* The object of a leaf or a chunk, at the first level.
Takes(V, f, o, n) ==
  /\ call = <<>> /\ levels' = levels /\ call' = <<1, [sep |-> n, child |-> o]>> /\ n \in Nat
  /\ WellFormed(f, o) /\ Value(f, o) \in Seq(V)
  /\ isDir => IsDirKey(o)
  /\ ~isDir => IsFileKey(o)
  /\ leaf' \in Seq(V)
  /\ isDir => input' \in Seq(V)
  /\ ~isDir => input' \in Seq(Chunk) \/ input' = <<NoChunk>>
  /\ Pending = Join(Value(f, o), Pending')

LEMMA HeldExtended ==
  ASSUME NEW V, NEW f, NEW g, NEW o, Extends(V, f, V, g, o),
         isDir => IsDirKey(o), ~isDir => IsFileKey(o)
  PROVE  HeldKeys(f) \subseteq HeldKeys(g) /\ o \in HeldKeys(g)
<1>1. DOMAIN g = DOMAIN f \cup {o}
  BY DEF Extends
<1> QED
  BY <1>1 DEF HeldKeys, DirKeys, FileKeys

LEMMA HoldTaken ==
  ASSUME NEW V, NEW f, Meaning(V, f), Within, NEW o, NEW n, Takes(V, f, o, n)
  PROVE  \E g : Meaning(V, g)'
<1>1. isDir' = isDir /\ node # <<>> /\ call = <<>> /\ call' # <<>> /\ n \in Nat
  BY DEF Within, Takes
<1>2. /\ HoldsTyped(V, f) /\ Denotes(V, f) /\ Chunk \subseteq V
      /\ f \in [DOMAIN f -> Seq(V)]
  BY <1>1 DEF Meaning, Holds, Knows, Denotes
<1>3. ASSUME NEW g, Extends(V, f, V, g, o) PROVE HoldsTyped(V, g)'
  <2>1. HeldKeys(f) \subseteq HeldKeys(g) /\ o \in HeldKeys(g)
    BY <1>3, HeldExtended DEF Takes
  <2>2. HeldKeys(g)' = HeldKeys(g)
    BY <1>1 DEF HeldKeys
  <2>3. levels' \in Seq(Seq(Items(HeldKeys(g))))
    BY <1>2, <2>1, ItemsMono DEF HoldsTyped, Takes
  <2>4. [sep |-> n, child |-> o] \in Items(HeldKeys(g))
    BY <1>1, <2>1, MakeItem
  <2>5. call'[2] = [sep |-> n, child |-> o]
    BY DEF Takes
  <2> QED
    BY <1>1, <2>2, <2>3, <2>4, <2>5 DEF HoldsTyped, Takes
<1>4. AllKids(levels) \in Seq(DOMAIN f) /\ Held = AllKids(levels)
  BY <1>1, <1>2, HeldType
<1>5. Held = Join(AllKids(levels), <<>>) /\ Held' = Join(AllKids(levels), <<o>>)
  <2>1. call'[2].child = o /\ levels' = levels
    BY DEF Takes
  <2> QED
    BY <1>1, <2>1 DEF Held
<1>6. Flat(f, <<>>) = <<>>
  <2>1. Lists(V, f, <<>>)
    BY <1>2 DEF Lists
  <2> QED
    BY <2>1, FlatNil
<1>7. Pending \in Seq(V)
  BY <1>2, PendingType
<1>8. Pending' \in Seq(V)
  <2>1. CASE isDir
    BY <1>1, <2>1, JoinType DEF Takes, Pending
  <2>2. CASE ~isDir
    <3>1. Seq(Chunk) \subseteq Seq(V)
      BY <1>2, SeqMonotonic
    <3> QED
      BY <1>1, <2>2, <3>1 DEF Takes, Pending
  <2> QED
    BY <2>1, <2>2
<1>9. Join(Flat(f, <<>>), Pending) = Join(Value(f, o), Pending')
  BY <1>6, <1>7, JoinNil DEF Takes
<1>10. Closes(V, f, o, AllKids(levels), <<>>)
  <2>1. <<>> \in Seq(DOMAIN f)
    OBVIOUS
  <2>2. WellFormed(f, o) /\ Value(f, o) \in Seq(V)
    BY DEF Takes
  <2> QED
    BY <1>4, <1>5, <1>8, <1>9, <2>1, <2>2 DEF Closes
<1> QED
  BY <1>3, <1>10, HoldObject

\* The first element of t moves to the end of s.
Fed(V, s, t) ==
  /\ Join(s, t) = Join(Append(s, t[1]), Tail(t)) /\ t = Join(<<t[1]>>, Tail(t))
  /\ t[1] \in V /\ Tail(t) \in Seq(V) /\ Append(s, t[1]) \in Seq(V)

LEMMA FeedSplit ==
  ASSUME NEW V, NEW s \in Seq(V), NEW t \in Seq(V), t # <<>>
  PROVE  Fed(V, s, t)
<1>1. t[1] \in V /\ Tail(t) \in Seq(V) /\ Append(s, t[1]) \in Seq(V) /\ <<t[1]>> \in Seq(V)
  BY HeadTailProperties, AppendProperties
<1>2. t = Join(<<t[1]>>, Tail(t))
  <2>1. /\ Len(t) \in Nat /\ Len(t) > 0 /\ Len(Tail(t)) = Len(t) - 1
        /\ \A i \in 1..Len(Tail(t)) : Tail(t)[i] = t[i + 1]
    BY EmptySeq, HeadTailProperties
  <2>2. Joined(Join(<<t[1]>>, Tail(t)), <<t[1]>>, Tail(t))
    BY <1>1, JoinAt
  <2>3. Join(<<t[1]>>, Tail(t)) \in Seq(V)
    BY <1>1, JoinType
  <2> DEFINE u == Join(<<t[1]>>, Tail(t))
  <2>4. Len(u) = Len(t) /\ u[1] = t[1]
    <3>1. Len(<<t[1]>>) = 1
      OBVIOUS
    <3> HIDE DEF u
    <3> QED
      BY <2>1, <2>2, <3>1 DEF Joined, u
  <2>5. \A i \in 2..Len(t) : u[i] = t[i]
    <3> SUFFICES ASSUME NEW i \in 2..Len(t) PROVE u[i] = t[i]
      OBVIOUS
    <3>1. i - 1 \in 1..Len(Tail(t)) /\ (i - 1) + 1 = i /\ 1 + (i - 1) = i
      BY <2>1
    <3>2. Len(<<t[1]>>) = 1
      OBVIOUS
    <3>3. u[1 + (i - 1)] = Tail(t)[i - 1]
      <4> HIDE DEF u
      <4> QED
        BY <2>2, <3>1, <3>2 DEF Joined, u
    <3> QED
      BY <2>1, <3>1, <3>3
  <2>6. \A i \in 1..Len(t) : u[i] = t[i]
    <3>1. \A i \in 1..Len(t) : i = 1 \/ i \in 2..Len(t)
      BY <2>1
    <3> HIDE DEF u
    <3> QED
      BY <2>4, <2>5, <3>1
  <2> QED
    <3> HIDE DEF u
    <3>1. u = t
      BY <2>3, <2>4, <2>6, SeqEqual DEF u
    <3> QED
      BY <3>1 DEF u
<1>3. Append(s, t[1]) = Join(s, <<t[1]>>)
  BY <1>1, AppendIsConcat DEF Join
<1>4. Join(Join(s, <<t[1]>>), Tail(t)) = Join(s, Join(<<t[1]>>, Tail(t)))
  <2> DEFINE a == <<t[1]>>
             b == Tail(t)
  <2>1. a \in Seq(V) /\ b \in Seq(V)
    BY <1>1
  <2> HIDE DEF a, b
  <2>2. Join(Join(s, a), b) = Join(s, Join(a, b))
    BY <2>1, JoinAssoc
  <2> QED
    BY <2>2 DEF a, b
<1> QED
  BY <1>1, <1>2, <1>3, <1>4 DEF Fed

LEMMA MeaningEntry ==
  ASSUME BuildInv, NEW V, NEW f, Meaning(V, f), AtNode, input # <<>>, isDir,
         AddEntry(input[1]), input' = Tail(input), UNCHANGED <<node, keyOf>>
  PROVE  \E g : Meaning(V, g)'
<1>1. Within /\ call = <<>> /\ levels' = levels /\ isDir' = isDir
  BY DEF AtNode, Building, AddEntry, Within
<1>2. HoldsTyped(V, f) /\ leaf \in Seq(V) /\ input \in Seq(V)
  BY <1>1 DEF Meaning, Holds, HoldsTyped, Within
<1>3. /\ Join(leaf, input) = Join(Append(leaf, input[1]), Tail(input))
      /\ Tail(input) \in Seq(V) /\ Append(leaf, input[1]) \in Seq(V)
  <2>1. Fed(V, leaf, input)
    BY <1>2, FeedSplit
  <2> QED
    BY <2>1 DEF Fed
<1>4. PICK b \in BOOLEAN :
        IF b THEN closeLeaf(Append(leaf, input[1]))
        ELSE leaf' = Append(leaf, input[1]) /\ UNCHANGED <<call, emitted>>
  BY DEF AddEntry
<1>5. CASE b
  <2> DEFINE es == Append(leaf, input[1])
             o == EncodeDirLeaf(es)
             n == IF es = <<>> THEN NoSep ELSE Last(es).name
  <2>1. leaf' = <<>> /\ call' = <<1, [sep |-> n, child |-> o]>>
    BY <1>4, <1>5 DEF closeLeaf, AddChild
  <2>2. WellFormed(f, o) /\ Value(f, o) = es /\ IsDirKey(o)
    BY LeafValue
  <2>3. n \in Nat
    <3>1. input \in Seq(Entries) /\ leaf \in Seq(Entries)
      BY DEF BuildInv, Typed, NodeTyped
    <3>2. es \in Seq(Entries) /\ es # <<>> /\ Last(es) = input[1] /\ input[1] \in Entries
      <4>1. input[1] \in Entries
        BY <3>1, HeadTailProperties
      <4> QED
        BY <3>1, <4>1, PathAppend
    <3> QED
      BY <3>2, EntryFacts DEF BuildInv
  <2> HIDE DEF o, n
  <2>4. Pending = Join(es, Tail(input)) /\ Pending' = Tail(input)
    <3>1. Pending = Join(leaf, input)
      BY DEF Pending
    <3>2. Pending' = Join(<<>>, Tail(input))
      BY <1>1, <2>1 DEF Pending
    <3> QED
      BY <1>3, <3>1, <3>2, JoinNil
  <2> HIDE DEF es
  <2>5. Takes(V, f, o, n)
    BY <1>1, <1>3, <2>1, <2>2, <2>3, <2>4 DEF Takes, es
  <2> QED
    BY <1>1, <2>5, HoldTaken
<1>6. CASE ~b
  <2>1. leaf' = Append(leaf, input[1]) /\ call' = call
    BY <1>4, <1>6
  <2>2. Pending' = Pending
    BY <1>1, <1>3, <2>1 DEF Pending
  <2>3. Held' = Held
    BY <1>1, <2>1 DEF Held
  <2>4. HeldKeys(f)' = HeldKeys(f)
    BY <1>1 DEF HeldKeys
  <2>5. HoldsTyped(V, f)'
    BY <1>1, <1>2, <1>3, <2>1, <2>4 DEF HoldsTyped
  <2> QED
    BY <1>1, <2>2, <2>3, <2>5, HoldSame
<1> QED
  BY <1>5, <1>6

LEMMA MeaningChunk ==
  ASSUME NEW V, NEW f, Meaning(V, f), AtNode, input # <<>>,
         AddChunk(input[1]), input' = Tail(input), UNCHANGED <<node, keyOf>>
  PROVE  \E g : Meaning(V, g)'
<1>1. /\ Within /\ call = <<>> /\ levels' = levels /\ isDir' = isDir /\ ~isDir /\ leaf' = leaf
      /\ call' = <<1, [sep |-> NoSep, child |-> EncodeBlob(input[1])]>>
  BY DEF AtNode, Building, AddChunk, AddChild, Within
<1>2. HoldsTyped(V, f) /\ leaf \in Seq(V) /\ Chunk \subseteq V /\ node # <<>>
  BY <1>1 DEF Meaning, Holds, HoldsTyped, Within, Knows
<1> DEFINE o == EncodeBlob(input[1])
<1>3. /\ WellFormed(f, o) /\ IsFileKey(o)
      /\ Value(f, o) = IF input[1] = NoChunk THEN <<>> ELSE <<input[1]>>
  BY BlobValue
<1>4. NoSep \in Nat
  BY DEF NoSep
<1> HIDE DEF o
<1>5. CASE input = <<NoChunk>>
  <2>1. Tail(input) = <<>> /\ input[1] = NoChunk
    BY <1>5
  <2>2. Pending = <<>> /\ Pending' = <<>> /\ Value(f, o) = <<>>
    BY <1>1, <1>3, <1>5, <2>1 DEF Pending
  <2>3. <<>> = Join(<<>>, <<>>)
    <3>1. <<>> \in Seq(V)
      OBVIOUS
    <3> QED
      BY <3>1, JoinNil
  <2>4. <<>> \in Seq(V) /\ <<>> \in Seq(Chunk)
    OBVIOUS
  <2>5. input' \in Seq(Chunk) /\ Value(f, o) \in Seq(V) /\ Pending = Join(Value(f, o), Pending')
    BY <2>1, <2>2, <2>3, <2>4
  <2>6. Takes(V, f, o, NoSep)
    BY <1>1, <1>2, <1>3, <1>4, <2>5 DEF Takes, o
  <2> QED
    BY <1>1, <2>6, HoldTaken
<1>6. CASE input \in Seq(Chunk)
  <2>1. /\ input = Join(<<input[1]>>, Tail(input)) /\ input[1] \in Chunk
        /\ Tail(input) \in Seq(Chunk)
    <3>1. <<>> \in Seq(Chunk)
      OBVIOUS
    <3>2. Fed(Chunk, <<>>, input)
      BY <1>6, <3>1, FeedSplit
    <3> QED
      BY <3>2 DEF Fed
  <2>2. input[1] # NoChunk /\ input # <<NoChunk>> /\ Tail(input) # <<NoChunk>>
    <3>1. ASSUME Tail(input) = <<NoChunk>> PROVE FALSE
      <4>1. <<NoChunk>> \in Seq(Chunk)
        BY <2>1, <3>1
      <4>2. NoChunk \in Chunk
        BY <4>1
      <4> QED
        BY <4>2, ChunkAssumption
    <3> QED
      BY <2>1, <3>1, ChunkAssumption
  <2>3. Pending = input /\ Pending' = Tail(input) /\ Value(f, o) = <<input[1]>>
    BY <1>1, <1>3, <2>2 DEF Pending
  <2>4. <<input[1]>> \in Seq(V)
    BY <1>2, <2>1
  <2>5. Takes(V, f, o, NoSep)
    BY <1>1, <1>2, <1>3, <1>4, <2>1, <2>3, <2>4 DEF Takes, o
  <2> QED
    BY <1>1, <2>5, HoldTaken
<1> QED
  BY <1>1, <1>2, <1>5, <1>6 DEF HoldsTyped

LEMMA MeaningFinish ==
  ASSUME BuildInv, NEW V, NEW f, Meaning(V, f), FinishNode
  PROVE  \E g : Meaning(V, g)'
<1>1. /\ Within /\ call = <<>> /\ levels' = levels /\ isDir' = isDir /\ input = <<>> /\ input' = <<>>
  BY DEF AtNode, Building, FinishNode, FinishLeaf, Within, buildVars
<1>2. HoldsTyped(V, f) /\ leaf \in Seq(V) /\ <<>> \in Seq(V)
  BY <1>1 DEF Meaning, Holds, HoldsTyped, Within
<1>3. CASE isDir /\ (leaf # <<>> \/ levels = <<>>)
  <2> DEFINE o == EncodeDirLeaf(leaf)
             n == IF leaf = <<>> THEN NoSep ELSE Last(leaf).name
  <2>1. leaf' = <<>> /\ call' = <<1, [sep |-> n, child |-> o]>>
    BY <1>3 DEF FinishNode, FinishLeaf, closeLeaf, AddChild
  <2>2. WellFormed(f, o) /\ Value(f, o) = leaf /\ IsDirKey(o)
    BY LeafValue
  <2>3. n \in Nat
    <3>1. leaf \in Seq(Entries) /\ Typed /\ NodeTyped
      BY DEF BuildInv, Typed
    <3>2. leaf # <<>> => Last(leaf) \in Entries
      BY <3>1, PathSplit
    <3>3. leaf # <<>> => Last(leaf).name \in Nat
      BY <3>1, <3>2, EntryFacts
    <3>4. NoSep \in Nat
      BY DEF NoSep
    <3> QED
      BY <3>3, <3>4
  <2> HIDE DEF o, n
  <2>4. Pending = Join(leaf, <<>>) /\ Pending' = <<>>
    <3>1. Pending' = Join(<<>>, <<>>)
      BY <1>1, <1>3, <2>1 DEF Pending
    <3> QED
      BY <1>1, <1>2, <1>3, <3>1, JoinNil DEF Pending
  <2>5. Takes(V, f, o, n)
    BY <1>1, <1>2, <1>3, <2>1, <2>2, <2>3, <2>4 DEF Takes
  <2> QED
    BY <1>1, <2>5, HoldTaken
<1>4. CASE ~(isDir /\ (leaf # <<>> \/ levels = <<>>))
  <2>1. leaf' = leaf /\ call' = call
    BY <1>4 DEF FinishNode, FinishLeaf
  <2>2. Pending' = Pending /\ Held' = Held /\ HeldKeys(f)' = HeldKeys(f)
    BY <1>1, <2>1 DEF Pending, Held, HeldKeys
  <2>3. HoldsTyped(V, f)'
    BY <1>1, <1>2, <2>1, <2>2 DEF HoldsTyped
  <2> QED
    BY <1>1, <2>2, <2>3, HoldSame
<1> QED
  BY <1>3, <1>4

\* A run of a level is closed into an object that goes one level up.
Runs(V, f, run, up) ==
  /\ run \in Seq(Items(HeldKeys(f))) /\ Len(run) \in 2..MaxRun /\ up \in Seq(HeldKeys(f))
  /\ levels' \in Seq(Seq(Items(HeldKeys(f)))) /\ AllKids(levels') = up
  /\ call'[2] = buildNode(run) /\ call' # <<>>
  /\ Held = Join(up, Kids(run))
  /\ leaf' = leaf /\ input' = input

LEMMA HoldRun ==
  ASSUME NEW V, NEW f, Meaning(V, f), Within, isDir \in BOOLEAN, NEW run, NEW up, Runs(V, f, run, up)
  PROVE  \E g : Meaning(V, g)'
<1>1. isDir' = isDir /\ node # <<>> /\ call' # <<>> /\ leaf' = leaf /\ input' = input
  BY DEF Within, Runs
<1>2. /\ HoldsTyped(V, f) /\ Denotes(V, f) /\ Chunk \subseteq V
      /\ HeldKeys(f) \subseteq DOMAIN f
  BY <1>1 DEF Meaning, Holds, Knows, HeldKeys, DirKeys, FileKeys
<1> DEFINE nd == buildNode(run)
           o == nd.child
<1>3. /\ WellFormed(f, o) /\ Value(f, o) = Flat(f, Kids(run)) /\ Flat(f, Kids(run)) \in Seq(V)
      /\ Kids(run) \in Seq(DOMAIN f)
      /\ isDir => IsDirKey(o)
      /\ ~isDir => IsFileKey(o)
  BY <1>2, RunValue DEF Runs
<1>4. nd.sep \in Nat /\ nd = [child |-> o, sep |-> nd.sep]
  BY NodeFacts DEF Runs
<1>5. call'[2] = nd
  BY DEF Runs
<1> HIDE DEF nd
<1>6. ASSUME NEW g, Extends(V, f, V, g, o) PROVE HoldsTyped(V, g)'
  <2>1. HeldKeys(f) \subseteq HeldKeys(g) /\ o \in HeldKeys(g)
    BY <1>3, <1>6, HeldExtended
  <2>2. HeldKeys(g)' = HeldKeys(g)
    BY <1>1 DEF HeldKeys
  <2>3. levels' \in Seq(Seq(Items(HeldKeys(g))))
    <3>1. levels' \in Seq(Seq(Items(HeldKeys(f))))
      BY DEF Runs
    <3> QED
      BY <2>1, <3>1, ItemsMono
  <2>4. nd \in Items(HeldKeys(g))
    BY <1>4, <2>1, MakeItem
  <2> QED
    BY <1>1, <1>2, <1>5, <2>2, <2>3, <2>4 DEF HoldsTyped
<1>7. Held' = Join(up, <<o>>)
  BY <1>1, <1>5 DEF Held, Runs
<1>8. Pending' = Pending /\ Pending \in Seq(V)
  BY <1>1, <1>2, PendingType DEF Pending
<1>9. up \in Seq(DOMAIN f) /\ Held = Join(up, Kids(run))
  BY <1>2, SeqMonotonic DEF Runs
<1>10. Closes(V, f, o, up, Kids(run))
  BY <1>3, <1>7, <1>8, <1>9 DEF Closes
<1> QED
  BY <1>6, <1>10, HoldObject

\* up is what the levels above l hold; r replaces what l holds.
Above(C, ls, l, r, up) ==
  /\ AllKids(ls) = Join(up, Kids(ls[l]))
  /\ AllKids([ls EXCEPT ![l] = <<>>]) = up
  /\ AllKids([ls EXCEPT ![l] = r]) = Join(up, Kids(r))
  /\ [ls EXCEPT ![l] = <<>>] \in Seq(Seq(Items(C)))
  /\ [ls EXCEPT ![l] = r] \in Seq(Seq(Items(C)))

LEMMA LevelEmptied ==
  ASSUME NEW C, NEW ls, NEW l, Low(C, ls, l), NEW r \in Seq(Items(C))
  PROVE  \E up \in Seq(C) : Above(C, ls, l, r, up)
<1>1. <<>> \in Seq(Items(C))
  OBVIOUS
<1>2. ASSUME NEW t \in Seq(Items(C)) PROVE [ls EXCEPT ![l] = t] \in Seq(Seq(Items(C)))
  <2> DEFINE S == Seq(Items(C))
  <2>1. ls \in Seq(S) /\ t \in S /\ l \in 1..Len(ls)
    BY DEF Low
  <2> HIDE DEF S
  <2>2. [ls EXCEPT ![l] = t] \in Seq(S)
    BY <2>1, ExceptSeq
  <2> QED
    BY <2>2 DEF S
<1>3. /\ AllKids(ls) = Join(Over(ls, l), Kids(ls[l])) /\ Over(ls, l) \in Seq(C)
      /\ AllKids([ls EXCEPT ![l] = r]) = Join(Over(ls, l), Kids(r))
  BY LevelChanged
<1>4. AllKids([ls EXCEPT ![l] = <<>>]) = Join(Over(ls, l), Kids(<<>>))
  <2> DEFINE t == <<>>
  <2>1. t \in Seq(Items(C))
    BY <1>1
  <2> HIDE DEF t
  <2>2. AllKids([ls EXCEPT ![l] = t]) = Join(Over(ls, l), Kids(t))
    BY <2>1, LevelChanged
  <2> QED
    BY <2>2 DEF t
<1>5. Join(Over(ls, l), <<>>) = Over(ls, l)
  BY <1>3, JoinNil
<1>6. Above(C, ls, l, r, Over(ls, l))
  BY <1>1, <1>2, <1>3, <1>4, <1>5, KidsNil DEF Above
<1> QED
  BY <1>3, <1>6

LEMMA MeaningAdd ==
  ASSUME BuildInv, NEW V, NEW f, Meaning(V, f), AtNode, add, UNCHANGED buildVars
  PROVE  \E g : Meaning(V, g)'
<1> DEFINE l == call[1]
           it == call[2]
           ls == ensure(l)
           run == Append(ls[l], it)
           C == HeldKeys(f)
<1>1. /\ call # <<>> /\ isDir' = isDir /\ leaf' = leaf /\ input' = input /\ Within
      /\ isDir \in BOOLEAN
  BY DEF add, buildVars, AtNode, Building, Within, BuildInv, Typed
<1>2. HoldsTyped(V, f) /\ levels \in Seq(Seq(Items(C))) /\ it \in Items(C)
  BY <1>1 DEF Meaning, Holds, HoldsTyped, Within
<1>3. Joining(l, it, run)
  BY <1>1, JoiningFacts DEF AtNode
<1>4. l \in 1..Len(ls) /\ \A j \in 1..(l - 1) : ls[j] = <<>>
  <2> HIDE DEF l
  <2> QED
    BY <1>1, EnsureFacts DEF l
<1>5. ls \in Seq(Seq(Items(C))) /\ AllKids(ls) = AllKids(levels)
  <2>1. <<>> \in Seq(Items(C))
    OBVIOUS
  <2>2. Append(levels, <<>>) \in Seq(Seq(Items(C))) /\ AllKids(Append(levels, <<>>)) = AllKids(levels)
    <3> DEFINE D == Seq(Items(C))
    <3>1. levels \in Seq(D) /\ <<>> \in D
      BY <1>2, <2>1
    <3>2. Append(levels, <<>>) \in Seq(D)
      <4> HIDE DEF D
      <4> QED
        BY <3>1, AppendProperties
    <3> HIDE DEF C
    <3> QED
      BY <1>2, <3>2, AllKidsGrow DEF D
  <2> QED
    BY <1>2, <2>2 DEF ensure
<1>6. PICK b \in BOOLEAN :
        /\ IsBoundary(it, Len(run), b)
        /\ IF b THEN /\ levels' = [ls EXCEPT ![l] = <<>>]
                     /\ emit(buildNode(run).child)
                     /\ call' = <<l + 1, buildNode(run)>>
           ELSE /\ levels' = [ls EXCEPT ![l] = run]
                /\ call' = <<>>
                /\ UNCHANGED emitted
  BY DEF add
<1>7. Held = Join(AllKids(levels), <<it.child>>)
  BY <1>1, <1>2, HeldType
<1> HIDE DEF l, it, ls, run, C
<1>8. Low(C, ls, l)
  BY <1>4, <1>5 DEF Low
<1>9. ls[l] \in Seq(Items(C)) /\ run = Append(ls[l], it)
  BY <1>8 DEF Low, run
<1>10. run \in Seq(Items(C)) /\ Kids(run) = Join(Kids(ls[l]), <<it.child>>) /\ Len(run) \in Nat
  <2>1. run \in Seq(Items(C)) /\ Kids(run) = Join(Kids(ls[l]), <<it.child>>)
    <3> DEFINE D == Items(C)
    <3>1. Append(ls[l], it) \in Seq(D)
      <4>1. ls[l] \in Seq(D) /\ it \in D
        BY <1>2, <1>9
      <4> HIDE DEF D
      <4> QED
        BY <4>1, AppendProperties
    <3> QED
      BY <1>2, <1>9, <3>1, KidsAppend
  <2> QED
    BY <2>1
<1>11. (b => Len(run) >= 2) /\ (~b => Len(run) < MaxRun) /\ Len(run) <= MaxRun
  <2>1. Len(run) \in Nat /\ Len(run) <= MaxRun /\ IsBoundary(it, Len(run), b) /\ b \in BOOLEAN
    BY <1>3, <1>6 DEF Joining
  <2> QED
    BY <2>1, BoundaryFacts
<1>12. ASSUME NEW up \in Seq(C), AllKids(ls) = Join(up, Kids(ls[l]))
       PROVE  Held = Join(up, Kids(run)) /\ Join(up, Kids(run)) \in Seq(C)
  <2> DEFINE c == <<it.child>>
             ks == Kids(ls[l])
  <2>1. c \in Seq(C) /\ ks \in Seq(C)
    <3>1. it.child \in C
      BY <1>2, ItemFacts
    <3> QED
      BY <1>9, <3>1, KidsType
  <2>2. Held = Join(Join(up, ks), c) /\ Kids(run) = Join(ks, c)
    BY <1>5, <1>7, <1>10, <1>12
  <2> HIDE DEF c, ks
  <2>3. Join(Join(up, ks), c) = Join(up, Join(ks, c))
    BY <2>1, JoinAssoc
  <2>4. Join(ks, c) \in Seq(C)
    BY <2>1, JoinType
  <2>5. Join(up, Join(ks, c)) \in Seq(C)
    BY <2>4, JoinType
  <2> QED
    BY <2>2, <2>3, <2>5
<1>13. CASE b
  <2>1. <<>> \in Seq(Items(C))
    OBVIOUS
  <2>2. PICK up \in Seq(C) : Above(C, ls, l, <<>>, up)
    BY <1>8, <2>1, LevelEmptied
  <2>3. Held = Join(up, Kids(run))
    BY <1>12, <2>2 DEF Above
  <2>4. levels' = [ls EXCEPT ![l] = <<>>] /\ call'[2] = buildNode(run) /\ call' # <<>>
    <3>1. levels' = [ls EXCEPT ![l] = <<>>] /\ call' = <<l + 1, buildNode(run)>>
      BY <1>6, <1>13
    <3> DEFINE m == l + 1
               nd == buildNode(run)
    <3>2. call' = <<m, nd>>
      BY <3>1
    <3> HIDE DEF m, nd
    <3>3. call'[2] = nd /\ call' # <<>>
      BY <3>2
    <3> QED
      BY <3>1, <3>3 DEF nd
  <2>5. Len(run) \in 2..MaxRun
    BY <1>10, <1>11, <1>13, MaxRunFacts
  <2>6. Runs(V, f, run, up)
    BY <1>1, <1>10, <2>2, <2>3, <2>4, <2>5 DEF Runs, C, Above
  <2> QED
    BY <1>1, <2>6, HoldRun
<1>14. CASE ~b
  <2>1. run \in Seq(Items(C)) /\ Len(run) < MaxRun
    BY <1>10, <1>11, <1>14
  <2>2. PICK up \in Seq(C) : Above(C, ls, l, run, up)
    BY <1>8, <2>1, LevelEmptied
  <2>3. Held = Join(up, Kids(run)) /\ Join(up, Kids(run)) \in Seq(C)
    BY <1>12, <2>2 DEF Above
  <2>4. levels' = [ls EXCEPT ![l] = run] /\ call' = <<>>
    BY <1>6, <1>14
  <2>5. Held' = Held
    <3>1. Held' = Join(AllKids(levels'), <<>>)
      BY <2>4 DEF Held
    <3>2. Join(AllKids(levels'), <<>>) = AllKids(levels')
      BY <2>2, <2>3, <2>4, JoinNil DEF Above
    <3> QED
      BY <2>2, <2>3, <2>4, <3>1, <3>2 DEF Above
  <2>6. Pending' = Pending /\ C' = C
    BY <1>1 DEF Pending, C, HeldKeys
  <2>7. HoldsTyped(V, f)'
    <3>1. levels' \in Seq(Seq(Items(C)))
      BY <2>2, <2>4 DEF Above
    <3> QED
      BY <1>1, <1>2, <2>4, <2>6, <3>1 DEF HoldsTyped, C
  <2> QED
    BY <1>1, <2>5, <2>6, <2>7, HoldSame
<1> QED
  BY <1>13, <1>14

LEMMA MeaningLevel ==
  ASSUME BuildInv, NEW V, NEW f, Meaning(V, f), AtNode, UNCHANGED buildVars,
         FinishEmpty \/ FinishSingle \/ FinishRun
  PROVE  \E g : Meaning(V, g)'
<1> DEFINE C == HeldKeys(f)
           r == levels[fin]
<1>1. /\ call = <<>> /\ isDir' = isDir /\ leaf' = leaf /\ input' = input /\ Within /\ AtLevel
      /\ isDir \in BOOLEAN
  BY DEF FinishEmpty, FinishSingle, FinishRun, AtLevel, buildVars, AtNode, Building, Within,
         BuildInv, Typed
<1>2. HoldsTyped(V, f) /\ levels \in Seq(Seq(Items(C)))
  BY <1>1 DEF Meaning, Holds, HoldsTyped, Within
<1>3. AtRun(r)
  BY <1>1, AtRunFacts
<1>4. Held = AllKids(levels)
  BY <1>1, <1>2, HeldType
<1>5. Pending' = Pending /\ C' = C
  BY <1>1 DEF Pending, HeldKeys
<1> HIDE DEF C
<1>6. Low(C, levels, fin)
  BY <1>2, <1>3 DEF Low, AtRun
<1>7. r \in Seq(Items(C)) /\ Len(r) \in Nat /\ Len(r) < MaxRun
  BY <1>3, <1>6 DEF Low, AtRun
<1>12. PICK up \in Seq(C) : Above(C, levels, fin, r, up)
  BY <1>6, <1>7, LevelEmptied
<1>8. /\ AllKids(levels) = Join(up, Kids(r)) /\ AllKids([levels EXCEPT ![fin] = <<>>]) = up
      /\ [levels EXCEPT ![fin] = <<>>] \in Seq(Seq(Items(C)))
  BY <1>12 DEF Above
<1>9. CASE FinishEmpty
  <2>1. levels' = levels /\ call' = call
    BY <1>9 DEF FinishEmpty
  <2>2. Held' = Held
    BY <2>1 DEF Held
  <2>3. HoldsTyped(V, f)'
    BY <1>1, <1>2, <1>5, <2>1 DEF HoldsTyped, C
  <2> QED
    BY <1>1, <1>5, <2>2, <2>3, HoldSame
<1>10. CASE FinishSingle
  <2>1. Len(r) = 1 /\ levels' = [levels EXCEPT ![fin] = <<>>] /\ call' = <<fin + 1, r[1]>>
    BY <1>10 DEF FinishSingle
  <2>2. Kids(r) = <<r[1].child>> /\ r[1] \in Items(C)
    BY <1>7, <2>1, KidsOne
  <2> HIDE DEF r
  <2>3. Held' = Join(up, <<r[1].child>>)
    BY <1>8, <2>1 DEF Held
  <2>4. Held' = Held
    BY <1>4, <1>8, <2>2, <2>3
  <2>5. HoldsTyped(V, f)'
    <3>1. levels' \in Seq(Seq(Items(C)))
      BY <1>8, <2>1
    <3> QED
      BY <1>1, <1>2, <1>5, <2>1, <2>2, <3>1 DEF HoldsTyped, C
  <2> QED
    BY <1>1, <1>5, <2>4, <2>5, HoldSame
<1>11. CASE FinishRun
  <2>1. /\ Len(r) > 1 /\ levels' = [levels EXCEPT ![fin] = <<>>] /\ call' = <<fin + 1, buildNode(r)>>
    BY <1>11 DEF FinishRun
  <2>2. Len(r) \in 2..MaxRun
    BY <1>7, <2>1, MaxRunFacts
  <2> HIDE DEF r
  <2>3. Runs(V, f, r, up)
    BY <1>1, <1>4, <1>7, <1>8, <2>1, <2>2 DEF Runs, C
  <2> QED
    BY <1>1, <2>3, HoldRun
<1> QED
  BY <1>9, <1>10, <1>11

LEMMA MeaningSpill ==
  ASSUME NEW V, NEW f, Meaning(V, f), SpillXattrs
  PROVE  \E g : Meaning(V, g)'
<1>1. Within /\ UNCHANGED <<isDir, leaf, levels, call, input>>
  BY DEF SpillXattrs, AtNode, Building, Within
<1>2. HoldsTyped(V, f)
  BY <1>1 DEF Meaning, Holds, Within
<1>3. HoldsTyped(V, f)' /\ Held' = Held /\ Pending' = Pending
  BY <1>1, <1>2 DEF HoldsTyped, HeldKeys, Held, Pending
<1> QED
  BY <1>1, <1>3, HoldSame

\* Nothing is held and all is pending at first.
LEMMA MeaningStart ==
  ASSUME BuildInv, NEW V, NEW f, Meaning(V, f), NEW p \in Built(src), StartNode(p)
  PROVE  \E W : Meaning(W, f)'
<1>1. /\ scenario' = scenario /\ src' = src /\ keyOf' = keyOf /\ node' = <<p>> /\ isDir' = IsDirectory(src, p)
      /\ input' = Input(src, keyOf, p) /\ leaf' = <<>> /\ levels' = <<>> /\ call' = <<>>
      /\ scenario \in Scenarios
  BY DEF StartNode, Building, NewBuilder, src, BuildInv, Typed
<1>2. Knows(V, f, keyOf) /\ Chunk \subseteq V /\ f \in [DOMAIN f -> Seq(V)]
  BY DEF Meaning, Knows, Denotes
<1>0. PICK W : W = V \cup Entries
  OBVIOUS
<1>3. V \subseteq W /\ Chunk \subseteq W /\ Entries \subseteq W
  BY <1>0, <1>2
<1>4. f \in [DOMAIN f -> Seq(W)]
  <2>1. Seq(V) \subseteq Seq(W)
    BY <1>3, SeqMonotonic
  <2> QED
    BY <1>2, <2>1
<1>5. Knows(W, f, keyOf)
  BY <1>2, <1>3, <1>4 DEF Knows, Denotes
<1>6. Knows(W, f, keyOf)'
  BY <1>1, <1>5 DEF Knows, NodeKeys
<1>7. input' \in IF IsDirectory(src, p) THEN Seq(Entries) ELSE Seq(Chunk \cup {NoChunk})
  BY <1>1, NodeStart
<1>8. IsDirectory(src, p) => input' \in Seq(W)
  BY <1>3, <1>7, SeqMonotonic
<1>9. ~IsDirectory(src, p) =>
        /\ src[p].data \in Seq(Chunk) /\ src[p].data # <<NoChunk>>
        /\ input' = IF src[p].data = <<>> THEN <<NoChunk>> ELSE src[p].data
  <2> SUFFICES ASSUME ~IsDirectory(src, p)
               PROVE  /\ src[p].data \in Seq(Chunk) /\ src[p].data # <<NoChunk>>
                      /\ input' = IF src[p].data = <<>> THEN <<NoChunk>> ELSE src[p].data
    OBVIOUS
  <2>1. p \in DOMAIN src /\ src[p].kind = "reg"
    BY DEF IsDirectory, Built, HasContent
  <2>2. src[p].data \in Seq(Chunk)
    BY <1>1, <2>1, SourceFacts
  <2>3. src[p].data # <<NoChunk>>
    <3> SUFFICES ASSUME src[p].data = <<NoChunk>> PROVE FALSE
      OBVIOUS
    <3>1. <<NoChunk>> \in Seq(Chunk)
      BY <2>2
    <3> QED
      BY <3>1, ChunkAssumption
  <2> QED
    BY <1>1, <2>2, <2>3 DEF Input
<1>10. HoldsTyped(W, f)'
  <2>1. <<>> \in Seq(W) /\ levels' \in Seq(Seq(Items(HeldKeys(f)')))
    BY <1>1
  <2> QED
    BY <1>1, <1>8, <1>9, <2>1 DEF HoldsTyped
<1>11. Held' = <<>> /\ Flat(f, <<>>) = <<>>
  <2>1. <<>> \in Seq(W) /\ Lists(W, f, <<>>)
    BY <1>4 DEF Lists
  <2>2. Held' = Join(<<>>, <<>>)
    BY <1>1, AllKidsNil DEF Held
  <2> QED
    BY <2>1, <2>2, JoinNil, FlatNil
<1>12. Pending' = Content(src, keyOf, p) /\ Pending' \in Seq(W)
  <2>1. CASE IsDirectory(src, p)
    <3>1. Pending' = Join(<<>>, input')
      BY <1>1, <2>1 DEF Pending
    <3> QED
      BY <1>1, <1>8, <2>1, <3>1, JoinNil DEF Content
  <2>2. CASE ~IsDirectory(src, p)
    <3>1. Pending' = src[p].data
      BY <1>1, <1>9, <2>2 DEF Pending
    <3>2. Seq(Chunk) \subseteq Seq(W)
      BY <1>3, SeqMonotonic
    <3> QED
      BY <1>9, <2>2, <3>1, <3>2 DEF Content
  <2> QED
    BY <2>1, <2>2
<1>13. Join(Flat(f, Held'), Pending') = Content(src, keyOf, p)
  BY <1>11, <1>12, JoinNil
<1>14. Holds(W, f)'
  <2>1. node'[1] = p
    BY <1>1
  <2> QED
    BY <1>1, <1>10, <1>13, <2>1 DEF Holds
<1>15. Meaning(W, f)'
  BY <1>6, <1>14 DEF Meaning
<1> QED
  BY <1>15

\* The root that Finish returns stands for the node.
LEMMA RootMeaning ==
  ASSUME BuildInv, NEW V, NEW f, Meaning(V, f), AtNode, Finished
  PROVE  Root \in HeldKeys(f) /\ f[Root] = Content(src, keyOf, node[1])
<1> DEFINE r == levels[fin]
<1>1. call = <<>> /\ node # <<>> /\ AtLevel /\ fin = Len(levels) /\ Len(r) = 1
  BY DEF AtNode, Finished, AtLevel
<1>2. AtRun(r) /\ Holds(V, f) /\ HoldsTyped(V, f) /\ f \in [DOMAIN f -> Seq(V)] /\ <<>> \in Seq(V)
  BY <1>1, AtRunFacts DEF Meaning, Holds, Knows, Denotes
<1>3. /\ fin \in 1..Len(levels) /\ leaf = <<>> /\ input = <<>>
      /\ \A j \in 1..(fin - 1) : levels[j] = <<>>
  BY <1>2 DEF AtRun
<1>4. levels \in Seq(Seq(Items(HeldKeys(f)))) /\ levels # <<>>
  <2>1. levels # <<>>
    BY <1>3
  <2> QED
    BY <1>2, <2>1 DEF HoldsTyped
<1>5. AllKids(levels) = Kids(levels[Len(levels)])
  BY <1>1, <1>3, <1>4, AllKidsTop
<1>6. r \in Seq(Items(HeldKeys(f)))
  BY <1>3, <1>4
<1> HIDE DEF r
<1>7. Kids(r) = <<r[1].child>> /\ r[1] \in Items(HeldKeys(f))
  BY <1>1, <1>6, KidsOne
<1>8. Root = r[1].child /\ Root \in HeldKeys(f)
  BY <1>7, ItemFacts DEF Root, r
<1>9. Held = <<Root>> /\ HeldKeys(f) \subseteq DOMAIN f
  BY <1>1, <1>2, <1>5, <1>7, <1>8, HeldType DEF r
<1>10. Flat(f, Held) = f[Root] /\ f[Root] \in Seq(V)
  <2>1. Lists(V, f, <<Root>>)
    BY <1>2, <1>8, <1>9 DEF Lists
  <2> QED
    BY <1>2, <1>8, <1>9, <2>1, FlatOne
<1>11. Pending = <<>>
  <2>1. <<>> # <<NoChunk>>
    OBVIOUS
  <2> QED
    BY <1>2, <1>3, <2>1, JoinNil DEF Pending
<1>12. Join(f[Root], <<>>) = f[Root]
  BY <1>10, JoinNil
<1> QED
  BY <1>2, <1>8, <1>10, <1>11, <1>12 DEF Holds

LEMMA MeaningNode ==
  ASSUME BuildInv, NEW V, NEW f, Meaning(V, f), NodeBuilt
  PROVE  Meaning(V, f)'
<1> DEFINE p == node[1]
           keys == keyOf'
<1>1. /\ AtNode /\ Finished /\ scenario' = scenario /\ src' = src /\ node # <<>> /\ node' = <<>>
      /\ keys = With(keyOf, p, Root)
  BY DEF NodeBuilt, AtNode, Building, src
<1>2. Root \in HeldKeys(f) /\ f[Root] = Content(src, keyOf, p)
  BY <1>1, RootMeaning
<1>3. /\ scenario \in Scenarios /\ p \in Built(src) \ DOMAIN keyOf /\ isDir = IsDirectory(src, p)
      /\ Children(src, p) \cap Built(src) \subseteq DOMAIN keyOf
      /\ DOMAIN keyOf \subseteq Built(src)
  BY <1>1 DEF BuildInv, Typed, NodeTyped
<1>4. Knows(V, f, keyOf)
  BY DEF Meaning
<1>5. /\ DOMAIN keys = DOMAIN keyOf \cup {p} /\ keys[p] = Root
      /\ \A q \in DOMAIN keyOf : keys[q] = keyOf[q]
  <2> HIDE DEF p, keys
  <2> QED
    BY <1>1, <1>3 DEF With
<1>6. IsTree(src) /\ \A q \in Built(src) : q \in Seq(Name)
  BY <1>3, SourceFacts
<1> HIDE DEF p, keys
<1>7. ASSUME NEW q \in Built(src), Children(src, q) \cap Built(src) \subseteq DOMAIN keyOf
      PROVE  Content(src, keys, q) = Content(src, keyOf, q)
  <2>1. \A c \in Children(src, q) \cap Built(src) : keys[c] = keyOf[c]
    BY <1>5, <1>7
  <2> QED
    BY <1>6, <2>1, ContentSame
<1>8. ASSUME NEW q \in DOMAIN keys
      PROVE  /\ keys[q] \in NodeKeys(f, q) /\ f[keys[q]] = Content(src, keys, q)
             /\ Children(src, q) \cap Built(src) \subseteq DOMAIN keys
  <2>1. CASE q = p
    <3>1. Content(src, keys, p) = Content(src, keyOf, p)
      BY <1>3, <1>7
    <3> QED
      BY <1>2, <1>3, <1>5, <2>1, <3>1 DEF NodeKeys, HeldKeys
  <2>2. CASE q \in DOMAIN keyOf
    <3>1. /\ keyOf[q] \in NodeKeys(f, q) /\ f[keyOf[q]] = Content(src, keyOf, q)
          /\ Children(src, q) \cap Built(src) \subseteq DOMAIN keyOf
      BY <1>4, <2>2 DEF Knows
    <3>2. Content(src, keys, q) = Content(src, keyOf, q)
      BY <1>3, <1>7, <2>2, <3>1
    <3> QED
      BY <1>5, <2>2, <3>1, <3>2
  <2> QED
    BY <1>5, <2>1, <2>2
<1>9. Knows(V, f, keys)
  BY <1>4, <1>8 DEF Knows
<1>10. Knows(V, f, keyOf)'
  BY <1>1, <1>9 DEF Knows, NodeKeys, keys
<1> QED
  BY <1>1, <1>10 DEF Meaning

LEMMA MeaningSame ==
  ASSUME MeaningInv, UNCHANGED <<scenario, buildVars, treeVars>>
  PROVE  MeaningInv'
<1>1. UNCHANGED <<scenario, phase, node, input, keyOf, isDir, leaf, levels, call>> /\ src' = src
  BY DEF buildVars, treeVars, src
<1>2. ASSUME NEW V, NEW f, Meaning(V, f) PROVE Meaning(V, f)'
  BY <1>1, <1>2 DEF Meaning, Knows, NodeKeys, Holds, HoldsTyped, HeldKeys, Held, Pending
<1> QED
  BY <1>1, <1>2 DEF MeaningInv

LEMMA MeaningInit ==
  ASSUME Init
  PROVE  MeaningInv
<1>1. phase = "build" /\ node = <<>> /\ keyOf = <<>>
  BY DEF Init
<1> DEFINE f == [k \in {} |-> <<>>]
<1>2. DOMAIN f = {} /\ f \in [DOMAIN f -> Seq(Chunk)]
  OBVIOUS
<1>3. DOMAIN keyOf = {}
  BY <1>1
<1> HIDE DEF f
<1>4. Knows(Chunk, f, keyOf)
  BY <1>2, <1>3 DEF Knows, Denotes
<1>5. Meaning(Chunk, f)
  BY <1>1, <1>4 DEF Meaning
<1> QED
  BY <1>1, <1>5 DEF MeaningInv

LEMMA MeaningStep ==
  ASSUME BuildInv, MeaningInv, [Next]_vars
  PROVE  MeaningInv'
<1>1. CASE UNCHANGED <<scenario, buildVars, treeVars>>
  BY <1>1, MeaningSame
<1>2. CASE StartRestore
  BY <1>2 DEF StartRestore, MeaningInv
<1>3. ASSUME phase = "build" /\ (phase' = "built" => <<>> \in DOMAIN keyOf')
             /\ (\A V, f : Meaning(V, f) => \E W, g : Meaning(W, g)')
      PROVE  MeaningInv'
  BY <1>3 DEF MeaningInv
<1>4. CASE \E p \in Built(src) : StartNode(p)
  <2>1. PICK p \in Built(src) : StartNode(p)
    BY <1>4
  <2>2. phase = "build" /\ phase' = phase
    BY <2>1 DEF StartNode, Building
  <2>3. ASSUME NEW V, NEW f, Meaning(V, f) PROVE \E W, g : Meaning(W, g)'
    BY <2>1, <2>3, MeaningStart
  <2> QED
    BY <1>3, <2>2, <2>3
<1>5. CASE NodeBuilt
  <2>1. phase = "build" /\ (phase' = "built" => <<>> \in DOMAIN keyOf')
    <3>1. phase = "build" /\ keyOf' = With(keyOf, node[1], Root)
          /\ phase' = IF node[1] = <<>> THEN "built" ELSE phase
      BY <1>5 DEF NodeBuilt, AtNode, Building
    <3>2. DOMAIN keyOf' = DOMAIN keyOf \cup {node[1]}
      BY <3>1 DEF With
    <3> QED
      BY <3>1, <3>2
  <2>2. ASSUME NEW V, NEW f, Meaning(V, f) PROVE \E W, g : Meaning(W, g)'
    BY <1>5, <2>2, MeaningNode
  <2> QED
    BY <1>3, <2>1, <2>2
<1>6. CASE SpillXattrs \/ Feed \/ FinishNode \/ BuildStep
  <2>1. phase = "build" /\ phase' = phase /\ AtNode
    BY <1>6 DEF SpillXattrs, Feed, FinishNode, BuildStep, AtNode, Building, buildVars
  <2>2. ASSUME NEW V, NEW f, Meaning(V, f) PROVE \E W, g : Meaning(W, g)'
    <3>1. CASE SpillXattrs
      BY <2>2, <3>1, MeaningSpill
    <3>2. CASE Feed
      <4>1. AtNode /\ input # <<>> /\ input' = Tail(input) /\ UNCHANGED <<node, keyOf>>
        BY <3>2 DEF Feed
      <4>2. CASE isDir /\ AddEntry(input[1])
        BY <2>2, <4>1, <4>2, MeaningEntry
      <4>3. CASE AddChunk(input[1])
        BY <2>2, <4>1, <4>3, MeaningChunk
      <4> QED
        BY <3>2, <4>2, <4>3 DEF Feed
    <3>3. CASE FinishNode
      BY <2>2, <3>3, MeaningFinish
    <3>4. CASE BuildStep
      <4>1. AtNode /\ UNCHANGED buildVars
        BY <3>4 DEF BuildStep
      <4>2. CASE add
        BY <2>2, <4>1, <4>2, MeaningAdd
      <4>3. CASE FinishEmpty \/ FinishSingle \/ FinishRun
        BY <2>2, <4>1, <4>3, MeaningLevel
      <4> QED
        BY <3>4, <4>2, <4>3 DEF BuildStep, BuilderStep
    <3> QED
      BY <1>6, <3>1, <3>2, <3>3, <3>4
  <2> QED
    BY <1>3, <2>1, <2>2
<1> QED
  <2>1. CASE Build
    BY <1>2, <1>4, <1>5, <1>6, <2>1 DEF Build
  <2>2. CASE ~Build
    <3>1. UNCHANGED <<scenario, buildVars, treeVars>>
      BY <2>2 DEF Next, Restore, Done, vars
    <3> QED
      BY <1>1, <3>1
  <2> QED
    BY <2>1, <2>2

\* Every key the build has recorded stands for the content of its node: the entries
\* of a directory in order, the chunks of a file, however the cut points fell.
THEOREM MeaningInvariance == Spec => []MeaningInv
<1>1. Init => BuildInv /\ MeaningInv
  BY BuildInvInit, MeaningInit
<1>2. (BuildInv /\ MeaningInv) /\ [Next]_vars => (BuildInv /\ MeaningInv)'
  BY BuildInvStep, MeaningStep
<1> QED
  BY <1>1, <1>2, PTL DEF Spec

----------------------------------------------------------------------------
(* The invariants of the restore.  The exporter promises to the extractor   *)
(* that the nodes sent grow downwards from the root and that the content of *)
(* the last file follows its header; D is what is still to come of it.      *)

\* The header of a node.
HeaderOf(c) ==
  [unit |-> "header", path |-> c, kind |-> src[c].kind, mode |-> src[c].mode,
   owner |-> src[c].owner, xattrs |-> Xattrs(src[c]),
   data |-> IF src[c].kind = "reg" THEN <<>> ELSE src[c].data,
   size |-> IF src[c].kind = "reg" THEN Len(src[c].data) ELSE 0]

Headed(c) == c \in DOMAIN src /\ src[c].kind # "sock"

DataOf(c) == IF src[c].kind = "reg" THEN src[c].data ELSE <<>>

ChunkUnit(d) == [unit |-> "chunk", chunk |-> d]

Trailer == [unit |-> "trailer"]

EndTask == [task |-> "end"]

FailedTask == [task |-> "failed"]

\* The pipe and the two ends of it.
Units ==
  \/ pipe = <<>>
  \/ \E c : Headed(c) /\ pipe = <<HeaderOf(c)>>
  \/ \E d : d \in Chunk /\ pipe = <<ChunkUnit(d)>>
  \/ pipe = <<Trailer>> /\ work = <<EndTask>>

Ends ==
  /\ euid0 = scenario.as /\ dest = scenario.dest
  /\ closed \in {"open", "eof", "error"} /\ xpc \in {"next", "copy", "dirs", "done"}
  /\ result \in {"none", "ok", "err"} /\ broken \in BOOLEAN /\ left \in Nat
  /\ closed = "eof" => work = <<EndTask>>
  /\ closed = "error" <=> work = <<FailedTask>>
  /\ closed = "error" => broken /\ pipe = <<>>
  /\ xpc = "dirs" => work = <<EndTask>>
  /\ result = "ok" => work = <<EndTask>>
  /\ xpc = "done" <=> result # "none"
  /\ broken /\ result = "none" => closed = "error"

\* Before the restore nothing has happened.
Idle ==
  /\ euid0 = scenario.as /\ dest = scenario.dest
  /\ work = <<>> /\ pipe = <<>> /\ closed = "open" /\ xpc = "next" /\ left = 0 /\ dirs = <<>>
  /\ fs = scenario.pre /\ escaped = {} /\ result = "none" /\ broken = FALSE

\* Whatever else a file has, applyMeta makes it what is expected of node c.
MetaReady(a, c) ==
  /\ IsAttributes(a) /\ a.kind = src[c].kind
  /\ euid0 \/ a.owner = "me"
  /\ a.xattrs \in {"none", Restored(src[c]).xattrs}

IsDirAt(g, p) == p \in DOMAIN g /\ g[p].kind = "dir"

OwnMode(a) == euid0 \/ {"w", "x"} \subseteq a.mode

\* A directory of the tree before and after its metadata is applied.
Merged(a, c) ==
  /\ MetaReady(a, c) /\ a.data = <<>>
  /\ a = Restored(src[c]) \/ OwnMode(a)

\* What is below the destination: files that were there, and nodes of the tree.
\* Directories take new files until the last step.
PlacedAs(g, pc) ==
  /\ DOMAIN scenario.pre \subseteq DOMAIN g /\ DOMAIN g \subseteq DOMAIN scenario.pre \cup DOMAIN src
  /\ \A p \in DOMAIN g : IsAttributes(g[p])
  /\ \A p \in DOMAIN scenario.pre :
       /\ g[p].kind = scenario.pre[p].kind
       /\ scenario.pre[p].kind # "dir" => g[p] = scenario.pre[p]
  /\ \A p \in DOMAIN g \ DOMAIN scenario.pre : g[p].kind = src[p].kind
  /\ \A p \in DOMAIN g : p \notin DOMAIN src \/ ~Restorable(p) =>
       p \in DOMAIN scenario.pre /\ g[p] = scenario.pre[p]
  /\ \A c \in DOMAIN src : src[c].kind = "dir" /\ IsDirAt(g, c) => Merged(g[c], c)
  /\ pc \in {"next", "copy"} => \A p \in DOMAIN g : g[p].kind = "dir" => OwnMode(g[p])

Placed == escaped = {} /\ PlacedAs(fs, xpc)

DirHeaders == {HeaderOf(c) : c \in {p \in DOMAIN src : src[p].kind = "dir"}}

Deferred ==
  /\ dirs \in Seq(DirHeaders)
  /\ \A c \in DOMAIN src : HeaderOf(c) \in ToSet(dirs) => IsDirAt(fs, c)

Copied ==
  xpc = "copy" =>
    \E c \in DOMAIN src :
      member = HeaderOf(c) /\ src[c].kind = "reg" /\ c \in DOMAIN fs \ DOMAIN scenario.pre

ExtractInv == Units /\ Ends /\ Placed /\ Deferred /\ Copied

\* The nodes the extractor has seen, those whose header waits in the pipe excepted.
Seen(sent) == sent \ {c \in sent : pipe = <<HeaderOf(c)>> /\ Headed(c)}

InPipe == IF pipe # <<>> /\ pipe[1].unit = "chunk" THEN <<pipe[1].chunk>> ELSE <<>>

HasHeader == pipe # <<>> /\ pipe[1].unit = "header"

\* What the member being copied still gets.
Owed(D) == IF HasHeader THEN <<>> ELSE Join(InPipe, D)

Sent(sent) ==
  /\ sent \subseteq DOMAIN src
  /\ \A c \in sent : Front(c) = <<>> \/ (Front(c) \in sent /\ Front(c) \in Seen(sent))
  /\ \A c \in DOMAIN src : pipe = <<HeaderOf(c)>> => c \in sent
  /\ \A c \in DOMAIN fs : c \in DOMAIN scenario.pre \/ c \in Seen(sent)
  /\ work = <<EndTask>> => sent = DOMAIN src

Streamed(D) ==
  /\ D \in Seq(Chunk) /\ (xpc = "dirs" => pipe = <<>>)
  /\ HasHeader => D = DataOf(pipe[1].path)
  /\ xpc # "copy" => Owed(D) = <<>>
  /\ xpc = "copy" =>
       LET c == member.path
       IN /\ fs[c] = New("reg", {"w"}, fs[c].data) /\ fs[c].data \in Seq(Chunk)
          /\ Join(fs[c].data, Owed(D)) = src[c].data /\ left = Len(Owed(D))

\* What the extractor has made of a node it has seen.
There(c) ==
  /\ c \in DOMAIN fs
  /\ src[c].kind = "dir" =>
       /\ IsDirAt(fs, c)
       /\ (xpc = "dirs" /\ fs[c] = Restored(src[c])) \/ HeaderOf(c) \in ToSet(dirs)
  /\ src[c].kind # "dir" => fs[c] = Restored(src[c]) \/ (xpc = "copy" /\ member = HeaderOf(c))

Arrived(sent) == \A c \in Seen(sent) : Restorable(c) => There(c)

Live(sent, D) == Sent(sent) /\ Streamed(D) /\ Arrived(sent)

LEMMA Attributes ==
  ASSUME NEW a, IsAttributes(a)
  PROVE  \E k, m, o, x, t, d :
           a = [kind |-> k, mode |-> m, owner |-> o, xattrs |-> x, mtime |-> t, data |-> d]
BY DEF IsAttributes

\* A directory's time changes when something is created in it.
Touched(a) == [a EXCEPT !.mtime = "now"]

LEMMA TouchedFacts ==
  ASSUME NEW a, IsAttributes(a)
  PROVE  /\ IsAttributes(Touched(a)) /\ Touched(a).kind = a.kind /\ Touched(a).mode = a.mode
         /\ Touched(a).owner = a.owner /\ Touched(a).xattrs = a.xattrs /\ Touched(a).data = a.data
<1>1. PICK k, m, o, x, t, d :
        a = [kind |-> k, mode |-> m, owner |-> o, xattrs |-> x, mtime |-> t, data |-> d]
  BY Attributes
<1>2. Touched(a) = [kind |-> k, mode |-> m, owner |-> o, xattrs |-> x, mtime |-> "now", data |-> d]
  BY <1>1 DEF Touched
<1> QED
  BY <1>1, <1>2 DEF IsAttributes

LEMMA WrittenFacts ==
  ASSUME NEW a, IsAttributes(a), NEW c
  PROVE  LET w == [a EXCEPT !.data = c]
         IN /\ IsAttributes(w) /\ w.kind = a.kind /\ w.mode = a.mode /\ w.owner = a.owner
            /\ w.xattrs = a.xattrs /\ w.mtime = a.mtime /\ w.data = c
<1>1. PICK k, m, o, x, t, d :
        a = [kind |-> k, mode |-> m, owner |-> o, xattrs |-> x, mtime |-> t, data |-> d]
  BY Attributes
<1>2. [a EXCEPT !.data = c] =
        [kind |-> k, mode |-> m, owner |-> o, xattrs |-> x, mtime |-> t, data |-> c]
  BY <1>1
<1> QED
  BY <1>1, <1>2 DEF IsAttributes

LEMMA HeaderFields ==
  ASSUME NEW c
  PROVE  /\ HeaderOf(c).unit = "header" /\ HeaderOf(c).path = c /\ HeaderOf(c).kind = src[c].kind
         /\ HeaderOf(c).mode = src[c].mode /\ HeaderOf(c).owner = src[c].owner
         /\ HeaderOf(c).xattrs = Xattrs(src[c])
         /\ HeaderOf(c).data = IF src[c].kind = "reg" THEN <<>> ELSE src[c].data
         /\ HeaderOf(c).size = IF src[c].kind = "reg" THEN Len(src[c].data) ELSE 0
BY DEF HeaderOf

LEMMA RestoredFields ==
  ASSUME NEW a
  PROVE  /\ IsAttributes(Restored(a)) /\ Restored(a).kind = a.kind /\ Restored(a).data = a.data
         /\ Restored(a).mode = (IF a.kind = "symlink" THEN {} ELSE a.mode)
         /\ Restored(a).owner = (IF euid0 THEN a.owner ELSE "me")
         /\ Restored(a).xattrs = (IF euid0 \/ "w" \in a.mode THEN Xattrs(a) ELSE "none")
BY DEF Restored, IsAttributes

\* applyMeta, field by field.
LEMMA MetaFields ==
  ASSUME NEW a, IsAttributes(a), NEW h
  PROVE  applyMeta(a, h) =
           [kind |-> a.kind,
            mode |-> IF h.kind = "symlink" THEN (IF euid0 THEN a.mode \ {"s"} ELSE a.mode) ELSE h.mode,
            owner |-> IF euid0 THEN h.owner ELSE a.owner,
            xattrs |-> IF h.kind # "symlink" /\ h.xattrs # "none" /\ (euid0 \/ "w" \in h.mode)
                       THEN h.xattrs ELSE a.xattrs,
            mtime |-> "src", data |-> a.data]
<1>1. PICK k, m, o, x, t, d :
        a = [kind |-> k, mode |-> m, owner |-> o, xattrs |-> x, mtime |-> t, data |-> d]
  BY Attributes
<1> DEFINE o1 == IF euid0 THEN h.owner ELSE o
           m1 == IF euid0 THEN m \ {"s"} ELSE m
           m2 == IF h.kind = "symlink" THEN m1 ELSE h.mode
           x3 == IF h.kind # "symlink" /\ h.xattrs # "none" /\ (euid0 \/ "w" \in m2)
                 THEN h.xattrs ELSE x
<1>2. chown(a, h) = [kind |-> k, mode |-> m1, owner |-> o1, xattrs |-> x, mtime |-> t, data |-> d]
  BY <1>1 DEF chown
<1> HIDE DEF o1, m1
<1>3. chmod(chown(a, h), h) =
        [kind |-> k, mode |-> m2, owner |-> o1, xattrs |-> x, mtime |-> t, data |-> d]
  BY <1>2 DEF chmod
<1> HIDE DEF m2
<1>4. setXattrs(chmod(chown(a, h), h), h) =
        [kind |-> k, mode |-> m2, owner |-> o1, xattrs |-> x3, mtime |-> t, data |-> d]
  BY <1>3 DEF setXattrs
<1>5. h.kind # "symlink" => m2 = h.mode
  BY DEF m2
<1>6. x3 = IF h.kind # "symlink" /\ h.xattrs # "none" /\ (euid0 \/ "w" \in h.mode)
           THEN h.xattrs ELSE x
  BY <1>5
<1> HIDE DEF x3
<1>7. applyMeta(a, h) =
        [kind |-> k, mode |-> m2, owner |-> o1, xattrs |-> x3, mtime |-> "src", data |-> d]
  BY <1>4 DEF applyMeta, setMtime
<1> QED
  BY <1>1, <1>6, <1>7 DEF o1, m1, m2

LEMMA MetaResult ==
  ASSUME NEW c, NEW a, MetaReady(a, c), a.data = src[c].data, src[c].kind = "symlink" => a.mode = {}
  PROVE  applyMeta(a, HeaderOf(c)) = Restored(src[c])
<1> DEFINE h == HeaderOf(c)
           s == src[c]
<1>1. h.kind = s.kind /\ h.mode = s.mode /\ h.owner = s.owner /\ h.xattrs = Xattrs(s)
  BY HeaderFields
<1>2. IsAttributes(a) /\ a.kind = s.kind /\ (euid0 \/ a.owner = "me")
  BY DEF MetaReady
<1>3. a.xattrs = "none" \/ a.xattrs = Restored(s).xattrs
  BY DEF MetaReady
<1> HIDE DEF h, s
<1>4. Restored(s).xattrs = (IF euid0 \/ "w" \in s.mode THEN Xattrs(s) ELSE "none")
  BY RestoredFields
<1>5. applyMeta(a, h) =
        [kind |-> a.kind,
         mode |-> IF h.kind = "symlink" THEN (IF euid0 THEN a.mode \ {"s"} ELSE a.mode) ELSE h.mode,
         owner |-> IF euid0 THEN h.owner ELSE a.owner,
         xattrs |-> IF h.kind # "symlink" /\ h.xattrs # "none" /\ (euid0 \/ "w" \in h.mode)
                    THEN h.xattrs ELSE a.xattrs,
         mtime |-> "src", data |-> a.data]
  BY <1>2, MetaFields
<1>6. (IF h.kind = "symlink" THEN (IF euid0 THEN a.mode \ {"s"} ELSE a.mode) ELSE h.mode)
        = (IF s.kind = "symlink" THEN {} ELSE s.mode)
  BY <1>1 DEF s
<1>7. (IF euid0 THEN h.owner ELSE a.owner) = (IF euid0 THEN s.owner ELSE "me")
  BY <1>1, <1>2
<1>8. (IF h.kind # "symlink" /\ h.xattrs # "none" /\ (euid0 \/ "w" \in h.mode)
       THEN h.xattrs ELSE a.xattrs) = (IF euid0 \/ "w" \in s.mode THEN Xattrs(s) ELSE "none")
  <2>1. s.kind = "symlink" => Xattrs(s) = "none"
    BY DEF Xattrs
  <2> QED
    BY <1>1, <1>3, <1>4, <2>1
<1>9. a.data = s.data
  BY DEF s
<1> QED
  BY <1>2, <1>5, <1>6, <1>7, <1>8, <1>9 DEF Restored, h, s

LEMMA RestoredReady ==
  ASSUME NEW c
  PROVE  MetaReady(Restored(src[c]), c)
<1>1. /\ IsAttributes(Restored(src[c])) /\ Restored(src[c]).kind = src[c].kind
      /\ Restored(src[c]).owner = (IF euid0 THEN src[c].owner ELSE "me")
  BY RestoredFields
<1> QED
  BY <1>1 DEF MetaReady

LEMMA NewFields ==
  ASSUME NEW k, NEW m, NEW d
  PROVE  /\ IsAttributes(New(k, m, d)) /\ New(k, m, d).kind = k /\ New(k, m, d).mode = m
         /\ New(k, m, d).data = d /\ New(k, m, d).xattrs = "none"
         /\ euid0 \/ New(k, m, d).owner = "me"
BY DEF New, IsAttributes

LEMMA NewReady ==
  ASSUME NEW c, NEW m, NEW d
  PROVE  MetaReady(New(src[c].kind, m, d), c)
<1> DEFINE a == New(src[c].kind, m, d)
<1>1. IsAttributes(a) /\ a.kind = src[c].kind /\ a.xattrs = "none" /\ (euid0 \/ a.owner = "me")
  BY NewFields
<1> HIDE DEF a
<1>2. MetaReady(a, c)
  BY <1>1 DEF MetaReady
<1> QED
  BY <1>2 DEF a

LEMMA MetaAttributes ==
  ASSUME NEW a, IsAttributes(a), NEW h
  PROVE  /\ IsAttributes(applyMeta(a, h)) /\ applyMeta(a, h).kind = a.kind
         /\ applyMeta(a, h).data = a.data
<1>1. \E k, m, o, x, t, d :
        /\ applyMeta(a, h) = [kind |-> k, mode |-> m, owner |-> o, xattrs |-> x, mtime |-> t, data |-> d]
        /\ k = a.kind /\ d = a.data
  BY MetaFields
<1>2. PICK k, m, o, x, t, d :
        /\ applyMeta(a, h) = [kind |-> k, mode |-> m, owner |-> o, xattrs |-> x, mtime |-> t, data |-> d]
        /\ k = a.kind /\ d = a.data
  BY <1>1
<1> DEFINE b == applyMeta(a, h)
<1> HIDE DEF b
<1>3. b = [kind |-> k, mode |-> m, owner |-> o, xattrs |-> x, mtime |-> t, data |-> d]
  BY <1>2 DEF b
<1>4. IsAttributes(b) /\ b.kind = k /\ b.data = d
  BY <1>3 DEF IsAttributes
<1> QED
  BY <1>2, <1>4 DEF b

LEMMA ScenarioFacts ==
  ASSUME scenario \in Scenarios
  PROVE  /\ \A c \in DOMAIN src :
              /\ c \in Seq(Name) /\ c # <<>> /\ src[c].kind \in Kinds
              /\ Front(c) = <<>> \/ (Front(c) \in DOMAIN src /\ src[Front(c)].kind = "dir")
              /\ src[c].kind = "reg" => src[c].data \in Seq(Chunk)
              /\ src[c].kind = "dir" => src[c].data = <<>>
         /\ \A p \in DOMAIN scenario.pre :
              /\ p \in Seq(Name) /\ p # <<>> /\ IsAttributes(scenario.pre[p])
              /\ scenario.pre[p].kind = "dir" => IsOwn(scenario.pre[p], scenario.as)
         /\ scenario.as \in BOOLEAN
<1>1. /\ IsTree(src) /\ IsTree(scenario.pre) /\ scenario.as \in BOOLEAN
      /\ \A c \in DOMAIN src : /\ src[c].kind = "reg" => src[c].data \in Seq(Chunk)
                               /\ src[c].kind = "dir" => src[c].data = <<>>
      /\ \A p \in DOMAIN scenario.pre :
           /\ IsAttributes(scenario.pre[p])
           /\ scenario.pre[p].kind = "dir" => IsOwn(scenario.pre[p], scenario.as)
  BY ScenarioAssumption DEF src
<1>2. /\ \A c \in DOMAIN src : c \in Seq(Name) /\ c # <<>> /\ src[c].kind \in Kinds
      /\ \A p \in DOMAIN scenario.pre : p \in Seq(Name) /\ p # <<>>
  BY <1>1 DEF IsTree, Name
<1>3. ASSUME NEW c \in DOMAIN src
      PROVE  Front(c) = <<>> \/ (Front(c) \in DOMAIN src /\ src[Front(c)].kind = "dir")
  <2>1. c \in Seq(Name) /\ c # <<>>
    BY <1>2
  <2>2. Len(c) > 1 => Front(c) \in DOMAIN src /\ src[Front(c)].kind = "dir"
    BY <1>1 DEF IsTree
  <2>3. Front(c) \in Seq(Name) /\ Len(Front(c)) = Len(c) - 1 /\ Len(c) \in Nat /\ Len(c) # 0
    BY <2>1, PathSplit, EmptySeq
  <2>4. Len(c) = 1 => Front(c) = <<>>
    <3> SUFFICES ASSUME Len(c) = 1 PROVE Front(c) = <<>>
      OBVIOUS
    <3>1. Len(Front(c)) = 0
      BY <2>3
    <3> QED
      BY <2>3, <3>1, EmptySeq
  <2> QED
    BY <2>2, <2>3, <2>4
<1> QED
  BY <1>1, <1>2, <1>3

LEMMA FrontAncestor ==
  ASSUME NEW c \in Seq(Name), c # <<>>, Front(c) # <<>>
  PROVE  Front(c) \in Ancestors(c)
<1>1. Front(c) \in Seq(Name) /\ Len(Front(c)) = Len(c) - 1 /\ Len(c) \in Nat
  BY PathSplit
<1>2. Len(c) - 1 \in 1..(Len(c) - 1)
  BY <1>1, EmptySeq
<1> QED
  BY <1>2 DEF Front, Ancestors

\* What a step does not change.
Still == scenario' = scenario /\ euid0' = euid0 /\ dest' = dest

LEMMA PlacedNext ==
  ASSUME Still, NEW g, g = fs', NEW pc, pc = xpc', escaped' = {}, PlacedAs(g, pc)
  PROVE  Placed'
<1>1. src' = src /\ euid0' = euid0 /\ scenario' = scenario
  BY DEF Still, src
<1>2. PlacedAs(g, pc)'
  BY <1>1 DEF PlacedAs, Merged, MetaReady, OwnMode, IsDirAt, Restored, Restorable
<1> QED
  BY <1>2 DEF Placed, PlacedAs, Merged, MetaReady, OwnMode, IsDirAt, Restored, Restorable

\* The node at c is made or changed; its directory's time may change.
Changed(g, c) ==
  /\ DOMAIN g = DOMAIN fs \cup {c}
  /\ \A p \in DOMAIN fs : p # c =>
       g[p] = fs[p] \/ (p = Front(c) /\ fs[p].kind = "dir" /\ OwnMode(fs[p]) /\ g[p] = Touched(fs[p]))

\* What c may become.
Becomes(a, c, pc) ==
  /\ c \in DOMAIN src /\ Restorable(c) /\ IsAttributes(a) /\ a.kind = src[c].kind
  /\ c \in DOMAIN scenario.pre => src[c].kind = "dir" /\ scenario.pre[c].kind = "dir"
  /\ src[c].kind = "dir" => Merged(a, c)
  /\ pc \in {"next", "copy"} => xpc \in {"next", "copy"} /\ (a.kind = "dir" => OwnMode(a))

LEMMA MergedTouched ==
  ASSUME NEW a, NEW c, Merged(a, c), OwnMode(a)
  PROVE  Merged(Touched(a), c) /\ OwnMode(Touched(a))
<1>1. IsAttributes(a) /\ MetaReady(a, c) /\ a.data = <<>>
  BY DEF Merged, MetaReady
<1> DEFINE b == Touched(a)
<1>2. /\ IsAttributes(b) /\ b.kind = a.kind /\ b.mode = a.mode /\ b.owner = a.owner
      /\ b.xattrs = a.xattrs /\ b.data = a.data
  BY <1>1, TouchedFacts
<1> HIDE DEF b
<1>3. MetaReady(b, c)
  BY <1>1, <1>2 DEF MetaReady
<1>4. OwnMode(b)
  BY <1>2 DEF OwnMode
<1> QED
  BY <1>1, <1>2, <1>3, <1>4 DEF Merged, b

LEMMA PlacedChanged ==
  ASSUME scenario \in Scenarios, PlacedAs(fs, xpc), NEW g, NEW c, Changed(g, c), NEW pc,
         Becomes(g[c], c, pc)
  PROVE  PlacedAs(g, pc)
<1>1. c \in DOMAIN src /\ Restorable(c) /\ DOMAIN g = DOMAIN fs \cup {c}
  BY DEF Becomes, Changed
<1>2. Front(c) \in DOMAIN fs => Front(c) \in DOMAIN src /\ Restorable(Front(c))
  <2> SUFFICES ASSUME Front(c) \in DOMAIN fs
               PROVE  Front(c) \in DOMAIN src /\ Restorable(Front(c))
    OBVIOUS
  <2>1. Front(c) # <<>>
    <3>1. Front(c) \in DOMAIN scenario.pre \cup DOMAIN src
      BY DEF PlacedAs
    <3> QED
      BY <3>1, ScenarioFacts
  <2>2. Front(c) \in DOMAIN src /\ src[Front(c)].kind = "dir"
    BY <1>1, <2>1, ScenarioFacts
  <2> QED
    BY <2>2 DEF Restorable
<1>3. ASSUME NEW p \in DOMAIN fs, p # c
      PROVE  /\ IsAttributes(g[p]) /\ g[p].kind = fs[p].kind
             /\ fs[p].kind # "dir" => g[p] = fs[p]
             /\ OwnMode(fs[p]) => OwnMode(g[p])
             /\ p \notin DOMAIN src \/ ~Restorable(p) => g[p] = fs[p]
             /\ p \in DOMAIN src /\ Merged(fs[p], p) => Merged(g[p], p)
  <2>1. IsAttributes(fs[p])
    BY DEF PlacedAs
  <2>2. CASE g[p] = fs[p]
    BY <2>1, <2>2
  <2>3. CASE p = Front(c) /\ fs[p].kind = "dir" /\ OwnMode(fs[p]) /\ g[p] = Touched(fs[p])
    <3>1. IsAttributes(g[p]) /\ g[p].kind = fs[p].kind /\ g[p].mode = fs[p].mode
      BY <2>1, <2>3, TouchedFacts
    <3>2. OwnMode(g[p])
      BY <2>3, <3>1 DEF OwnMode
    <3>3. Merged(fs[p], p) => Merged(g[p], p)
      BY <2>3, MergedTouched
    <3>4. p \in DOMAIN src /\ Restorable(p)
      BY <1>2, <2>3
    <3> QED
      BY <2>3, <3>1, <3>2, <3>3, <3>4
  <2> QED
    BY <1>3, <2>2, <2>3 DEF Changed
<1>4. DOMAIN scenario.pre \subseteq DOMAIN g /\ DOMAIN g \subseteq DOMAIN scenario.pre \cup DOMAIN src
  BY <1>1 DEF PlacedAs
<1>5. \A p \in DOMAIN g : IsAttributes(g[p])
  BY <1>1, <1>3 DEF Becomes
<1>6. ASSUME NEW p \in DOMAIN scenario.pre
      PROVE  /\ g[p].kind = scenario.pre[p].kind
             /\ scenario.pre[p].kind # "dir" => g[p] = scenario.pre[p]
  <2>1. /\ p \in DOMAIN fs /\ fs[p].kind = scenario.pre[p].kind
        /\ scenario.pre[p].kind # "dir" => fs[p] = scenario.pre[p]
    BY DEF PlacedAs
  <2>2. CASE p = c
    BY <2>2 DEF Becomes
  <2>3. CASE p # c
    BY <1>3, <2>1, <2>3
  <2> QED
    BY <2>2, <2>3
<1>7. ASSUME NEW p \in DOMAIN g \ DOMAIN scenario.pre PROVE g[p].kind = src[p].kind
  <2>1. CASE p = c
    BY <2>1 DEF Becomes
  <2>2. CASE p # c
    <3>1. p \in DOMAIN fs \ DOMAIN scenario.pre
      BY <1>1, <2>2
    <3>2. fs[p].kind = src[p].kind
      BY <3>1 DEF PlacedAs
    <3> QED
      BY <1>3, <2>2, <3>1, <3>2
  <2> QED
    BY <2>1, <2>2
<1>8. ASSUME NEW p \in DOMAIN g, p \notin DOMAIN src \/ ~Restorable(p)
      PROVE  p \in DOMAIN scenario.pre /\ g[p] = scenario.pre[p]
  <2>1. p # c /\ p \in DOMAIN fs
    BY <1>1, <1>8
  <2>2. p \in DOMAIN scenario.pre /\ fs[p] = scenario.pre[p]
    BY <1>8, <2>1 DEF PlacedAs
  <2> QED
    BY <1>3, <1>8, <2>1, <2>2
<1>9. ASSUME NEW q \in DOMAIN src, src[q].kind = "dir" /\ IsDirAt(g, q) PROVE Merged(g[q], q)
  <2>1. CASE q = c
    BY <1>9, <2>1 DEF Becomes
  <2>2. CASE q # c
    <3>1. q \in DOMAIN fs /\ g[q].kind = "dir"
      BY <1>1, <1>9, <2>2 DEF IsDirAt
    <3>2. fs[q].kind = "dir"
      BY <1>3, <2>2, <3>1
    <3>3. Merged(fs[q], q)
      BY <1>9, <3>1, <3>2 DEF PlacedAs, IsDirAt
    <3> QED
      BY <1>3, <2>2, <3>1, <3>3
  <2> QED
    BY <2>1, <2>2
<1>10. ASSUME pc \in {"next", "copy"}, NEW p \in DOMAIN g, g[p].kind = "dir" PROVE OwnMode(g[p])
  <2>1. CASE p = c
    BY <1>10, <2>1 DEF Becomes
  <2>2. CASE p # c
    <3>1. p \in DOMAIN fs /\ xpc \in {"next", "copy"}
      BY <1>1, <1>10, <2>2 DEF Becomes
    <3>2. fs[p].kind = "dir"
      BY <1>3, <1>10, <2>2, <3>1
    <3>3. OwnMode(fs[p])
      BY <3>1, <3>2 DEF PlacedAs
    <3> QED
      BY <1>3, <2>2, <3>1, <3>3
  <2> QED
    BY <2>1, <2>2
<1> QED
  BY <1>4, <1>5, <1>6, <1>7, <1>8, <1>9, <1>10 DEF PlacedAs

LEMMA CreateChanges ==
  ASSUME scenario \in Scenarios, Placed, xpc \in {"next", "copy"}, NEW c \in DOMAIN src,
         ~rejectSymlinkComponents(c), NEW a, Create(c, a)
  PROVE  \E g : g = fs' /\ Changed(g, c) /\ g[c] = a /\ escaped' = {}
<1>1. \A p \in Ancestors(c) \cup {c} : p \in DOMAIN fs => fs[p].kind = "dir"
  BY DEF rejectSymlinkComponents
<1>2. ~\E p \in Ancestors(c) : Exists(p, {"symlink"})
  BY <1>1 DEF Exists
<1>3. PICK g : g = With([p \in DOMAIN fs |-> IF p = Front(c) THEN [fs[p] EXCEPT !.mtime = "now"]
                                             ELSE fs[p]], c, a)
  OBVIOUS
<1>4. fs' = g /\ escaped' = {}
  BY <1>2, <1>3 DEF Create, Placed
<1>5. g[c] = a /\ DOMAIN g = DOMAIN fs \cup {c}
  BY <1>3 DEF With
<1>6. ASSUME NEW p \in DOMAIN fs, p # c
      PROVE  g[p] = fs[p] \/ (p = Front(c) /\ fs[p].kind = "dir" /\ OwnMode(fs[p]) /\ g[p] = Touched(fs[p]))
  <2>1. g[p] = IF p = Front(c) THEN [fs[p] EXCEPT !.mtime = "now"] ELSE fs[p]
    BY <1>3, <1>6 DEF With
  <2>2. ASSUME p = Front(c) PROVE fs[p].kind = "dir" /\ OwnMode(fs[p])
    <3>1. c \in Seq(Name) /\ c # <<>> /\ p # <<>>
      <4>1. p \in DOMAIN scenario.pre \cup DOMAIN src
        BY DEF Placed, PlacedAs
      <4> QED
        BY <4>1, ScenarioFacts
    <3>2. p \in Ancestors(c)
      BY <2>2, <3>1, FrontAncestor
    <3>3. fs[p].kind = "dir"
      BY <1>1, <3>2
    <3> QED
      BY <3>3 DEF Placed, PlacedAs
  <2> QED
    BY <2>1, <2>2 DEF Touched
<1> QED
  BY <1>4, <1>5, <1>6 DEF Changed

LEMMA StillFacts ==
  ASSUME Still
  PROVE  /\ src' = src /\ scenario' = scenario /\ euid0' = euid0 /\ dest' = dest
         /\ DirHeaders' = DirHeaders
         /\ \A c : HeaderOf(c)' = HeaderOf(c) /\ Headed(c)' = Headed(c) /\ DataOf(c)' = DataOf(c)
         /\ \A c : Restorable(c)' = Restorable(c) /\ Restored(src[c])' = Restored(src[c])
         /\ \A k, m, d : New(k, m, d)' = New(k, m, d)
<1>1. src' = src /\ euid0' = euid0 /\ scenario' = scenario /\ dest' = dest
  BY DEF Still, src
<1>2. \A c : HeaderOf(c)' = HeaderOf(c) /\ Headed(c)' = Headed(c) /\ DataOf(c)' = DataOf(c)
  BY <1>1 DEF HeaderOf, Headed, DataOf
<1>3. \A c : Restorable(c)' = Restorable(c) /\ Restored(src[c])' = Restored(src[c])
  BY <1>1 DEF Restorable, Restored
<1>4. \A k, m, d : New(k, m, d)' = New(k, m, d)
  BY <1>1 DEF New
<1>5. DirHeaders' = DirHeaders
  BY <1>1 DEF DirHeaders, HeaderOf
<1> QED
  BY <1>1, <1>2, <1>3, <1>4, <1>5

LEMMA GotFacts ==
  ASSUME Units
  PROVE  /\ Got("header") => \E c : Headed(c) /\ pipe = <<HeaderOf(c)>> /\ pipe[1] = HeaderOf(c)
         /\ Got("chunk") => \E d : d \in Chunk /\ pipe = <<ChunkUnit(d)>> /\ pipe[1].chunk = d
         /\ Got("trailer") => pipe = <<Trailer>> /\ work = <<EndTask>>
<1>1. CASE pipe = <<>>
  BY <1>1 DEF Got
<1>2. ASSUME NEW c, Headed(c), pipe = <<HeaderOf(c)>>
      PROVE  pipe[1] = HeaderOf(c) /\ pipe[1].unit = "header" /\ pipe # <<>>
  BY <1>2, HeaderFields
<1>3. ASSUME NEW d, pipe = <<ChunkUnit(d)>>
      PROVE  pipe[1].chunk = d /\ pipe[1].unit = "chunk" /\ pipe # <<>>
  BY <1>3 DEF ChunkUnit
<1>4. ASSUME pipe = <<Trailer>> PROVE pipe[1].unit = "trailer" /\ pipe # <<>>
  BY <1>4 DEF Trailer
<1>5. Got("header") => \E c : Headed(c) /\ pipe = <<HeaderOf(c)>> /\ pipe[1] = HeaderOf(c)
  BY <1>2, <1>3, <1>4 DEF Units, Got
<1>6. Got("chunk") => \E d : d \in Chunk /\ pipe = <<ChunkUnit(d)>> /\ pipe[1].chunk = d
  BY <1>2, <1>3, <1>4 DEF Units, Got
<1>7. Got("trailer") => pipe = <<Trailer>> /\ work = <<EndTask>>
  BY <1>2, <1>3, <1>4 DEF Units, Got
<1> QED
  BY <1>5, <1>6, <1>7

\* The extractor leaves the exporter alone and at most takes the unit in the pipe.
Reads == Still /\ UNCHANGED exportVars /\ pipe' \in {pipe, <<>>}

LEMMA UnitsRead ==
  ASSUME Units, Reads
  PROVE  Units' /\ work' = work /\ closed' = closed
<1>1. work' = work /\ closed' = closed /\ pipe' \in {pipe, <<>>}
  BY DEF Reads, exportVars
<1>2. \A c : HeaderOf(c)' = HeaderOf(c) /\ Headed(c)' = Headed(c)
  BY StillFacts DEF Reads
<1>3. CASE pipe' = <<>>
  BY <1>1, <1>3 DEF Units
<1>4. CASE pipe' = pipe
  <2>1. CASE pipe = <<>>
    BY <1>4, <2>1, <1>1 DEF Units
  <2>2. ASSUME NEW c, Headed(c), pipe = <<HeaderOf(c)>> PROVE Units'
    BY <1>2, <1>4, <2>2 DEF Units
  <2>3. ASSUME NEW d \in Chunk, pipe = <<ChunkUnit(d)>> PROVE Units'
    BY <1>4, <2>3 DEF Units, ChunkUnit
  <2>4. CASE pipe = <<Trailer>> /\ work = <<EndTask>>
    BY <1>1, <1>4, <2>4 DEF Units, Trailer, EndTask
  <2>5. Units'
    BY <2>1, <2>2, <2>3, <2>4 DEF Units
  <2> QED
    BY <1>1, <2>5
<1> QED
  BY <1>1, <1>3, <1>4

LEMMA PlacedDone ==
  ASSUME Placed, Still, UNCHANGED <<fs, escaped>>, xpc' \in {"next", "copy"} => xpc \in {"next", "copy"}
  PROVE  Placed'
<1>1. PICK g, pc : g = fs' /\ pc = xpc'
  OBVIOUS
<1>2. PlacedAs(g, pc) /\ escaped' = {}
  BY <1>1 DEF Placed, PlacedAs
<1> QED
  BY <1>1, <1>2, PlacedNext

LEMMA DeferredKept ==
  ASSUME Deferred, Still, dirs' = dirs, \A c \in DOMAIN src : IsDirAt(fs, c) => IsDirAt(fs, c)'
  PROVE  Deferred'
<1>1. src' = src /\ DirHeaders' = DirHeaders /\ \A c : HeaderOf(c)' = HeaderOf(c)
  BY StillFacts
<1> QED
  BY <1>1 DEF Deferred

\* The command has failed.
LEMMA ExtractFails ==
  ASSUME ExtractInv, Fails, scenario' = scenario, pipe' = pipe, broken' \in {broken, TRUE}
  PROVE  ExtractInv'
<1>1. /\ result' = "err" /\ xpc' = "done" /\ UNCHANGED <<work, closed, left, dirs, fs, escaped, euid0, dest>>
  BY DEF Fails, exportVars
<1>2. Still /\ Reads
  BY <1>1 DEF Still, Reads, exportVars
<1>3. Units'
  BY <1>2, UnitsRead DEF ExtractInv
<1>4. Ends'
  BY <1>1 DEF ExtractInv, Ends, EndTask, FailedTask
<1>5. Placed'
  BY <1>1, <1>2, PlacedDone DEF ExtractInv
<1>6. Deferred'
  BY <1>1, <1>2, DeferredKept DEF ExtractInv, IsDirAt
<1>7. Copied'
  BY <1>1 DEF Copied
<1> QED
  BY <1>3, <1>4, <1>5, <1>6, <1>7 DEF ExtractInv

\* A change of the node at c.
LEMMA PlacedStep ==
  ASSUME scenario \in Scenarios, Placed, Still, NEW c, NEW g, g = fs', Changed(g, c), escaped' = {},
         NEW pc, pc = xpc', Becomes(g[c], c, pc)
  PROVE  Placed' /\ \A q \in DOMAIN fs : IsDirAt(fs, q) /\ q # c => IsDirAt(fs, q)'
<1>1. PlacedAs(g, pc)
  BY PlacedChanged DEF Placed
<1>2. ASSUME NEW q \in DOMAIN fs, IsDirAt(fs, q), q # c PROVE q \in DOMAIN g /\ g[q].kind = "dir"
  <2>1. IsAttributes(fs[q]) /\ fs[q].kind = "dir"
    BY <1>2 DEF Placed, PlacedAs, IsDirAt
  <2>2. g[q] = fs[q] \/ g[q] = Touched(fs[q])
    BY <1>2 DEF Changed
  <2> QED
    BY <1>2, <2>1, <2>2, TouchedFacts DEF Changed
<1>3. Placed'
  BY <1>1, PlacedNext
<1> QED
  BY <1>2, <1>3 DEF IsDirAt

LEMMA AcceptedFacts ==
  ASSUME ExtractInv, NEW kinds, Accepted(kinds), scenario' = scenario, UNCHANGED <<exportVars, euid0, dest>>
  PROVE  /\ xpc = "next" /\ result = "none" /\ Reads /\ Still /\ pipe' = <<>>
         /\ \E c : /\ Headed(c) /\ c \in DOMAIN src /\ pipe = <<HeaderOf(c)>> /\ pipe[1] = HeaderOf(c)
                   /\ pipe[1].path = c /\ src[c].kind \in kinds /\ pipe[1].kind = src[c].kind
                   /\ ~rejectSymlinkComponents(c)
                   /\ c \in DOMAIN fs => fs[c].kind = "dir"
<1>1. xpc = "next" /\ result = "none" /\ Reads /\ Still /\ pipe' = <<>> /\ Got("header")
  BY DEF Accepted, Got, Reads, Still
<1>2. PICK c : Headed(c) /\ pipe = <<HeaderOf(c)>> /\ pipe[1] = HeaderOf(c)
  BY <1>1, GotFacts DEF ExtractInv
<1>3. pipe[1].path = c /\ pipe[1].kind = src[c].kind
  BY <1>2, HeaderFields
<1>4. src[c].kind \in kinds /\ ~rejectSymlinkComponents(c)
  BY <1>3 DEF Accepted
<1>5. c \in DOMAIN fs => fs[c].kind = "dir"
  BY <1>4 DEF rejectSymlinkComponents
<1> QED
  BY <1>1, <1>2, <1>3, <1>4, <1>5 DEF Headed

LEMMA EndsNext ==
  ASSUME Ends, Reads, UNCHANGED <<result, broken>>, left' \in Nat, xpc' # "done", result = "none",
         xpc' \in {"next", "copy", "dirs"}, closed = "error" => pipe' = <<>>,
         xpc' = "dirs" => work = <<EndTask>>
  PROVE  Ends'
<1>1. /\ work' = work /\ closed' = closed /\ scenario' = scenario /\ euid0' = euid0 /\ dest' = dest
  BY DEF Reads, exportVars, Still
<1> QED
  BY <1>1 DEF Ends, EndTask, FailedTask

\* A directory of the tree is there.
LEMMA DeferOne ==
  ASSUME Deferred, Still, NEW c \in DOMAIN src, src[c].kind = "dir", dirs' = Append(dirs, HeaderOf(c)),
         \A q \in DOMAIN src : IsDirAt(fs, q) \/ q = c => IsDirAt(fs, q)'
  PROVE  Deferred'
<1>1. src' = src /\ DirHeaders' = DirHeaders /\ \A q : HeaderOf(q)' = HeaderOf(q)
  BY StillFacts
<1> DEFINE h == HeaderOf(c)
<1>2. dirs \in Seq(DirHeaders) /\ h \in DirHeaders
  BY DEF Deferred, DirHeaders
<1> HIDE DEF h
<1>3. dirs' \in Seq(DirHeaders) /\ ToSet(dirs') = ToSet(dirs) \cup {h}
  BY <1>2, AppendProperties, ToSetAppend DEF h
<1>4. ASSUME NEW q \in DOMAIN src, HeaderOf(q) \in ToSet(dirs') PROVE IsDirAt(fs, q)'
  <2>1. CASE HeaderOf(q) = h
    <3>1. q = c
      <4>1. HeaderOf(q).path = q /\ HeaderOf(c).path = c
        BY HeaderFields
      <4> QED
        BY <2>1, <4>1 DEF h
    <3> QED
      BY <3>1
  <2>2. CASE HeaderOf(q) \in ToSet(dirs)
    BY <2>2 DEF Deferred
  <2> QED
    BY <1>3, <1>4, <2>1, <2>2
<1> QED
  BY <1>1, <1>3, <1>4 DEF Deferred

LEMMA NewDirMerged ==
  ASSUME NEW c, src[c].kind = "dir"
  PROVE  /\ Merged(New("dir", {"w", "x"}, <<>>), c) /\ OwnMode(New("dir", {"w", "x"}, <<>>))
         /\ IsAttributes(New("dir", {"w", "x"}, <<>>)) /\ New("dir", {"w", "x"}, <<>>).kind = "dir"
<1> DEFINE m == {"w", "x"}
           d == <<>>
           a == New("dir", m, d)
<1>1. IsAttributes(a) /\ a.kind = "dir" /\ a.mode = m /\ a.data = d
  BY NewFields
<1>2. MetaReady(a, c)
  BY NewReady
<1> HIDE DEF a
<1>3. OwnMode(a)
  BY <1>1 DEF OwnMode
<1>4. Merged(a, c)
  BY <1>1, <1>2, <1>3 DEF Merged
<1> QED
  BY <1>1, <1>3, <1>4 DEF a

\* What a header meets: nothing, or a directory.
LEMMA Meets ==
  ASSUME Placed, NEW c \in DOMAIN src, c \notin DOMAIN fs
  PROVE  c \notin DOMAIN scenario.pre
BY DEF Placed, PlacedAs

LEMMA ExtractsDir ==
  ASSUME scenario \in Scenarios, ExtractInv, ExtractDir, scenario' = scenario
  PROVE  ExtractInv'
<1>1. /\ Accepted({"dir"}) /\ Mkdir(pipe[1])
      /\ UNCHANGED <<exportVars, xpc, member, left, result, euid0, dest, broken>>
  BY DEF ExtractDir
<1>2. xpc = "next" /\ result = "none" /\ Reads /\ Still /\ pipe' = <<>>
  BY <1>1, AcceptedFacts
<1>3. PICK c : /\ Headed(c) /\ c \in DOMAIN src /\ pipe = <<HeaderOf(c)>> /\ pipe[1] = HeaderOf(c)
               /\ pipe[1].path = c /\ src[c].kind \in {"dir"} /\ pipe[1].kind = src[c].kind
               /\ ~rejectSymlinkComponents(c) /\ (c \in DOMAIN fs => fs[c].kind = "dir")
  BY <1>1, AcceptedFacts
<1>4. Units' /\ Ends'
  <2>1. left' \in Nat /\ xpc' = "next"
    BY <1>1, <1>2 DEF ExtractInv, Ends
  <2> QED
    BY <1>1, <1>2, <2>1, UnitsRead, EndsNext DEF ExtractInv
<1>5. Copied'
  BY <1>1, <1>2 DEF Copied
<1>6. dirs' = Append(dirs, HeaderOf(c))
  BY <1>1, <1>3 DEF Mkdir
<1>7. CASE c \in DOMAIN fs
  <2>1. fs' = fs /\ escaped' = escaped
    <3>1. Exists(c, {"dir", "symlink"})
      BY <1>3, <1>7 DEF Exists
    <3> QED
      BY <1>1, <1>3, <3>1 DEF Mkdir
  <2>2. Placed'
    BY <1>1, <1>2, <2>1, PlacedDone DEF ExtractInv
  <2>3. Deferred'
    <3>1. \A q \in DOMAIN src : IsDirAt(fs, q) \/ q = c => IsDirAt(fs, q)'
      BY <1>3, <1>7, <2>1 DEF IsDirAt
    <3> QED
      BY <1>2, <1>3, <1>6, <3>1, DeferOne DEF ExtractInv
  <2> QED
    BY <1>4, <1>5, <2>2, <2>3 DEF ExtractInv
<1>8. CASE c \notin DOMAIN fs
  <2> DEFINE a == New("dir", {"w", "x"}, <<>>)
  <2>1. Create(c, a)
    <3>1. ~Exists(c, {"dir", "symlink"})
      BY <1>8 DEF Exists
    <3> QED
      BY <1>1, <1>3, <3>1 DEF Mkdir
  <2>2. Merged(a, c) /\ OwnMode(a) /\ IsAttributes(a) /\ a.kind = "dir"
    BY <1>3, NewDirMerged
  <2> HIDE DEF a
  <2>3. PICK g : g = fs' /\ Changed(g, c) /\ g[c] = a /\ escaped' = {}
    BY <1>2, <1>3, <2>1, CreateChanges DEF ExtractInv
  <2>4. PICK pc : pc = xpc'
    OBVIOUS
  <2>5. Becomes(g[c], c, pc)
    <3>1. c \notin DOMAIN scenario.pre
      BY <1>3, <1>8, Meets DEF ExtractInv
    <3> QED
      BY <1>1, <1>2, <1>3, <2>2, <2>3, <2>4, <3>1 DEF Becomes, Restorable
  <2>6. Placed' /\ \A q \in DOMAIN fs : IsDirAt(fs, q) /\ q # c => IsDirAt(fs, q)'
    BY <1>2, <2>3, <2>4, <2>5, PlacedStep DEF ExtractInv
  <2>7. Deferred'
    <3>1. IsDirAt(fs, c)'
      BY <2>2, <2>3 DEF IsDirAt, Changed
    <3>2. \A q \in DOMAIN src : IsDirAt(fs, q) \/ q = c => IsDirAt(fs, q)'
      BY <2>6, <3>1 DEF IsDirAt
    <3> QED
      BY <1>2, <1>3, <1>6, <3>2, DeferOne DEF ExtractInv
  <2> QED
    BY <1>4, <1>5, <2>6, <2>7 DEF ExtractInv
<1> QED
  BY <1>7, <1>8

\* A node other than a directory is created.
LEMMA PlacedNew ==
  ASSUME scenario \in Scenarios, ExtractInv, Still, xpc = "next", NEW c \in DOMAIN src,
         c \notin DOMAIN fs, ~rejectSymlinkComponents(c), Restorable(c), src[c].kind # "dir",
         NEW a, IsAttributes(a), a.kind = src[c].kind, Create(c, a), dirs' = dirs
  PROVE  /\ Placed' /\ Deferred' /\ c \in DOMAIN fs' /\ c \notin DOMAIN scenario.pre
         /\ \E g : g = fs' /\ Changed(g, c) /\ g[c] = a
<1>1. PICK g : g = fs' /\ Changed(g, c) /\ g[c] = a /\ escaped' = {}
  BY CreateChanges DEF ExtractInv
<1>2. PICK pc : pc = xpc'
  OBVIOUS
<1>3. c \notin DOMAIN scenario.pre
  BY Meets DEF ExtractInv
<1>4. Becomes(g[c], c, pc)
  BY <1>1, <1>3 DEF Becomes
<1>5. Placed' /\ \A q \in DOMAIN fs : IsDirAt(fs, q) /\ q # c => IsDirAt(fs, q)'
  BY <1>1, <1>2, <1>4, PlacedStep DEF ExtractInv
<1>6. \A q \in DOMAIN src : IsDirAt(fs, q) => IsDirAt(fs, q)'
  BY <1>5 DEF IsDirAt
<1>7. Deferred'
  BY <1>6, DeferredKept DEF ExtractInv
<1> QED
  BY <1>1, <1>3, <1>5, <1>7 DEF Changed

LEMMA ExtractsReg ==
  ASSUME scenario \in Scenarios, ExtractInv, ExtractReg, scenario' = scenario
  PROVE  ExtractInv'
<1>1. /\ Accepted({"reg"}) /\ pipe[1].path \notin DOMAIN fs
      /\ Create(pipe[1].path, New("reg", {"w"}, <<>>))
      /\ xpc' = "copy" /\ member' = pipe[1] /\ left' = pipe[1].size
      /\ UNCHANGED <<exportVars, dirs, result, euid0, dest, broken>>
  BY DEF ExtractReg
<1>2. xpc = "next" /\ result = "none" /\ Reads /\ Still /\ pipe' = <<>>
  BY <1>1, AcceptedFacts
<1>3. PICK c : /\ Headed(c) /\ c \in DOMAIN src /\ pipe = <<HeaderOf(c)>> /\ pipe[1] = HeaderOf(c)
               /\ pipe[1].path = c /\ src[c].kind \in {"reg"} /\ pipe[1].kind = src[c].kind
               /\ ~rejectSymlinkComponents(c) /\ (c \in DOMAIN fs => fs[c].kind = "dir")
  BY <1>1, AcceptedFacts
<1>4. left' \in Nat
  <2>1. pipe[1].size = Len(src[c].data) /\ src[c].data \in Seq(Chunk)
    BY <1>3, HeaderFields, ScenarioFacts
  <2> QED
    BY <1>1, <2>1
<1>5. Units' /\ Ends'
  BY <1>1, <1>2, <1>4, UnitsRead, EndsNext DEF ExtractInv
<1> DEFINE a == New("reg", {"w"}, <<>>)
<1>6. IsAttributes(a) /\ a.kind = "reg"
  BY NewFields
<1>7. Create(c, a) /\ c \notin DOMAIN fs /\ Restorable(c)
  BY <1>1, <1>3 DEF Restorable
<1> HIDE DEF a
<1>8. Placed' /\ Deferred' /\ c \in DOMAIN fs' /\ c \notin DOMAIN scenario.pre
  BY <1>1, <1>2, <1>3, <1>6, <1>7, PlacedNew
<1>9. Copied'
  <2>1. src' = src /\ scenario' = scenario /\ HeaderOf(c)' = HeaderOf(c)
    BY <1>2, StillFacts
  <2> QED
    BY <1>1, <1>3, <1>8, <2>1 DEF Copied
<1> QED
  BY <1>5, <1>8, <1>9 DEF ExtractInv

LEMMA ExtractsSpecial ==
  ASSUME scenario \in Scenarios, ExtractInv, ExtractSpecial, scenario' = scenario
  PROVE  ExtractInv'
<1> DEFINE kinds == {"symlink", "fifo", "dev"}
<1>1. /\ Accepted(kinds) /\ pipe[1].path \notin DOMAIN fs
      /\ IF pipe[1].kind = "dev" /\ ~euid0
         THEN UNCHANGED <<fs, escaped>>
         ELSE Create(pipe[1].path, applyMeta(New(pipe[1].kind, {}, pipe[1].data), pipe[1]))
      /\ UNCHANGED <<exportVars, xpc, member, left, dirs, result, euid0, dest, broken>>
  BY DEF ExtractSpecial
<1>2. xpc = "next" /\ result = "none" /\ Reads /\ Still /\ pipe' = <<>>
  BY <1>1, AcceptedFacts
<1>3. PICK c : /\ Headed(c) /\ c \in DOMAIN src /\ pipe = <<HeaderOf(c)>> /\ pipe[1] = HeaderOf(c)
               /\ pipe[1].path = c /\ src[c].kind \in kinds /\ pipe[1].kind = src[c].kind
               /\ ~rejectSymlinkComponents(c) /\ (c \in DOMAIN fs => fs[c].kind = "dir")
  BY <1>1, AcceptedFacts
<1>4. Units' /\ Ends'
  <2>1. left' \in Nat /\ xpc' = "next"
    BY <1>1, <1>2 DEF ExtractInv, Ends
  <2> QED
    BY <1>1, <1>2, <2>1, UnitsRead, EndsNext DEF ExtractInv
<1>5. Copied'
  BY <1>1, <1>2 DEF Copied
<1>6. CASE src[c].kind = "dev" /\ ~euid0
  <2>1. fs' = fs /\ escaped' = escaped
    BY <1>1, <1>3, <1>6
  <2>2. Placed' /\ Deferred'
    BY <1>1, <1>2, <2>1, PlacedDone, DeferredKept DEF ExtractInv, IsDirAt
  <2> QED
    BY <1>4, <1>5, <2>2 DEF ExtractInv
<1>7. CASE ~(src[c].kind = "dev" /\ ~euid0)
  <2> DEFINE b == New(src[c].kind, {}, pipe[1].data)
             a == applyMeta(b, HeaderOf(c))
  <2>1. Create(c, a) /\ c \notin DOMAIN fs /\ Restorable(c)
    BY <1>1, <1>3, <1>7 DEF Restorable
  <2>2. IsAttributes(b) /\ b.kind = src[c].kind
    BY NewFields
  <2> HIDE DEF b
  <2>3. IsAttributes(a) /\ a.kind = src[c].kind
    BY <2>2, MetaAttributes
  <2> HIDE DEF a
  <2>4. Placed' /\ Deferred'
    BY <1>1, <1>2, <1>3, <2>1, <2>3, PlacedNew
  <2> QED
    BY <1>4, <1>5, <2>4 DEF ExtractInv
<1> QED
  BY <1>6, <1>7

\* The file being copied changes.
LEMMA MemberChanges ==
  ASSUME scenario \in Scenarios, ExtractInv, Still, xpc = "copy", xpc' \in {"next", "copy"},
         NEW c \in DOMAIN src, src[c].kind = "reg", c \in DOMAIN fs \ DOMAIN scenario.pre,
         NEW a, IsAttributes(a), a.kind = "reg", fs' = [fs EXCEPT ![c] = a], escaped' = escaped,
         dirs' = dirs
  PROVE  Placed' /\ Deferred' /\ \E g : g = fs' /\ Changed(g, c) /\ g[c] = a
<1>1. PICK g, pc : g = fs' /\ pc = xpc'
  OBVIOUS
<1>2. Changed(g, c) /\ g[c] = a
  BY <1>1 DEF Changed
<1>3. Becomes(g[c], c, pc)
  BY <1>1, <1>2 DEF Becomes, Restorable
<1>4. Placed' /\ \A q \in DOMAIN fs : IsDirAt(fs, q) /\ q # c => IsDirAt(fs, q)'
  BY <1>1, <1>2, <1>3, PlacedStep DEF ExtractInv, Placed
<1>5. ~IsDirAt(fs, c)
  BY DEF IsDirAt, ExtractInv, Placed, PlacedAs
<1>6. \A q \in DOMAIN src : IsDirAt(fs, q) => IsDirAt(fs, q)'
  BY <1>4, <1>5 DEF IsDirAt
<1>7. Deferred'
  BY <1>6, DeferredKept DEF ExtractInv
<1> QED
  BY <1>1, <1>2, <1>4, <1>7

LEMMA MemberFacts ==
  ASSUME ExtractInv, xpc = "copy"
  PROVE  \E c \in DOMAIN src :
           /\ member = HeaderOf(c) /\ member.path = c /\ src[c].kind = "reg"
           /\ c \in DOMAIN fs \ DOMAIN scenario.pre /\ IsAttributes(fs[c]) /\ fs[c].kind = "reg"
<1>1. PICK c \in DOMAIN src :
        member = HeaderOf(c) /\ src[c].kind = "reg" /\ c \in DOMAIN fs \ DOMAIN scenario.pre
  BY DEF ExtractInv, Copied
<1>2. member.path = c
  BY <1>1, HeaderFields
<1>3. IsAttributes(fs[c]) /\ fs[c].kind = "reg"
  BY <1>1 DEF ExtractInv, Placed, PlacedAs
<1> QED
  BY <1>1, <1>2, <1>3

LEMMA CopiedKept ==
  ASSUME Copied, xpc = "copy", Still, member' = member, DOMAIN fs' = DOMAIN fs
  PROVE  Copied'
<1>1. src' = src /\ scenario' = scenario /\ \A c : HeaderOf(c)' = HeaderOf(c)
  BY StillFacts
<1> QED
  BY <1>1 DEF Copied

LEMMA CopiesChunk ==
  ASSUME scenario \in Scenarios, ExtractInv, CopyChunk, scenario' = scenario
  PROVE  ExtractInv'
<1>1. /\ xpc = "copy" /\ left > 0 /\ Got("chunk") /\ pipe' = <<>> /\ left' = left - 1
      /\ fs' = IF member.path \in DOMAIN fs
               THEN [fs EXCEPT ![member.path].data = Append(@, pipe[1].chunk)] ELSE fs
      /\ UNCHANGED <<exportVars, xpc, member, dirs, escaped, result, euid0, dest, broken>>
  BY DEF CopyChunk
<1>2. Still /\ Reads /\ result = "none" /\ left \in Nat /\ left' \in Nat
  BY <1>1 DEF Still, Reads, Got, ExtractInv, Ends
<1>3. PICK c \in DOMAIN src :
        /\ member = HeaderOf(c) /\ member.path = c /\ src[c].kind = "reg"
        /\ c \in DOMAIN fs \ DOMAIN scenario.pre /\ IsAttributes(fs[c]) /\ fs[c].kind = "reg"
  BY <1>1, MemberFacts
<1> DEFINE d == Append(fs[c].data, pipe[1].chunk)
           a == [fs[c] EXCEPT !.data = d]
<1>4. fs' = [fs EXCEPT ![c] = a]
  BY <1>1, <1>3
<1> HIDE DEF d
<1>5. IsAttributes(a) /\ a.kind = "reg"
  BY <1>3, WrittenFacts
<1> HIDE DEF a
<1>6. Placed' /\ Deferred'
  BY <1>1, <1>2, <1>3, <1>4, <1>5, MemberChanges
<1>7. Units' /\ Ends'
  BY <1>1, <1>2, UnitsRead, EndsNext DEF ExtractInv
<1>8. Copied'
  BY <1>1, <1>2, <1>4, CopiedKept DEF ExtractInv
<1> QED
  BY <1>6, <1>7, <1>8 DEF ExtractInv

LEMMA FileFinished ==
  ASSUME scenario \in Scenarios, ExtractInv, FileMeta, scenario' = scenario
  PROVE  ExtractInv'
<1>1. /\ xpc = "copy" /\ result = "none" /\ xpc' = "next"
      /\ fs' = IF member.path \in DOMAIN fs
               THEN [fs EXCEPT ![member.path] = applyMeta(@, member)] ELSE fs
      /\ UNCHANGED <<exportVars, pipe, member, left, dirs, escaped, result, euid0, dest, broken>>
  BY DEF FileMeta
<1>2. Still /\ Reads /\ left' \in Nat /\ (closed = "error" => pipe = <<>>)
  BY <1>1 DEF Still, Reads, ExtractInv, Ends
<1>3. PICK c \in DOMAIN src :
        /\ member = HeaderOf(c) /\ member.path = c /\ src[c].kind = "reg"
        /\ c \in DOMAIN fs \ DOMAIN scenario.pre /\ IsAttributes(fs[c]) /\ fs[c].kind = "reg"
  BY <1>1, MemberFacts
<1> DEFINE a == applyMeta(fs[c], member)
<1>4. fs' = [fs EXCEPT ![c] = a]
  BY <1>1, <1>3
<1>5. IsAttributes(a) /\ a.kind = "reg"
  BY <1>3, MetaAttributes
<1> HIDE DEF a
<1>6. Placed' /\ Deferred'
  BY <1>1, <1>2, <1>3, <1>4, <1>5, MemberChanges
<1>7. Units' /\ Ends'
  BY <1>1, <1>2, UnitsRead, EndsNext DEF ExtractInv
<1>8. Copied'
  BY <1>1 DEF Copied
<1> QED
  BY <1>6, <1>7, <1>8 DEF ExtractInv

LEMMA StreamEnds ==
  ASSUME ExtractInv, ExtractEOF, scenario' = scenario
  PROVE  ExtractInv'
<1>1. /\ xpc = "next" /\ result = "none" /\ xpc' = "dirs" /\ pipe' = <<>>
      /\ Got("trailer") \/ (pipe = <<>> /\ closed = "eof")
      /\ UNCHANGED <<exportVars, member, left, dirs, fs, escaped, result, euid0, dest, broken>>
  BY DEF ExtractEOF
<1>2. Still /\ Reads /\ left' \in Nat
  BY <1>1 DEF Still, Reads, ExtractInv, Ends
<1>3. work = <<EndTask>>
  BY <1>1, GotFacts DEF ExtractInv, Ends
<1>4. Units' /\ Ends'
  BY <1>1, <1>2, <1>3, UnitsRead, EndsNext DEF ExtractInv
<1>5. Placed' /\ Deferred'
  BY <1>1, <1>2, PlacedDone, DeferredKept DEF ExtractInv, IsDirAt
<1>6. Copied'
  BY <1>1 DEF Copied
<1> QED
  BY <1>4, <1>5, <1>6 DEF ExtractInv

\* The first directory whose metadata is due.
LEMMA DueFacts ==
  ASSUME scenario \in Scenarios, ExtractInv, dirs # <<>>
  PROVE  \E c \in DOMAIN src :
           /\ dirs[1] = HeaderOf(c) /\ dirs[1].path = c /\ src[c].kind = "dir"
           /\ IsDirAt(fs, c) /\ Merged(fs[c], c)
           /\ applyMeta(fs[c], dirs[1]) = Restored(src[c])
           /\ Tail(dirs) \in Seq(DirHeaders) /\ ToSet(dirs) = ToSet(Tail(dirs)) \cup {HeaderOf(c)}
<1>1. dirs \in Seq(DirHeaders)
  BY DEF ExtractInv, Deferred
<1>2. /\ dirs[1] \in DirHeaders /\ Tail(dirs) \in Seq(DirHeaders) /\ Len(dirs) \in Nat /\ Len(dirs) > 0
      /\ Len(Tail(dirs)) = Len(dirs) - 1 /\ \A i \in 1..Len(Tail(dirs)) : Tail(dirs)[i] = dirs[i + 1]
  BY <1>1, HeadTailProperties, EmptySeq
<1>3. PICK c \in DOMAIN src : dirs[1] = HeaderOf(c) /\ src[c].kind = "dir"
  BY <1>2 DEF DirHeaders
<1>4. dirs[1].path = c
  BY <1>3, HeaderFields
<1>5. ToSet(dirs) = ToSet(Tail(dirs)) \cup {HeaderOf(c)}
  <2> DEFINE t == Tail(dirs)
  <2>1. ToSet(dirs) = {dirs[i] : i \in 1..Len(dirs)} /\ ToSet(t) = {t[i] : i \in 1..Len(t)}
    BY <1>1, <1>2, ToSetSeq
  <2>2. Len(t) = Len(dirs) - 1 /\ \A i \in 1..Len(t) : t[i] = dirs[i + 1]
    BY <1>2
  <2> HIDE DEF t
  <2>3. ASSUME NEW x \in ToSet(dirs) PROVE x \in ToSet(t) \cup {HeaderOf(c)}
    <3>1. PICK i \in 1..Len(dirs) : x = dirs[i]
      BY <2>1, <2>3
    <3>2. CASE i = 1
      BY <1>3, <3>1, <3>2
    <3>3. CASE i # 1
      <4>1. i - 1 \in 1..Len(t) /\ (i - 1) + 1 = i
        BY <1>2, <2>2, <3>1, <3>3
      <4>2. t[i - 1] = x
        BY <2>2, <3>1, <4>1
      <4> QED
        BY <2>1, <4>1, <4>2
    <3> QED
      BY <3>2, <3>3
  <2>4. ASSUME NEW x \in ToSet(t) PROVE x \in ToSet(dirs)
    <3>1. PICK i \in 1..Len(t) : x = t[i]
      BY <2>1, <2>4
    <3>2. i + 1 \in 1..Len(dirs) /\ x = dirs[i + 1]
      BY <1>2, <2>2, <3>1
    <3> QED
      BY <2>1, <3>2
  <2>5. HeaderOf(c) \in ToSet(dirs)
    <3>1. 1 \in 1..Len(dirs)
      BY <1>2
    <3> QED
      BY <1>3, <2>1, <3>1
  <2> QED
    BY <2>3, <2>4, <2>5 DEF t
<1>6. IsDirAt(fs, c)
  BY <1>5 DEF ExtractInv, Deferred
<1>7. Merged(fs[c], c)
  BY <1>3, <1>6 DEF ExtractInv, Placed, PlacedAs
<1>8. applyMeta(fs[c], HeaderOf(c)) = Restored(src[c])
  <2>1. fs[c].data = src[c].data
    BY <1>3, <1>7, ScenarioFacts DEF Merged
  <2> QED
    BY <1>3, <1>7, <2>1, MetaResult DEF Merged
<1> QED
  BY <1>2, <1>3, <1>4, <1>5, <1>6, <1>7, <1>8

LEMMA DirFinished ==
  ASSUME scenario \in Scenarios, ExtractInv, DirMeta, scenario' = scenario
  PROVE  ExtractInv'
<1>1. /\ xpc = "dirs" /\ dirs # <<>> /\ dirs' = Tail(dirs)
      /\ fs' = [fs EXCEPT ![dirs[1].path] = applyMeta(@, dirs[1])]
      /\ UNCHANGED <<exportVars, pipe, xpc, member, left, escaped, result, euid0, dest, broken>>
  BY DEF DirMeta
<1>2. Still /\ Reads /\ left' \in Nat /\ (closed = "error" => pipe = <<>>) /\ result = "none"
      /\ work = <<EndTask>>
  BY <1>1 DEF Still, Reads, ExtractInv, Ends
<1>3. PICK c \in DOMAIN src :
        /\ dirs[1] = HeaderOf(c) /\ dirs[1].path = c /\ src[c].kind = "dir"
        /\ IsDirAt(fs, c) /\ Merged(fs[c], c)
        /\ applyMeta(fs[c], dirs[1]) = Restored(src[c])
        /\ Tail(dirs) \in Seq(DirHeaders) /\ ToSet(dirs) = ToSet(Tail(dirs)) \cup {HeaderOf(c)}
  BY <1>1, DueFacts
<1> DEFINE a == Restored(src[c])
<1>4. fs' = [fs EXCEPT ![c] = a] /\ c \in DOMAIN fs /\ fs[c].kind = "dir"
  BY <1>1, <1>3 DEF IsDirAt
<1>5. IsAttributes(a) /\ a.kind = "dir" /\ a.data = <<>> /\ MetaReady(a, c)
  BY <1>3, RestoredFields, RestoredReady, ScenarioFacts
<1>6. Merged(a, c)
  BY <1>5 DEF Merged
<1> HIDE DEF a
<1>7. PICK g, pc : g = fs' /\ pc = xpc'
  OBVIOUS
<1>8. Changed(g, c) /\ g[c] = a
  BY <1>4, <1>7 DEF Changed
<1>9. Becomes(g[c], c, pc)
  <2>1. c \in DOMAIN scenario.pre => scenario.pre[c].kind = "dir"
    BY <1>4 DEF ExtractInv, Placed, PlacedAs
  <2> QED
    BY <1>1, <1>3, <1>5, <1>6, <1>7, <1>8, <2>1 DEF Becomes, Restorable
<1>10. Placed' /\ \A q \in DOMAIN fs : IsDirAt(fs, q) /\ q # c => IsDirAt(fs, q)'
  BY <1>1, <1>2, <1>7, <1>8, <1>9, PlacedStep DEF ExtractInv, Placed
<1>11. IsDirAt(fs, c)'
  BY <1>5, <1>7, <1>8 DEF IsDirAt, Changed
<1>12. Deferred'
  <2>1. src' = src /\ DirHeaders' = DirHeaders /\ \A q : HeaderOf(q)' = HeaderOf(q)
    BY <1>2, StillFacts
  <2>2. \A q \in DOMAIN src : IsDirAt(fs, q) => IsDirAt(fs, q)'
    BY <1>10, <1>11 DEF IsDirAt
  <2> QED
    BY <1>1, <1>3, <2>1, <2>2 DEF ExtractInv, Deferred
<1>13. Units' /\ Ends'
  BY <1>1, <1>2, UnitsRead, EndsNext DEF ExtractInv
<1>14. Copied'
  BY <1>1 DEF Copied
<1> QED
  BY <1>10, <1>12, <1>13, <1>14 DEF ExtractInv

LEMMA CommandReturns ==
  ASSUME ExtractInv, ExtractReturns, scenario' = scenario
  PROVE  ExtractInv'
<1>1. /\ xpc = "dirs" /\ result' = "ok" /\ xpc' = "done"
      /\ UNCHANGED <<exportVars, pipe, member, left, dirs, fs, escaped, euid0, dest, broken>>
  BY DEF ExtractReturns
<1>2. Still /\ Reads /\ work = <<EndTask>> /\ work' = work /\ closed' = closed
  BY <1>1 DEF Still, Reads, exportVars, ExtractInv, Ends
<1>3. Units'
  BY <1>2, UnitsRead DEF ExtractInv
<1>4. Ends'
  BY <1>1, <1>2 DEF ExtractInv, Ends, EndTask, FailedTask
<1>5. Placed' /\ Deferred'
  BY <1>1, <1>2, PlacedDone, DeferredKept DEF ExtractInv, IsDirAt
<1>6. Copied'
  BY <1>1 DEF Copied
<1> QED
  BY <1>3, <1>4, <1>5, <1>6 DEF ExtractInv

LEMMA ExtractStep ==
  ASSUME scenario \in Scenarios, ExtractInv, Extract \/ CallFails, scenario' = scenario
  PROVE  ExtractInv'
<1>1. CASE Refuse \/ CreateFails \/ ReadFails \/ DirMetaFails \/ CallFails
  <2>1. Fails /\ pipe' = pipe /\ broken' \in {broken, TRUE}
    BY <1>1 DEF Refuse, CreateFails, ReadFails, DirMetaFails, CallFails
  <2> QED
    BY <2>1, ExtractFails
<1>2. CASE ExtractDir
  BY <1>2, ExtractsDir
<1>3. CASE ExtractReg
  BY <1>3, ExtractsReg
<1>4. CASE CopyChunk
  BY <1>4, CopiesChunk
<1>5. CASE FileMeta
  BY <1>5, FileFinished
<1>6. CASE ExtractSpecial
  BY <1>6, ExtractsSpecial
<1>7. CASE ExtractEOF
  BY <1>7, StreamEnds
<1>8. CASE DirMeta
  BY <1>8, DirFinished
<1>9. CASE ExtractReturns
  BY <1>9, CommandReturns
<1> QED
  BY <1>1, <1>2, <1>3, <1>4, <1>5, <1>6, <1>7, <1>8, <1>9 DEF Extract

LEMMA HeaderInjective ==
  ASSUME NEW c, NEW d, HeaderOf(c) = HeaderOf(d)
  PROVE  c = d
<1>1. HeaderOf(c).path = c /\ HeaderOf(d).path = d
  BY HeaderFields
<1> QED
  BY <1>1

\* What the pipe holds, now and after a step.
LEMMA PipeNow ==
  ASSUME NEW sent, NEW D
  PROVE  /\ pipe = <<>> => ~HasHeader /\ Owed(D) = Join(<<>>, D) /\ Seen(sent) = sent
         /\ \A c : Headed(c) /\ pipe = <<HeaderOf(c)>> =>
              HasHeader /\ pipe[1].path = c /\ Owed(D) = <<>> /\ Seen(sent) = sent \ {c}
         /\ \A d : pipe = <<ChunkUnit(d)>> => ~HasHeader /\ Owed(D) = Join(<<d>>, D) /\ Seen(sent) = sent
         /\ pipe = <<Trailer>> => ~HasHeader /\ Owed(D) = Join(<<>>, D) /\ Seen(sent) = sent
<1>1. ASSUME pipe = <<>> PROVE ~HasHeader /\ Owed(D) = Join(<<>>, D) /\ Seen(sent) = sent
  BY <1>1 DEF HasHeader, Owed, InPipe, Seen
<1>2. ASSUME NEW c, Headed(c), pipe = <<HeaderOf(c)>>
      PROVE  HasHeader /\ pipe[1].path = c /\ Owed(D) = <<>> /\ Seen(sent) = sent \ {c}
  <2>1. pipe[1] = HeaderOf(c) /\ pipe # <<>>
    BY <1>2
  <2>2. HasHeader /\ pipe[1].path = c
    BY <2>1, HeaderFields DEF HasHeader
  <2>3. \A x : pipe = <<HeaderOf(x)>> => x = c
    BY <2>1, HeaderInjective
  <2>4. Seen(sent) = sent \ {c}
    BY <1>2, <2>3 DEF Seen
  <2> QED
    BY <2>2, <2>4 DEF Owed
<1>3. ASSUME NEW d, pipe = <<ChunkUnit(d)>>
      PROVE  ~HasHeader /\ Owed(D) = Join(<<d>>, D) /\ Seen(sent) = sent
  <2>1. pipe # <<>> /\ pipe[1].unit = "chunk" /\ pipe[1].chunk = d
    BY <1>3 DEF ChunkUnit
  <2>2. \A x : pipe # <<HeaderOf(x)>>
    BY <2>1, HeaderFields
  <2> QED
    BY <2>1, <2>2 DEF HasHeader, Owed, InPipe, Seen
<1>4. ASSUME pipe = <<Trailer>> PROVE ~HasHeader /\ Owed(D) = Join(<<>>, D) /\ Seen(sent) = sent
  <2>1. pipe # <<>> /\ pipe[1].unit = "trailer"
    BY <1>4 DEF Trailer
  <2>2. \A x : pipe # <<HeaderOf(x)>>
    BY <2>1, HeaderFields
  <2> QED
    BY <2>1, <2>2 DEF HasHeader, Owed, InPipe, Seen
<1> QED
  BY <1>1, <1>2, <1>3, <1>4

LEMMA PipeNext ==
  ASSUME Still, NEW sent, NEW D
  PROVE  /\ pipe' = <<>> => ~HasHeader' /\ Owed(D)' = Join(<<>>, D) /\ Seen(sent)' = sent
         /\ \A c : Headed(c) /\ pipe' = <<HeaderOf(c)>> =>
              HasHeader' /\ pipe'[1].path = c /\ Owed(D)' = <<>> /\ Seen(sent)' = sent \ {c}
         /\ \A d : pipe' = <<ChunkUnit(d)>> => ~HasHeader' /\ Owed(D)' = Join(<<d>>, D) /\ Seen(sent)' = sent
         /\ pipe' = <<Trailer>> => ~HasHeader' /\ Owed(D)' = Join(<<>>, D) /\ Seen(sent)' = sent
         /\ pipe' = pipe => HasHeader' = HasHeader /\ Owed(D)' = Owed(D) /\ Seen(sent)' = Seen(sent)
<1>0. \A c : HeaderOf(c)' = HeaderOf(c) /\ Headed(c)' = Headed(c)
  BY StillFacts
<1>1. ASSUME pipe' = <<>> PROVE ~HasHeader' /\ Owed(D)' = Join(<<>>, D) /\ Seen(sent)' = sent
  BY <1>1 DEF HasHeader, Owed, InPipe, Seen
<1>2. ASSUME NEW c, Headed(c), pipe' = <<HeaderOf(c)>>
      PROVE  HasHeader' /\ pipe'[1].path = c /\ Owed(D)' = <<>> /\ Seen(sent)' = sent \ {c}
  <2>1. pipe'[1] = HeaderOf(c) /\ pipe' # <<>>
    BY <1>2
  <2>2. HasHeader' /\ pipe'[1].path = c
    BY <2>1, HeaderFields DEF HasHeader
  <2>3. \A x : pipe' = <<HeaderOf(x)>> => x = c
    BY <2>1, HeaderInjective
  <2>4. Seen(sent)' = sent \ {c}
    BY <1>0, <1>2, <2>3 DEF Seen
  <2> QED
    BY <2>2, <2>4 DEF Owed
<1>3. ASSUME NEW d, pipe' = <<ChunkUnit(d)>>
      PROVE  ~HasHeader' /\ Owed(D)' = Join(<<d>>, D) /\ Seen(sent)' = sent
  <2>1. pipe' # <<>> /\ pipe'[1].unit = "chunk" /\ pipe'[1].chunk = d
    BY <1>3 DEF ChunkUnit
  <2>2. \A x : pipe' # <<HeaderOf(x)>>
    BY <2>1, HeaderFields
  <2> QED
    BY <1>0, <2>1, <2>2 DEF HasHeader, Owed, InPipe, Seen
<1>4. ASSUME pipe' = <<Trailer>> PROVE ~HasHeader' /\ Owed(D)' = Join(<<>>, D) /\ Seen(sent)' = sent
  <2>1. pipe' # <<>> /\ pipe'[1].unit = "trailer"
    BY <1>4 DEF Trailer
  <2>2. \A x : pipe' # <<HeaderOf(x)>>
    BY <2>1, HeaderFields
  <2> QED
    BY <1>0, <2>1, <2>2 DEF HasHeader, Owed, InPipe, Seen
<1>5. ASSUME pipe' = pipe PROVE HasHeader' = HasHeader /\ Owed(D)' = Owed(D) /\ Seen(sent)' = Seen(sent)
  BY <1>0, <1>5 DEF HasHeader, Owed, InPipe, Seen
<1> QED
  BY <1>1, <1>2, <1>3, <1>4, <1>5

LEMMA SentKept ==
  ASSUME NEW sent, Sent(sent), Reads, \A c \in DOMAIN fs' : c \in DOMAIN fs \/ c \in Seen(sent)'
  PROVE  Sent(sent)' /\ Seen(sent) \subseteq Seen(sent)'
<1>1. Still /\ work' = work /\ pipe' \in {pipe, <<>>}
  BY DEF Reads, exportVars
<1>2. /\ src' = src /\ scenario' = scenario /\ \A c : HeaderOf(c)' = HeaderOf(c)
  BY <1>1, StillFacts
<1>3. Seen(sent) \subseteq Seen(sent)'
  BY <1>1, PipeNext DEF Seen
<1>4. ASSUME NEW c \in sent PROVE Front(c) = <<>> \/ (Front(c) \in sent /\ Front(c) \in Seen(sent)')
  BY <1>3 DEF Sent
<1>5. ASSUME NEW c \in DOMAIN src, pipe' = <<HeaderOf(c)>> PROVE c \in sent
  BY <1>1, <1>5 DEF Sent
<1>6. ASSUME NEW c \in DOMAIN fs' PROVE c \in DOMAIN scenario.pre \/ c \in Seen(sent)'
  BY <1>3 DEF Sent
<1>7. work' = <<EndTask>> => sent = DOMAIN src
  BY <1>1 DEF Sent
<1> QED
  BY <1>2, <1>3, <1>4, <1>5, <1>6, <1>7 DEF Sent, EndTask

LEMMA ArrivedMore ==
  ASSUME NEW sent, Arrived(sent), Still, NEW c, Seen(sent)' \subseteq Seen(sent) \cup {c},
         \A q \in Seen(sent) : q # c /\ There(q) => There(q)',
         Restorable(c) => There(c)'
  PROVE  Arrived(sent)'
<1>1. \A q : Restorable(q)' = Restorable(q)
  BY StillFacts
<1> QED
  BY <1>1 DEF Arrived

\* A node stays there when another one is created.
LEMMA ThereKept ==
  ASSUME ExtractInv, Still, xpc = "next", NEW c, NEW g, g = fs', Changed(g, c),
         NEW q, q # c, There(q), HeaderOf(q) \in ToSet(dirs) => HeaderOf(q) \in ToSet(dirs')
  PROVE  There(q)'
<1>1. src' = src /\ HeaderOf(q)' = HeaderOf(q) /\ Restored(src[q])' = Restored(src[q])
  BY StillFacts
<1>2. q \in DOMAIN fs /\ q \in DOMAIN g /\ IsAttributes(fs[q])
  BY DEF There, Changed, ExtractInv, Placed, PlacedAs
<1>3. g[q] = fs[q] \/ (fs[q].kind = "dir" /\ g[q] = Touched(fs[q]))
  BY <1>2 DEF Changed
<1>4. CASE src[q].kind = "dir"
  <2>1. fs[q].kind = "dir" /\ HeaderOf(q) \in ToSet(dirs')
    BY <1>4 DEF There, IsDirAt
  <2>2. g[q].kind = "dir"
    BY <1>2, <1>3, <2>1, TouchedFacts
  <2> QED
    BY <1>1, <1>2, <1>4, <2>1, <2>2 DEF There, IsDirAt
<1>5. CASE src[q].kind # "dir"
  <2>1. fs[q] = Restored(src[q])
    BY <1>5 DEF There
  <2>2. fs[q].kind # "dir"
    BY <1>5, <2>1, RestoredFields
  <2> QED
    BY <1>1, <1>2, <1>3, <1>5, <2>1, <2>2 DEF There
<1> QED
  BY <1>4, <1>5

LEMMA ThereSame ==
  ASSUME Still, NEW q, There(q), q \in DOMAIN fs', fs'[q] = fs[q],
         xpc = "dirs" => xpc' = "dirs", xpc = "copy" => xpc' = "copy" /\ member' = member,
         HeaderOf(q) \in ToSet(dirs) => HeaderOf(q) \in ToSet(dirs')
  PROVE  There(q)'
<1>1. src' = src /\ HeaderOf(q)' = HeaderOf(q) /\ Restored(src[q])' = Restored(src[q])
  BY StillFacts
<1> QED
  BY <1>1 DEF There, IsDirAt

\* The header of c is taken from the pipe.
Taken(c) ==
  /\ Headed(c) /\ c \in DOMAIN src /\ pipe = <<HeaderOf(c)>> /\ pipe' = <<>> /\ Reads /\ Still
  /\ xpc = "next"

LEMMA TakenFacts ==
  ASSUME NEW sent, NEW D, Live(sent, D), NEW c, Taken(c)
  PROVE  /\ c \in sent /\ D = DataOf(c) /\ D \in Seq(Chunk) /\ Owed(D)' = D
         /\ Seen(sent)' = sent /\ Seen(sent) = sent \ {c} /\ ~HasHeader'
<1>1. /\ Headed(c) /\ c \in DOMAIN src /\ pipe = <<HeaderOf(c)>> /\ pipe' = <<>> /\ Still
  BY DEF Taken
<1>2. HasHeader /\ pipe[1].path = c /\ Seen(sent) = sent \ {c}
  BY <1>1, PipeNow
<1>3. D = DataOf(c) /\ D \in Seq(Chunk) /\ c \in sent
  BY <1>1, <1>2 DEF Live, Streamed, Sent
<1>4. ~HasHeader' /\ Owed(D)' = Join(<<>>, D) /\ Seen(sent)' = sent
  BY <1>1, PipeNext
<1>5. Join(<<>>, D) = D
  BY <1>3, JoinNil
<1> QED
  BY <1>2, <1>3, <1>4, <1>5

\* A header that no content follows.
LEMMA StreamedTaken ==
  ASSUME NEW sent, NEW D, Live(sent, D), NEW c, Taken(c), src[c].kind # "reg", xpc' = "next"
  PROVE  Streamed(D)'
<1>1. D = DataOf(c) /\ D \in Seq(Chunk) /\ Owed(D)' = D /\ ~HasHeader'
  BY TakenFacts
<1>2. D = <<>>
  BY <1>1 DEF DataOf
<1> QED
  BY <1>1, <1>2 DEF Streamed

LEMMA TakenLive ==
  ASSUME scenario \in Scenarios, ExtractInv, NEW sent, NEW D, Live(sent, D), NEW c, Taken(c),
         NEW g, g = fs', g = fs \/ Changed(g, c), xpc' \in {"next", "copy"},
         \A q : HeaderOf(q) \in ToSet(dirs) => HeaderOf(q) \in ToSet(dirs'),
         Restorable(c) => There(c)', Streamed(D)'
  PROVE  Live(sent, D)'
<1>1. xpc = "next" /\ Reads /\ Still
  BY DEF Taken
<1>2. c \in sent /\ Seen(sent)' = sent /\ Seen(sent) = sent \ {c}
  BY TakenFacts
<1>3. Sent(sent)'
  <2>1. \A q \in DOMAIN fs' : q \in DOMAIN fs \/ q \in Seen(sent)'
    BY <1>2 DEF Changed
  <2> QED
    BY <1>1, <2>1, SentKept DEF Live
<1>4. ASSUME NEW q \in Seen(sent), q # c /\ There(q) PROVE There(q)'
  <2>1. CASE Changed(g, c)
    BY <1>1, <1>4, <2>1, ThereKept
  <2>2. CASE g = fs
    <3>1. q \in DOMAIN fs
      BY <1>4 DEF There
    <3> QED
      BY <1>1, <1>4, <2>2, <3>1, ThereSame
  <2> QED
    BY <2>1, <2>2
<1>5. Seen(sent)' \subseteq Seen(sent) \cup {c}
  BY <1>2
<1>6. Arrived(sent)'
  BY <1>1, <1>4, <1>5, ArrivedMore DEF Live
<1> QED
  BY <1>3, <1>6 DEF Live

LEMMA LiveDir ==
  ASSUME scenario \in Scenarios, ExtractInv, NEW sent, NEW D, Live(sent, D), ExtractDir, scenario' = scenario
  PROVE  Live(sent, D)'
<1>1. /\ Accepted({"dir"}) /\ Mkdir(pipe[1])
      /\ UNCHANGED <<exportVars, xpc, member, left, result, euid0, dest, broken>>
  BY DEF ExtractDir
<1>2. xpc = "next" /\ xpc' = "next" /\ Reads /\ Still /\ pipe' = <<>>
  BY <1>1, AcceptedFacts
<1>3. PICK c : /\ Headed(c) /\ c \in DOMAIN src /\ pipe = <<HeaderOf(c)>> /\ pipe[1] = HeaderOf(c)
               /\ pipe[1].path = c /\ src[c].kind \in {"dir"} /\ pipe[1].kind = src[c].kind
               /\ ~rejectSymlinkComponents(c) /\ (c \in DOMAIN fs => fs[c].kind = "dir")
  BY <1>1, AcceptedFacts
<1>4. Taken(c)
  BY <1>2, <1>3 DEF Taken
<1>5. dirs' = Append(dirs, HeaderOf(c)) /\ dirs \in Seq(DirHeaders)
  BY <1>1, <1>3 DEF Mkdir, ExtractInv, Deferred
<1>6. ToSet(dirs') = ToSet(dirs) \cup {HeaderOf(c)}
  <2>1. HeaderOf(c) \in DirHeaders
    BY <1>3 DEF DirHeaders
  <2> QED
    BY <1>5, <2>1, ToSetAppend
<1>7. ExtractInv'
  BY ExtractsDir
<1>8. IsDirAt(fs, c)'
  <2>1. src' = src /\ HeaderOf(c)' = HeaderOf(c)
    BY <1>2, StillFacts
  <2> QED
    BY <1>3, <1>6, <1>7, <2>1 DEF ExtractInv, Deferred
<1>9. There(c)'
  <2>1. src' = src /\ HeaderOf(c)' = HeaderOf(c)
    BY <1>2, StillFacts
  <2> QED
    BY <1>3, <1>6, <1>8, <2>1 DEF There, IsDirAt
<1>10. PICK g : g = fs'
  OBVIOUS
<1>11. g = fs \/ Changed(g, c)
  <2>1. CASE c \in DOMAIN fs
    <3>1. Exists(c, {"dir", "symlink"})
      BY <1>3, <2>1 DEF Exists
    <3> QED
      BY <1>1, <1>3, <1>10, <3>1 DEF Mkdir
  <2>2. CASE c \notin DOMAIN fs
    <3>1. ~Exists(c, {"dir", "symlink"})
      BY <2>2 DEF Exists
    <3> DEFINE a == New("dir", {"w", "x"}, <<>>)
    <3>2. Create(c, a)
      BY <1>1, <1>3, <3>1 DEF Mkdir
    <3> HIDE DEF a
    <3>3. \E h : h = fs' /\ Changed(h, c) /\ h[c] = a /\ escaped' = {}
      BY <1>2, <1>3, <3>2, CreateChanges DEF ExtractInv
    <3> QED
      BY <1>10, <3>3
  <2> QED
    BY <2>1, <2>2
<1>12. Streamed(D)'
  BY <1>2, <1>3, <1>4, StreamedTaken
<1>13. \A q : HeaderOf(q) \in ToSet(dirs) => HeaderOf(q) \in ToSet(dirs')
  BY <1>6
<1> QED
  BY <1>2, <1>4, <1>9, <1>10, <1>11, <1>12, <1>13, TakenLive

LEMMA CopyNext ==
  ASSUME Still, NEW D \in Seq(Chunk), NEW c, xpc' = "copy", member' = HeaderOf(c),
         NEW e \in Seq(Chunk), NEW g, g = fs', g[c] = New("reg", {"w"}, e),
         ~HasHeader', Owed(D)' = D, Join(e, D) = src[c].data, left' = Len(D)
  PROVE  Streamed(D)'
<1>1. /\ src' = src /\ member'.path = c /\ HeaderOf(c)' = HeaderOf(c)
      /\ \A k, m, d : New(k, m, d)' = New(k, m, d)
  BY StillFacts, HeaderFields
<1>2. g[c].data = e
  BY NewFields
<1>3. g[c] = New("reg", {"w"}, g[c].data)
  BY <1>2
<1>4. (fs[c] = New("reg", {"w"}, fs[c].data))'
  <2>1. PICK d : d = fs'[c].data
    OBVIOUS
  <2>2. New("reg", {"w"}, d)' = New("reg", {"w"}, d)
    BY <1>1
  <2> QED
    BY <1>3, <2>1, <2>2 DEF New
<1> QED
  BY <1>1, <1>2, <1>4 DEF Streamed

LEMMA LiveReg ==
  ASSUME scenario \in Scenarios, ExtractInv, NEW sent, NEW D, Live(sent, D), ExtractReg, scenario' = scenario
  PROVE  Live(sent, D)'
<1>1. /\ Accepted({"reg"}) /\ pipe[1].path \notin DOMAIN fs
      /\ Create(pipe[1].path, New("reg", {"w"}, <<>>))
      /\ xpc' = "copy" /\ member' = pipe[1] /\ left' = pipe[1].size
      /\ UNCHANGED <<exportVars, dirs, result, euid0, dest, broken>>
  BY DEF ExtractReg
<1>2. xpc = "next" /\ Reads /\ Still /\ pipe' = <<>>
  BY <1>1, AcceptedFacts
<1>3. PICK c : /\ Headed(c) /\ c \in DOMAIN src /\ pipe = <<HeaderOf(c)>> /\ pipe[1] = HeaderOf(c)
               /\ pipe[1].path = c /\ src[c].kind \in {"reg"} /\ pipe[1].kind = src[c].kind
               /\ ~rejectSymlinkComponents(c) /\ (c \in DOMAIN fs => fs[c].kind = "dir")
  BY <1>1, AcceptedFacts
<1>4. Taken(c)
  BY <1>2, <1>3 DEF Taken
<1>5. /\ D = DataOf(c) /\ D \in Seq(Chunk) /\ Owed(D)' = D /\ ~HasHeader'
  BY <1>4, TakenFacts
<1>6. D = src[c].data /\ pipe[1].size = Len(D)
  BY <1>3, <1>5, HeaderFields DEF DataOf
<1> DEFINE a == New("reg", {"w"}, <<>>)
<1>7. PICK g : g = fs' /\ Changed(g, c) /\ g[c] = a
  <2>1. Create(c, a)
    BY <1>1, <1>3
  <2> HIDE DEF a
  <2> QED
    BY <1>2, <1>3, <2>1, CreateChanges DEF ExtractInv
<1>8. src' = src /\ HeaderOf(c)' = HeaderOf(c) /\ member' = HeaderOf(c) /\ member'.path = c
      /\ \A k, m, d : New(k, m, d)' = New(k, m, d)
  BY <1>1, <1>2, <1>3, StillFacts
<1>9. Streamed(D)'
  <2>1. Join(<<>>, D) = src[c].data /\ <<>> \in Seq(Chunk)
    BY <1>5, <1>6, JoinNil
  <2> QED
    BY <1>1, <1>2, <1>5, <1>6, <1>7, <1>8, <2>1, CopyNext
<1>10. There(c)'
  BY <1>1, <1>3, <1>7, <1>8 DEF There, Changed
<1> QED
  BY <1>1, <1>4, <1>7, <1>9, <1>10, TakenLive

LEMMA LiveSpecial ==
  ASSUME scenario \in Scenarios, ExtractInv, NEW sent, NEW D, Live(sent, D), ExtractSpecial, scenario' = scenario
  PROVE  Live(sent, D)'
<1> DEFINE kinds == {"symlink", "fifo", "dev"}
<1>1. /\ Accepted(kinds) /\ pipe[1].path \notin DOMAIN fs
      /\ IF pipe[1].kind = "dev" /\ ~euid0
         THEN UNCHANGED <<fs, escaped>>
         ELSE Create(pipe[1].path, applyMeta(New(pipe[1].kind, {}, pipe[1].data), pipe[1]))
      /\ UNCHANGED <<exportVars, xpc, member, left, dirs, result, euid0, dest, broken>>
  BY DEF ExtractSpecial
<1>2. xpc = "next" /\ xpc' = "next" /\ Reads /\ Still /\ pipe' = <<>>
  BY <1>1, AcceptedFacts
<1>3. PICK c : /\ Headed(c) /\ c \in DOMAIN src /\ pipe = <<HeaderOf(c)>> /\ pipe[1] = HeaderOf(c)
               /\ pipe[1].path = c /\ src[c].kind \in kinds /\ pipe[1].kind = src[c].kind
               /\ ~rejectSymlinkComponents(c) /\ (c \in DOMAIN fs => fs[c].kind = "dir")
  BY <1>1, AcceptedFacts
<1>4. Taken(c)
  BY <1>2, <1>3 DEF Taken
<1>5. Streamed(D)'
  BY <1>2, <1>3, <1>4, StreamedTaken
<1>6. CASE src[c].kind = "dev" /\ ~euid0
  <2>1. PICK g : g = fs' /\ g = fs
    BY <1>1, <1>3, <1>6
  <2>2. ~Restorable(c)
    BY <1>6 DEF Restorable
  <2> QED
    BY <1>1, <1>2, <1>4, <1>5, <2>1, <2>2, TakenLive
<1>7. CASE ~(src[c].kind = "dev" /\ ~euid0)
  <2> DEFINE m == {}
             b == New(src[c].kind, m, src[c].data)
             a == Restored(src[c])
  <2>1. MetaReady(b, c) /\ b.data = src[c].data /\ b.mode = m
    BY NewFields, NewReady
  <2>2. HeaderOf(c).data = src[c].data
    BY <1>3, HeaderFields
  <2>3. Create(c, applyMeta(b, HeaderOf(c)))
    BY <1>1, <1>3, <1>7, <2>2
  <2> HIDE DEF b
  <2>4. applyMeta(b, HeaderOf(c)) = a
    BY <2>1, MetaResult
  <2>5. Create(c, a)
    BY <2>3, <2>4
  <2>6. PICK g : g = fs' /\ Changed(g, c) /\ g[c] = a
    <3> HIDE DEF a
    <3> QED
      BY <1>2, <1>3, <2>5, CreateChanges DEF ExtractInv
  <2>7. src' = src /\ Restored(src[c])' = Restored(src[c])
    BY <1>2, StillFacts
  <2>8. There(c)'
    BY <1>3, <2>6, <2>7 DEF There, Changed
  <2> QED
    BY <1>1, <1>2, <1>4, <1>5, <2>6, <2>8, TakenLive
<1> QED
  BY <1>6, <1>7

LEMMA NewWritten ==
  ASSUME NEW k, NEW m, NEW d, NEW e
  PROVE  [New(k, m, d) EXCEPT !.data = e] = New(k, m, e)
BY DEF New

LEMMA JoinOne ==
  ASSUME NEW S, NEW s \in Seq(S), NEW x \in S, NEW t \in Seq(S)
  PROVE  /\ Append(s, x) \in Seq(S) /\ Join(Append(s, x), t) = Join(s, Join(<<x>>, t))
         /\ Len(Join(<<x>>, t)) = Len(t) + 1 /\ Len(t) \in Nat
<1>1. Append(s, x) \in Seq(S) /\ <<x>> \in Seq(S) /\ Len(<<x>>) = 1 /\ Len(t) \in Nat
  BY AppendProperties
<1>2. Append(s, x) = Join(s, <<x>>)
  BY AppendIsConcat DEF Join
<1>3. Join(Join(s, <<x>>), t) = Join(s, Join(<<x>>, t))
  <2> DEFINE a == <<x>>
  <2>1. a \in Seq(S)
    BY <1>1
  <2> HIDE DEF a
  <2>2. Join(Join(s, a), t) = Join(s, Join(a, t))
    BY <2>1, JoinAssoc
  <2> QED
    BY <2>2 DEF a
<1>4. Len(Join(<<x>>, t)) = Len(<<x>>) + Len(t)
  BY <1>1, JoinType
<1> QED
  BY <1>1, <1>2, <1>3, <1>4

\* The file being copied, while nothing has failed.
LEMMA CopyFacts ==
  ASSUME ExtractInv, NEW D, Streamed(D), xpc = "copy"
  PROVE  \E c \in DOMAIN src :
           /\ member = HeaderOf(c) /\ member.path = c /\ src[c].kind = "reg"
           /\ c \in DOMAIN fs \ DOMAIN scenario.pre
           /\ fs[c] = New("reg", {"w"}, fs[c].data) /\ fs[c].data \in Seq(Chunk)
           /\ Join(fs[c].data, Owed(D)) = src[c].data /\ left = Len(Owed(D))
<1>1. PICK c \in DOMAIN src :
        /\ member = HeaderOf(c) /\ member.path = c /\ src[c].kind = "reg"
        /\ c \in DOMAIN fs \ DOMAIN scenario.pre
  BY MemberFacts
<1> QED
  BY <1>1 DEF Streamed

LEMMA LiveChunk ==
  ASSUME scenario \in Scenarios, ExtractInv, NEW sent, NEW D, Live(sent, D), CopyChunk, scenario' = scenario
  PROVE  Live(sent, D)'
<1>1. /\ xpc = "copy" /\ Got("chunk") /\ pipe' = <<>> /\ left' = left - 1
      /\ fs' = IF member.path \in DOMAIN fs
               THEN [fs EXCEPT ![member.path].data = Append(@, pipe[1].chunk)] ELSE fs
      /\ UNCHANGED <<exportVars, xpc, member, dirs, escaped, result, euid0, dest, broken>>
  BY DEF CopyChunk
<1>2. Still /\ Reads
  BY <1>1 DEF Still, Reads
<1>3. PICK c \in DOMAIN src :
        /\ member = HeaderOf(c) /\ member.path = c /\ src[c].kind = "reg"
        /\ c \in DOMAIN fs \ DOMAIN scenario.pre
        /\ fs[c] = New("reg", {"w"}, fs[c].data) /\ fs[c].data \in Seq(Chunk)
        /\ Join(fs[c].data, Owed(D)) = src[c].data /\ left = Len(Owed(D))
  BY <1>1, CopyFacts DEF Live
<1>4. PICK d : d \in Chunk /\ pipe = <<ChunkUnit(d)>> /\ pipe[1].chunk = d
  BY <1>1, GotFacts DEF ExtractInv
<1>5. D \in Seq(Chunk) /\ Owed(D) = Join(<<d>>, D) /\ Owed(D)' = D /\ ~HasHeader'
      /\ Seen(sent)' = sent /\ Seen(sent) = sent
  <2>1. Owed(D) = Join(<<d>>, D) /\ Seen(sent) = sent
    BY <1>4, PipeNow
  <2>2. Owed(D)' = Join(<<>>, D) /\ ~HasHeader' /\ Seen(sent)' = sent
    BY <1>1, <1>2, PipeNext
  <2>3. D \in Seq(Chunk)
    BY DEF Live, Streamed
  <2> QED
    BY <2>1, <2>2, <2>3, JoinNil
<1>6. PICK e, n, g : e = fs[c].data /\ n = Append(e, d) /\ g = fs'
  OBVIOUS
<1>7. /\ n \in Seq(Chunk) /\ Join(n, D) = Join(e, Join(<<d>>, D))
      /\ Len(Join(<<d>>, D)) = Len(D) + 1 /\ Len(D) \in Nat
  <2>1. e \in Seq(Chunk) /\ d \in Chunk /\ D \in Seq(Chunk)
    BY <1>3, <1>4, <1>5, <1>6
  <2> QED
    BY <1>6, <2>1, JoinOne
<1>8. g = [fs EXCEPT ![c] = [fs[c] EXCEPT !.data = n]]
  BY <1>1, <1>3, <1>4, <1>6
<1>9. [fs[c] EXCEPT !.data = n] = New("reg", {"w"}, n)
  <2>1. [New("reg", {"w"}, e) EXCEPT !.data = n] = New("reg", {"w"}, n)
    BY NewWritten
  <2> QED
    BY <1>3, <1>6, <2>1
<1>10. /\ g[c] = New("reg", {"w"}, n) /\ DOMAIN g = DOMAIN fs
       /\ \A q \in DOMAIN fs : q # c => g[q] = fs[q]
  BY <1>3, <1>8, <1>9
<1>11. src' = src /\ HeaderOf(c)' = HeaderOf(c) /\ member' = HeaderOf(c)
  BY <1>1, <1>2, <1>3, StillFacts
<1>12. Join(n, D) = src[c].data
  BY <1>3, <1>5, <1>6, <1>7
<1>13. left' = Len(D)
  BY <1>1, <1>3, <1>5, <1>7
<1>14. Streamed(D)'
  <2>1. /\ Still /\ D \in Seq(Chunk) /\ xpc' = "copy" /\ member' = HeaderOf(c) /\ n \in Seq(Chunk)
        /\ g = fs' /\ g[c] = New("reg", {"w"}, n) /\ ~HasHeader' /\ Owed(D)' = D
        /\ Join(n, D) = src[c].data /\ left' = Len(D)
    BY <1>1, <1>2, <1>5, <1>6, <1>7, <1>10, <1>11, <1>12, <1>13
  <2> QED
    BY <2>1, CopyNext
<1>15. Sent(sent)'
  BY <1>2, <1>6, <1>10, SentKept DEF Live
<1>16. There(c)'
  BY <1>1, <1>3, <1>6, <1>10, <1>11 DEF There
<1>17. ASSUME NEW q \in Seen(sent), q # c /\ There(q) PROVE There(q)'
  <2>1. q \in DOMAIN fs' /\ fs'[q] = fs[q]
    BY <1>6, <1>10, <1>17 DEF There
  <2> QED
    BY <1>1, <1>2, <1>17, <2>1, ThereSame
<1>18. Seen(sent)' \subseteq Seen(sent) \cup {c}
  BY <1>5
<1>19. Arrived(sent)'
  BY <1>2, <1>16, <1>17, <1>18, ArrivedMore DEF Live
<1> QED
  BY <1>14, <1>15, <1>19 DEF Live

\* The metadata of a complete file.
LEMMA LiveFile ==
  ASSUME scenario \in Scenarios, ExtractInv, NEW sent, NEW D, Live(sent, D), FileMeta, scenario' = scenario
  PROVE  Live(sent, D)'
<1>1. /\ xpc = "copy" /\ left = 0 /\ xpc' = "next"
      /\ fs' = IF member.path \in DOMAIN fs
               THEN [fs EXCEPT ![member.path] = applyMeta(@, member)] ELSE fs
      /\ UNCHANGED <<exportVars, pipe, member, left, dirs, escaped, result, euid0, dest, broken>>
  BY DEF FileMeta
<1>2. Still /\ Reads
  BY <1>1 DEF Still, Reads
<1>3. PICK c \in DOMAIN src :
        /\ member = HeaderOf(c) /\ member.path = c /\ src[c].kind = "reg"
        /\ c \in DOMAIN fs \ DOMAIN scenario.pre
        /\ fs[c] = New("reg", {"w"}, fs[c].data) /\ fs[c].data \in Seq(Chunk)
        /\ Join(fs[c].data, Owed(D)) = src[c].data /\ left = Len(Owed(D))
  BY <1>1, CopyFacts DEF Live
<1>4. D \in Seq(Chunk) /\ HasHeader' = HasHeader /\ Owed(D)' = Owed(D) /\ Seen(sent)' = Seen(sent)
      /\ \A q : DataOf(q)' = DataOf(q)
  BY <1>1, <1>2, PipeNext, StillFacts DEF Live, Streamed
<1>5. Owed(D) = <<>>
  <2>1. Owed(D) \in Seq(Chunk)
    <3>1. Units
      BY DEF ExtractInv
    <3>2. CASE HasHeader
      BY <3>2 DEF Owed
    <3>3. CASE ~HasHeader
      <4>1. InPipe \in Seq(Chunk)
        <5>1. ASSUME NEW d \in Chunk, pipe = <<ChunkUnit(d)>> PROVE InPipe = <<d>>
          BY <5>1 DEF InPipe, ChunkUnit
        <5>2. ASSUME NEW d \in Chunk PROVE <<d>> \in Seq(Chunk)
          OBVIOUS
        <5>3. ASSUME \A d \in Chunk : pipe # <<ChunkUnit(d)>> PROVE InPipe = <<>>
          BY <3>1, <5>3, HeaderFields DEF InPipe, Units, Trailer
        <5>4. <<>> \in Seq(Chunk)
          OBVIOUS
        <5> QED
          BY <5>1, <5>2, <5>3, <5>4
      <4>2. Owed(D) = Join(InPipe, D)
        BY <3>3 DEF Owed
      <4> QED
        BY <1>4, <4>1, <4>2, JoinType
    <3> QED
      BY <3>2, <3>3
  <2> QED
    BY <1>1, <1>3, <2>1, EmptySeq
<1>6. fs[c].data = src[c].data
  <2>1. Join(fs[c].data, <<>>) = fs[c].data
    BY <1>3, JoinNil
  <2> QED
    BY <1>3, <1>5, <2>1
<1>7. applyMeta(fs[c], HeaderOf(c)) = Restored(src[c])
  <2> DEFINE b == New("reg", {"w"}, src[c].data)
  <2>1. MetaReady(b, c) /\ b.data = src[c].data
    <3>1. MetaReady(New(src[c].kind, {"w"}, src[c].data), c)
      BY NewReady
    <3> QED
      BY <1>3, <3>1, NewFields
  <2>2. fs[c] = b
    BY <1>3, <1>6
  <2> HIDE DEF b
  <2> QED
    BY <1>3, <2>1, <2>2, MetaResult
<1>8. fs' = [fs EXCEPT ![c] = Restored(src[c])]
  BY <1>1, <1>3, <1>7
<1>9. /\ fs'[c] = Restored(src[c]) /\ DOMAIN fs' = DOMAIN fs
      /\ \A q \in DOMAIN fs : q # c => fs'[q] = fs[q]
  BY <1>3, <1>8
<1>10. Streamed(D)'
  <2>1. HasHeader' => D = DataOf(pipe[1].path)'
    <3>1. DataOf(pipe[1].path)' = DataOf(pipe[1].path)
      BY <1>1, <1>2 DEF Still, DataOf, src
    <3> QED
      BY <1>4, <3>1 DEF Live, Streamed
  <2> QED
    BY <1>1, <1>4, <1>5, <2>1 DEF Streamed
<1>11. Sent(sent)'
  BY <1>2, <1>9, SentKept DEF Live
<1>12. There(c)'
  <2>1. src' = src /\ Restored(src[c])' = Restored(src[c])
    BY <1>2, StillFacts
  <2> QED
    BY <1>3, <1>9, <2>1 DEF There
<1>13. ASSUME NEW q \in Seen(sent), q # c /\ There(q) PROVE There(q)'
  <2>1. q \in DOMAIN fs' /\ fs'[q] = fs[q] /\ q \in DOMAIN fs
    BY <1>9, <1>13 DEF There
  <2>2. member # HeaderOf(q)
    BY <1>3, <1>13, HeaderInjective
  <2>3. src' = src /\ HeaderOf(q)' = HeaderOf(q) /\ Restored(src[q])' = Restored(src[q])
    BY <1>2, StillFacts
  <2> QED
    BY <1>1, <1>13, <2>1, <2>2, <2>3 DEF There, IsDirAt
<1>14. Arrived(sent)'
  BY <1>2, <1>4, <1>12, <1>13, ArrivedMore DEF Live
<1> QED
  BY <1>10, <1>11, <1>14 DEF Live

LEMMA LiveEOF ==
  ASSUME scenario \in Scenarios, ExtractInv, NEW sent, NEW D, Live(sent, D), ExtractEOF, scenario' = scenario
  PROVE  Live(sent, D)'
<1>1. /\ xpc = "next" /\ xpc' = "dirs" /\ pipe' = <<>>
      /\ Got("trailer") \/ (pipe = <<>> /\ closed = "eof")
      /\ UNCHANGED <<exportVars, member, left, dirs, fs, escaped, result, euid0, dest, broken>>
  BY DEF ExtractEOF
<1>2. Still /\ Reads
  BY <1>1 DEF Still, Reads
<1>3. pipe = <<Trailer>> \/ pipe = <<>>
  BY <1>1, GotFacts DEF ExtractInv
<1>4. Owed(D) = Join(<<>>, D) /\ Seen(sent) = sent
  BY <1>3, PipeNow
<1>5. Owed(D)' = Join(<<>>, D) /\ ~HasHeader' /\ Seen(sent)' = sent
  BY <1>1, <1>2, PipeNext
<1>6. Streamed(D)'
  <2>1. D \in Seq(Chunk) /\ Owed(D) = <<>>
    BY <1>1 DEF Live, Streamed
  <2> QED
    BY <1>1, <1>4, <1>5, <2>1 DEF Streamed
<1>7. Sent(sent)'
  BY <1>1, <1>2, SentKept DEF Live
<1>8. ASSUME NEW q \in Seen(sent), There(q) PROVE There(q)'
  <2>1. q \in DOMAIN fs
    BY <1>8 DEF There
  <2> QED
    BY <1>1, <1>2, <1>8, <2>1, ThereSame
<1>9. Arrived(sent)'
  <2>1. \A q : Restorable(q)' = Restorable(q)
    BY <1>2, StillFacts
  <2> QED
    BY <1>4, <1>5, <1>8, <2>1 DEF Live, Arrived
<1> QED
  BY <1>6, <1>7, <1>9 DEF Live

LEMMA LiveDirMeta ==
  ASSUME scenario \in Scenarios, ExtractInv, NEW sent, NEW D, Live(sent, D), DirMeta, scenario' = scenario
  PROVE  Live(sent, D)'
<1>1. /\ xpc = "dirs" /\ dirs # <<>> /\ dirs' = Tail(dirs)
      /\ fs' = [fs EXCEPT ![dirs[1].path] = applyMeta(@, dirs[1])]
      /\ UNCHANGED <<exportVars, pipe, xpc, member, left, escaped, result, euid0, dest, broken>>
  BY DEF DirMeta
<1>2. Still /\ Reads
  BY <1>1 DEF Still, Reads
<1>3. PICK c \in DOMAIN src :
        /\ dirs[1] = HeaderOf(c) /\ dirs[1].path = c /\ src[c].kind = "dir"
        /\ IsDirAt(fs, c) /\ Merged(fs[c], c)
        /\ applyMeta(fs[c], dirs[1]) = Restored(src[c])
        /\ Tail(dirs) \in Seq(DirHeaders) /\ ToSet(dirs) = ToSet(Tail(dirs)) \cup {HeaderOf(c)}
  BY <1>1, DueFacts
<1>4. fs' = [fs EXCEPT ![c] = Restored(src[c])] /\ c \in DOMAIN fs
  BY <1>1, <1>3 DEF IsDirAt
<1>5. /\ fs'[c] = Restored(src[c]) /\ DOMAIN fs' = DOMAIN fs
      /\ \A q \in DOMAIN fs : q # c => fs'[q] = fs[q]
  BY <1>4
<1>6. Owed(D)' = Owed(D) /\ HasHeader' = HasHeader /\ Seen(sent)' = Seen(sent)
  BY <1>1, <1>2, PipeNext
<1>7. Streamed(D)'
  <2>1. pipe = <<>> /\ D \in Seq(Chunk) /\ Owed(D) = <<>>
    BY <1>1 DEF Live, Streamed
  <2>2. ~HasHeader
    BY <2>1 DEF HasHeader
  <2> QED
    BY <1>1, <1>6, <2>1, <2>2 DEF Streamed
<1>8. Sent(sent)'
  BY <1>2, <1>5, SentKept DEF Live
<1>9. There(c)'
  <2>1. src' = src /\ Restored(src[c])' = Restored(src[c]) /\ Restored(src[c]).kind = src[c].kind
    BY <1>2, StillFacts, RestoredFields
  <2> QED
    BY <1>1, <1>3, <1>4, <1>5, <2>1 DEF There, IsDirAt
<1>10. ASSUME NEW q \in Seen(sent), q # c /\ There(q) PROVE There(q)'
  <2>1. q \in DOMAIN fs' /\ fs'[q] = fs[q]
    BY <1>5, <1>10 DEF There
  <2>2. HeaderOf(q) # HeaderOf(c)
    BY <1>10, HeaderInjective
  <2> QED
    BY <1>1, <1>2, <1>3, <1>10, <2>1, <2>2, ThereSame
<1>11. Arrived(sent)'
  BY <1>2, <1>6, <1>9, <1>10, ArrivedMore DEF Live
<1> QED
  BY <1>7, <1>8, <1>11 DEF Live

\* The command returns: everything has arrived.
LEMMA ReturnsExact ==
  ASSUME scenario \in Scenarios, ExtractInv, NEW sent, NEW D, Live(sent, D), ExtractReturns, scenario' = scenario
  PROVE  RestoreExact'
<1>1. /\ xpc = "dirs" /\ dirs = <<>> /\ fs' = fs /\ euid0' = euid0 /\ dest' = dest
  BY DEF ExtractReturns
<1>2. pipe = <<>> /\ work = <<EndTask>>
  BY <1>1 DEF ExtractInv, Ends, Live, Streamed
<1>3. Seen(sent) = DOMAIN src
  BY <1>2, PipeNow DEF Live, Sent
<1>4. ToSet(dirs) = {}
  BY <1>1 DEF ToSet
<1>5. ASSUME NEW p \in DOMAIN src, Restorable(p) PROVE p \in DOMAIN fs /\ fs[p] = Restored(src[p])
  BY <1>1, <1>3, <1>4, <1>5 DEF Live, Arrived, There
<1>6. ASSUME NEW p \in DOMAIN fs, p \notin DOMAIN src \/ ~Restorable(p)
      PROVE  p \in DOMAIN scenario.pre /\ fs[p] = scenario.pre[p]
  BY <1>6 DEF ExtractInv, Placed, PlacedAs
<1>7. src' = src /\ \A q : Restorable(q)' = Restorable(q) /\ Restored(src[q])' = Restored(src[q])
  BY <1>1, StillFacts DEF Still
<1> QED
  BY <1>1, <1>5, <1>6, <1>7 DEF RestoreExact

LEMMA LiveStep ==
  ASSUME scenario \in Scenarios, ExtractInv, NEW sent, NEW D, Live(sent, D), Extract \/ CallFails,
         scenario' = scenario, result' = "none"
  PROVE  Live(sent, D)'
<1>1. CASE Refuse \/ CreateFails \/ ReadFails \/ DirMetaFails \/ CallFails \/ ExtractReturns
  BY <1>1 DEF Refuse, CreateFails, ReadFails, DirMetaFails, CallFails, ExtractReturns, Fails
<1> QED
  BY <1>1, LiveDir, LiveReg, LiveSpecial, LiveChunk, LiveFile, LiveEOF, LiveDirMeta DEF Extract

----------------------------------------------------------------------------
(* Sequences of tasks.                                                      *)

Image(g, s) == [i \in DOMAIN s |-> g[s[i]]]

Maps(g, S, T) == g \in [S -> T]

LEMMA ImageFacts ==
  ASSUME NEW S, NEW T, NEW g, Maps(g, S, T), NEW s \in Seq(S)
  PROVE  /\ Image(g, s) \in Seq(T) /\ Len(Image(g, s)) = Len(s)
         /\ \A i \in 1..Len(s) : Image(g, s)[i] = g[s[i]]
<1>1. DOMAIN s = 1..Len(s) /\ Len(s) \in Nat /\ \A i \in 1..Len(s) : s[i] \in S
  BY EmptySeq
<1>2. Image(g, s) = [i \in 1..Len(s) |-> g[s[i]]] /\ \A i \in 1..Len(s) : g[s[i]] \in T
  BY <1>1 DEF Image, Maps
<1> HIDE DEF Image
<1> QED
  BY <1>1, <1>2

LEMMA ImageJoin ==
  ASSUME NEW S, NEW T, NEW g, Maps(g, S, T), NEW s \in Seq(S), NEW t \in Seq(S)
  PROVE  Image(g, Join(s, t)) = Join(Image(g, s), Image(g, t))
<1> DEFINE u == Join(s, t)
           a == Image(g, s)
           b == Image(g, t)
           v == Image(g, u)
           w == Join(a, b)
<1>1. u \in Seq(S) /\ Len(u) = Len(s) + Len(t) /\ Joined(u, s, t) /\ Len(s) \in Nat /\ Len(t) \in Nat
  <2>1. u \in Seq(S) /\ Len(u) = Len(s) + Len(t)
    BY JoinType
  <2>2. Joined(u, s, t)
    BY JoinAt
  <2> QED
    BY <2>1, <2>2
<1>2. /\ a \in Seq(T) /\ Len(a) = Len(s) /\ \A i \in 1..Len(s) : a[i] = g[s[i]]
      /\ b \in Seq(T) /\ Len(b) = Len(t) /\ \A i \in 1..Len(t) : b[i] = g[t[i]]
  <2>1. a \in Seq(T) /\ Len(a) = Len(s) /\ \A i \in 1..Len(s) : a[i] = g[s[i]]
    BY ImageFacts
  <2>2. b \in Seq(T) /\ Len(b) = Len(t) /\ \A i \in 1..Len(t) : b[i] = g[t[i]]
    BY ImageFacts
  <2> QED
    BY <2>1, <2>2
<1> HIDE DEF u
<1>3. v \in Seq(T) /\ Len(v) = Len(u) /\ \A i \in 1..Len(u) : v[i] = g[u[i]]
  BY <1>1, ImageFacts
<1> HIDE DEF a, b, v
<1>4. w \in Seq(T) /\ Len(w) = Len(a) + Len(b) /\ Joined(w, a, b)
  BY <1>2, JoinType, JoinAt
<1> HIDE DEF w
<1>5. ASSUME NEW i \in 1..Len(v) PROVE v[i] = w[i]
  <2>1. i \in 1..(Len(s) + Len(t)) /\ v[i] = g[u[i]]
    BY <1>1, <1>3
  <2>2. CASE i \in 1..Len(s)
    <3>1. u[i] = s[i] /\ w[i] = a[i] /\ a[i] = g[s[i]]
      BY <1>1, <1>2, <1>4, <2>2 DEF Joined
    <3> QED
      BY <2>1, <3>1
  <2>3. ASSUME NEW j \in 1..Len(t), i = Len(s) + j PROVE v[i] = w[i]
    <3>1. u[Len(s) + j] = t[j] /\ w[Len(s) + j] = b[j] /\ b[j] = g[t[j]]
      BY <1>1, <1>2, <1>4 DEF Joined
    <3> QED
      BY <2>1, <2>3, <3>1
  <2> QED
    BY <1>1, <2>1, <2>2, <2>3 DEF Joined
<1>6. v = w
  BY <1>1, <1>2, <1>3, <1>4, <1>5, SeqEqual
<1> QED
  BY <1>6 DEF v, w, u, a, b

\* The head of a sequence and what follows it.
HeadSet(s, y) == [s EXCEPT ![1] = y]

LEMMA ConsFacts ==
  ASSUME NEW T, NEW x, NEW b \in Seq(T)
  PROVE  /\ Join(<<x>>, b)[1] = x /\ Tail(Join(<<x>>, b)) = b /\ Join(<<x>>, b) # <<>>
         /\ \A y : HeadSet(Join(<<x>>, b), y) = Join(<<y>>, b)
<1>1. ASSUME NEW y
      PROVE  /\ Join(<<y>>, b) \in Seq(T \cup {y, x}) /\ Len(Join(<<y>>, b)) = Len(b) + 1
             /\ Join(<<y>>, b)[1] = y /\ \A i \in 1..Len(b) : Join(<<y>>, b)[i + 1] = b[i]
             /\ Len(b) \in Nat
  <2> DEFINE V == T \cup {y, x}
             a == <<y>>
  <2>1. a \in Seq(V) /\ Len(a) = 1 /\ a[1] = y /\ b \in Seq(V) /\ Len(b) \in Nat
    <3>1. b \in Seq(V)
      BY SeqMonotonic
    <3> QED
      BY <3>1
  <2> HIDE DEF a, V
  <2>2. Join(a, b) \in Seq(V) /\ Len(Join(a, b)) = Len(a) + Len(b) /\ Joined(Join(a, b), a, b)
    BY <2>1, JoinType, JoinAt
  <2>3. \A i \in 1..Len(b) : Join(a, b)[1 + i] = b[i] /\ 1 + i = i + 1
    BY <2>1, <2>2 DEF Joined
  <2>4. Join(a, b)[1] = a[1]
    <3>1. 1 \in 1..Len(a)
      BY <2>1
    <3> QED
      BY <2>2, <3>1 DEF Joined
  <2>5. \A i \in 1..Len(b) : Join(a, b)[i + 1] = b[i]
    BY <2>3
  <2> QED
    BY <2>1, <2>2, <2>4, <2>5 DEF a, V
<1> DEFINE u == Join(<<x>>, b)
           V == T \cup {x}
<1>2. /\ u \in Seq(V) /\ Len(u) = Len(b) + 1 /\ u[1] = x /\ \A i \in 1..Len(b) : u[i + 1] = b[i]
      /\ Len(b) \in Nat
  <2>1. T \cup {x, x} = V
    OBVIOUS
  <2> QED
    BY <1>1, <2>1
<1> HIDE DEF u
<1>3. u # <<>>
  BY <1>2, EmptySeq
<1>4. Tail(u) = b
  <2>1. Tail(u) \in Seq(V) /\ Len(Tail(u)) = Len(u) - 1 /\ \A i \in 1..Len(Tail(u)) : Tail(u)[i] = u[i + 1]
    BY <1>2, <1>3, HeadTailProperties
  <2>2. b \in Seq(V)
    BY SeqMonotonic
  <2> DEFINE t == Tail(u)
  <2>3. t \in Seq(V) /\ Len(t) = Len(b) /\ \A i \in 1..Len(t) : t[i] = b[i]
    BY <1>2, <2>1
  <2> HIDE DEF t, V
  <2>4. t = b
    BY <2>2, <2>3, SeqEqual
  <2> QED
    BY <2>4 DEF t
<1>5. ASSUME NEW y PROVE HeadSet(u, y) = Join(<<y>>, b)
  <2> DEFINE v == Join(<<y>>, b)
             w == HeadSet(u, y)
             W == T \cup {y, x}
  <2>1. /\ v \in Seq(W) /\ Len(v) = Len(b) + 1 /\ v[1] = y /\ \A i \in 1..Len(b) : v[i + 1] = b[i]
    BY <1>1
  <2>2. u \in Seq(W)
    <3>1. V \subseteq W
      OBVIOUS
    <3> QED
      BY <1>2, <3>1, SeqMonotonic
  <2>3. y \in W
    OBVIOUS
  <2> HIDE DEF v, W
  <2>4. /\ w \in Seq(W) /\ Len(w) = Len(u) /\ \A i \in 1..Len(u) : w[i] = IF i = 1 THEN y ELSE u[i]
    BY <1>2, <2>2, <2>3 DEF HeadSet
  <2> HIDE DEF w
  <2>5. ASSUME NEW i \in 1..Len(w) PROVE w[i] = v[i]
    <3>1. CASE i = 1
      BY <1>2, <2>1, <2>4, <3>1
    <3>2. CASE i # 1
      <4>1. i - 1 \in 1..Len(b) /\ (i - 1) + 1 = i
        BY <1>2, <2>4, <3>2
      <4>2. u[(i - 1) + 1] = b[i - 1] /\ v[(i - 1) + 1] = b[i - 1]
        BY <1>2, <2>1, <4>1
      <4> QED
        BY <2>4, <3>2, <4>1, <4>2
    <3> QED
      BY <3>1, <3>2
  <2>6. w = v
    BY <1>2, <2>1, <2>4, <2>5, SeqEqual
  <2> QED
    BY <2>6 DEF w, v
<1> QED
  BY <1>2, <1>3, <1>4, <1>5 DEF u

\* A sequence is its head and its tail.
LEMMA Uncons ==
  ASSUME NEW T, NEW s \in Seq(T), s # <<>>
  PROVE  s = Join(<<s[1]>>, Tail(s)) /\ s[1] \in T /\ Tail(s) \in Seq(T) /\ <<s[1]>> \in Seq(T)
<1>1. Fed(T, s, s)
  BY FeedSplit
<1>2. s = Join(<<s[1]>>, Tail(s)) /\ s[1] \in T /\ Tail(s) \in Seq(T)
  BY <1>1 DEF Fed
<1> QED
  BY <1>2

Distinct(s) == \A i, j \in 1..Len(s) : s[i] = s[j] => i = j

\* Taking the head of a list of tasks.
LEMMA ImageHead ==
  ASSUME NEW S, NEW T, NEW g, Maps(g, S, T), NEW s \in Seq(S), s # <<>>
  PROVE  Image(g, s) = Join(<<g[s[1]]>>, Image(g, Tail(s)))
<1> DEFINE h == <<s[1]>>
           t == Tail(s)
<1>1. s = Join(h, t) /\ h \in Seq(S) /\ t \in Seq(S) /\ s[1] \in S
  BY Uncons
<1>2. Len(h) = 1 /\ h[1] = s[1]
  OBVIOUS
<1> HIDE DEF h, t
<1>3. Image(g, s) = Join(Image(g, h), Image(g, t))
  <2>1. Image(g, Join(h, t)) = Join(Image(g, h), Image(g, t))
    BY <1>1, ImageJoin
  <2> QED
    BY <1>1, <2>1
<1>4. Image(g, h) = <<g[s[1]]>>
  <2>1. Image(g, h) \in Seq(T) /\ Len(Image(g, h)) = 1 /\ Image(g, h)[1] = g[s[1]]
    BY <1>1, <1>2, ImageFacts
  <2> DEFINE v == Image(g, h)
  <2> HIDE DEF v
  <2>2. v \in Seq(T) /\ Len(v) = 1 /\ v[1] = g[s[1]]
    BY <2>1 DEF v
  <2>3. v = <<v[1]>>
    BY <2>2
  <2> QED
    BY <2>2, <2>3 DEF v
<1> QED
  BY <1>3, <1>4 DEF t

LEMMA SetHead ==
  ASSUME NEW S, NEW s \in Seq(S), s # <<>>
  PROVE  /\ ToSet(s) = ToSet(Tail(s)) \cup {s[1]} /\ ToSet(s) \subseteq S
         /\ Distinct(s) => s[1] \notin ToSet(Tail(s)) /\ Distinct(Tail(s))
<1> DEFINE t == Tail(s)
<1>1. /\ t \in Seq(S) /\ Len(s) \in Nat /\ Len(s) > 0 /\ Len(t) = Len(s) - 1
      /\ \A i \in 1..Len(t) : t[i] = s[i + 1]
  BY HeadTailProperties, EmptySeq
<1>2. ToSet(s) = {s[i] : i \in 1..Len(s)} /\ ToSet(t) = {t[i] : i \in 1..Len(t)}
  BY <1>1, ToSetSeq
<1> HIDE DEF t
<1>3. ASSUME NEW x \in ToSet(s) PROVE x \in ToSet(t) \cup {s[1]}
  <2>1. PICK i \in 1..Len(s) : x = s[i]
    BY <1>2, <1>3
  <2>2. CASE i = 1
    BY <2>1, <2>2
  <2>3. CASE i # 1
    <3>1. i - 1 \in 1..Len(t) /\ (i - 1) + 1 = i
      BY <1>1, <2>1, <2>3
    <3>2. t[i - 1] = x
      BY <1>1, <2>1, <3>1
    <3> QED
      BY <1>2, <3>1, <3>2
  <2> QED
    BY <2>2, <2>3
<1>4. \A i \in 1..Len(t) : i + 1 \in 1..Len(s) /\ t[i] = s[i + 1]
  BY <1>1
<1>5. 1 \in 1..Len(s)
  BY <1>1
<1>6. ToSet(s) = ToSet(t) \cup {s[1]} /\ ToSet(s) \subseteq S
  <2>1. ToSet(t) \subseteq ToSet(s) /\ s[1] \in ToSet(s)
    BY <1>2, <1>4, <1>5
  <2>2. ToSet(s) \subseteq S
    BY <1>2
  <2> QED
    BY <1>3, <2>1, <2>2
<1>7. ASSUME Distinct(s) PROVE s[1] \notin ToSet(t) /\ Distinct(t)
  <2>1. ASSUME NEW i \in 1..Len(t), t[i] = s[1] PROVE FALSE
    <3>1. i + 1 \in 1..Len(s) /\ s[i + 1] = s[1] /\ i + 1 # 1
      BY <1>4, <2>1
    <3> QED
      BY <1>5, <1>7, <3>1 DEF Distinct
  <2>2. ASSUME NEW i \in 1..Len(t), NEW j \in 1..Len(t), t[i] = t[j] PROVE i = j
    <3>1. i + 1 \in 1..Len(s) /\ j + 1 \in 1..Len(s) /\ s[i + 1] = s[j + 1]
      BY <1>4, <2>2
    <3>2. i + 1 = j + 1
      BY <1>7, <3>1 DEF Distinct
    <3> QED
      BY <3>2
  <2>3. s[1] \notin ToSet(t)
    BY <1>2, <2>1
  <2> QED
    BY <2>2, <2>3 DEF Distinct
<1> QED
  BY <1>6, <1>7 DEF t

LEMMA SetJoin ==
  ASSUME NEW S, NEW s \in Seq(S), NEW t \in Seq(S)
  PROVE  /\ ToSet(Join(s, t)) = ToSet(s) \cup ToSet(t)
         /\ Distinct(s) /\ Distinct(t) /\ ToSet(s) \cap ToSet(t) = {} => Distinct(Join(s, t))
<1> DEFINE u == Join(s, t)
<1>1. u \in Seq(S) /\ Len(u) = Len(s) + Len(t) /\ Joined(u, s, t) /\ Len(s) \in Nat /\ Len(t) \in Nat
  <2>1. u \in Seq(S) /\ Len(u) = Len(s) + Len(t)
    BY JoinType
  <2>2. Joined(u, s, t)
    BY JoinAt
  <2> QED
    BY <2>1, <2>2
<1> HIDE DEF u
<1>2. /\ ToSet(u) = {u[i] : i \in 1..Len(u)} /\ ToSet(t) = {t[i] : i \in 1..Len(t)}
      /\ ToSet(s) = {s[i] : i \in 1..Len(s)}
  BY <1>1, ToSetSeq
<1>3. /\ \A i \in 1..Len(s) : i \in 1..Len(u) /\ u[i] = s[i]
      /\ \A j \in 1..Len(t) : Len(s) + j \in 1..Len(u) /\ u[Len(s) + j] = t[j]
      /\ \A i \in 1..Len(u) : i \in 1..Len(s) \/ \E j \in 1..Len(t) : i = Len(s) + j
  BY <1>1 DEF Joined
<1>4. ToSet(s) \subseteq ToSet(u) /\ ToSet(t) \subseteq ToSet(u)
  BY <1>2, <1>3
<1>5. ASSUME NEW x \in ToSet(u) PROVE x \in ToSet(s) \cup ToSet(t)
  <2>1. PICK i \in 1..Len(u) : x = u[i]
    BY <1>2, <1>5
  <2>2. CASE i \in 1..Len(s)
    BY <1>2, <1>3, <2>1, <2>2
  <2>3. ASSUME NEW j \in 1..Len(t), i = Len(s) + j PROVE x \in ToSet(t)
    BY <1>2, <1>3, <2>1, <2>3
  <2> QED
    BY <1>3, <2>2, <2>3
<1>6. ASSUME Distinct(s), Distinct(t), ToSet(s) \cap ToSet(t) = {},
             NEW i \in 1..Len(u), NEW j \in 1..Len(u), u[i] = u[j]
      PROVE  i = j
  <2>1. CASE i \in 1..Len(s) /\ j \in 1..Len(s)
    BY <1>3, <1>6, <2>1 DEF Distinct
  <2>2. ASSUME NEW k \in 1..Len(t), i = Len(s) + k, NEW l \in 1..Len(t), j = Len(s) + l PROVE i = j
    <3>1. t[k] = t[l]
      BY <1>3, <1>6, <2>2
    <3> QED
      BY <1>6, <2>2, <3>1 DEF Distinct
  <2>3. ASSUME i \in 1..Len(s), NEW l \in 1..Len(t), j = Len(s) + l PROVE FALSE
    <3>1. s[i] = t[l]
      BY <1>3, <1>6, <2>3
    <3>2. s[i] \in ToSet(s) /\ t[l] \in ToSet(t)
      BY <1>2, <2>3
    <3> QED
      BY <1>6, <3>1, <3>2
  <2>4. ASSUME j \in 1..Len(s), NEW l \in 1..Len(t), i = Len(s) + l PROVE FALSE
    <3>1. s[j] = t[l]
      BY <1>3, <1>6, <2>4
    <3>2. s[j] \in ToSet(s) /\ t[l] \in ToSet(t)
      BY <1>2, <2>4
    <3> QED
      BY <1>6, <3>1, <3>2
  <2> QED
    BY <1>3, <2>1, <2>2, <2>3, <2>4
<1> QED
  BY <1>4, <1>5, <1>6 DEF Distinct, u

----------------------------------------------------------------------------
(* The exporter.  Its stack holds the rest of a file or of a directory and  *)
(* the entries still to be written; sent are the nodes whose headers it has *)
(* written, or skipped, and D what is still to come of the last file.       *)

ContentTask(k) == [task |-> "content", key |-> k]

EntryTask(keys, c) == [task |-> "entry", e |-> Entry(src, keys, c), path |-> Front(c)]

Reading(ks, got, p) == [task |-> "dir", keys |-> ks, got |-> got, path |-> p]

ContentOf(f) == [k \in FileKeys(f) |-> ContentTask(k)]

EntryOf(keys) == [c \in DOMAIN src |-> EntryTask(keys, c)]

AllTasks(f, keys) ==
  {ContentTask(k) : k \in FileKeys(f)} \cup {EntryTask(keys, c) : c \in DOMAIN src}

\* Every node not sent is on the stack, or below one that is or is not sent; at is
\* the directory being read, if there is one.
Owes(sent, es, at) ==
  /\ es \in Seq(DOMAIN src) /\ Distinct(es) /\ sent \subseteq DOMAIN src
  /\ ToSet(es) \cap sent = {}
  /\ \A q \in sent \cup ToSet(es) : Front(q) = <<>> \/ Front(q) \in sent
  /\ \A p \in at : p = <<>> \/ (p \in sent /\ src[p].kind = "dir")
  /\ \A q \in DOMAIN src : Front(q) \in at => q \notin sent /\ q \notin ToSet(es)
  /\ \A q \in DOMAIN src \ sent :
       q \in ToSet(es) \/ Front(q) \in at \/ Front(q) \in DOMAIN src \ sent

Known(V, f, keys) == Knows(V, f, keys) /\ Built(src) \subseteq DOMAIN keys

Stack(f, keys, cs, es) == Join(Image(ContentOf(f), cs), Image(EntryOf(keys), es))

WritingAs(w, sent, D, V, f, keys, cs, es) ==
  /\ Known(V, f, keys) /\ cs \in Seq(FileKeys(f)) /\ D = Flat(f, cs) /\ D \in Seq(Chunk)
  /\ w = Stack(f, keys, cs, es) /\ Owes(sent, es, {})

CollectingAs(w, sent, V, f, keys, ks, got, p, es) ==
  /\ Known(V, f, keys) /\ ks \in Seq(DirKeys(f)) /\ got \in Seq(V) /\ p \in Seq(Name)
  /\ IsDirectory(src, p) /\ Join(got, Flat(f, ks)) = Input(src, keys, p)
  /\ w = Join(<<Reading(ks, got, p)>>, Image(EntryOf(keys), es)) /\ Owes(sent, es, {p})

ExportsAs(w, sent, D) ==
  \/ \E V, f, keys, cs, es : WritingAs(w, sent, D, V, f, keys, cs, es)
  \/ D = <<>> /\ \E V, f, keys, ks, got, p, es : CollectingAs(w, sent, V, f, keys, ks, got, p, es)
  \/ w = <<EndTask>> /\ sent = DOMAIN src /\ D = <<>>

Exports(sent, D) == ExportsAs(work, sent, D)

LEMMA ExportsNext ==
  ASSUME scenario' = scenario, NEW w, w = work', NEW sent, NEW D, ExportsAs(w, sent, D)
  PROVE  Exports(sent, D)'
<1>1. src' = src
  BY DEF src
<1>2. ASSUME NEW V, NEW f, NEW keys PROVE Known(V, f, keys)' = Known(V, f, keys)
  BY <1>1 DEF Known, Knows, NodeKeys
<1>3. ASSUME NEW keys PROVE EntryOf(keys)' = EntryOf(keys)
  BY <1>1 DEF EntryOf, EntryTask
<1>4. ASSUME NEW es, NEW at PROVE Owes(sent, es, at)' = Owes(sent, es, at)
  BY <1>1 DEF Owes
<1>5. ASSUME NEW V, NEW f, NEW keys, NEW cs, NEW es, WritingAs(w, sent, D, V, f, keys, cs, es)
      PROVE  Exports(sent, D)'
  <2>1. Owes(sent, es, {})' = Owes(sent, es, {})
    <3> DEFINE at == {}
    <3>1. Owes(sent, es, at)' = Owes(sent, es, at)
      BY <1>1 DEF Owes
    <3> QED
      BY <3>1
  <2>2. WritingAs(w, sent, D, V, f, keys, cs, es)'
    BY <1>2, <1>3, <1>5, <2>1 DEF WritingAs, Stack
  <2> QED
    BY <2>2 DEF Exports, ExportsAs, WritingAs, Stack
<1>6. ASSUME NEW V, NEW f, NEW keys, NEW ks, NEW got, NEW p, NEW es, D = <<>>,
             CollectingAs(w, sent, V, f, keys, ks, got, p, es)
      PROVE  Exports(sent, D)'
  <2>1. Owes(sent, es, {p})' = Owes(sent, es, {p})
    <3> DEFINE at == {p}
    <3>1. Owes(sent, es, at)' = Owes(sent, es, at)
      BY <1>1 DEF Owes
    <3> QED
      BY <3>1
  <2>2. CollectingAs(w, sent, V, f, keys, ks, got, p, es)'
    BY <1>1, <1>2, <1>3, <1>6, <2>1 DEF CollectingAs
  <2> QED
    BY <1>6, <2>2 DEF Exports, ExportsAs, CollectingAs
<1>7. ASSUME w = <<EndTask>> /\ sent = DOMAIN src /\ D = <<>> PROVE Exports(sent, D)'
  BY <1>1, <1>7 DEF Exports, ExportsAs, EndTask
<1> QED
  BY <1>5, <1>6, <1>7 DEF ExportsAs

LEMMA TaskMaps ==
  ASSUME NEW f, NEW keys
  PROVE  /\ Maps(ContentOf(f), FileKeys(f), AllTasks(f, keys))
         /\ Maps(EntryOf(keys), DOMAIN src, AllTasks(f, keys))
         /\ \A k \in FileKeys(f) : ContentOf(f)[k] = ContentTask(k)
         /\ \A c \in DOMAIN src : EntryOf(keys)[c] = EntryTask(keys, c)
<1>1. ASSUME NEW k \in FileKeys(f) PROVE ContentTask(k) \in AllTasks(f, keys)
  BY DEF AllTasks
<1>2. ASSUME NEW c \in DOMAIN src PROVE EntryTask(keys, c) \in AllTasks(f, keys)
  BY DEF AllTasks
<1>3. Maps(ContentOf(f), FileKeys(f), AllTasks(f, keys))
  BY <1>1 DEF Maps, ContentOf
<1>4. Maps(EntryOf(keys), DOMAIN src, AllTasks(f, keys))
  BY <1>2 DEF Maps, EntryOf
<1> QED
  BY <1>3, <1>4 DEF ContentOf, EntryOf

LEMMA ImageNil ==
  ASSUME NEW g
  PROVE  Image(g, <<>>) = <<>>
BY DEF Image

\* The stack while a file is written, while entries are, and at the end.
LEMMA StackTypes ==
  ASSUME NEW f, NEW keys, NEW cs \in Seq(FileKeys(f)), NEW es \in Seq(DOMAIN src)
  PROVE  /\ Image(ContentOf(f), cs) \in Seq(AllTasks(f, keys))
         /\ Image(EntryOf(keys), es) \in Seq(AllTasks(f, keys))
         /\ Stack(f, keys, cs, es) \in Seq(AllTasks(f, keys))
         /\ Stack(f, keys, <<>>, es) = Image(EntryOf(keys), es)
<1>1. Image(ContentOf(f), cs) \in Seq(AllTasks(f, keys))
  BY TaskMaps, ImageFacts
<1>2. Image(EntryOf(keys), es) \in Seq(AllTasks(f, keys))
  BY TaskMaps, ImageFacts
<1>3. Stack(f, keys, cs, es) \in Seq(AllTasks(f, keys))
  BY <1>1, <1>2, JoinType DEF Stack
<1>4. Stack(f, keys, <<>>, es) = Image(EntryOf(keys), es)
  <2>1. Image(ContentOf(f), <<>>) = <<>>
    BY ImageNil
  <2> QED
    BY <1>2, <2>1, JoinNil DEF Stack
<1> QED
  BY <1>1, <1>2, <1>3, <1>4

LEMMA ContentHead ==
  ASSUME NEW f, NEW keys, NEW cs \in Seq(FileKeys(f)), NEW es \in Seq(DOMAIN src), cs # <<>>
  PROVE  /\ Stack(f, keys, cs, es)[1] = ContentTask(cs[1])
         /\ Tail(Stack(f, keys, cs, es)) = Stack(f, keys, Tail(cs), es)
<1> DEFINE T == AllTasks(f, keys)
           x == ContentTask(cs[1])
           h == <<x>>
           a == Image(ContentOf(f), Tail(cs))
           b == Image(EntryOf(keys), es)
<1>1. cs[1] \in FileKeys(f) /\ Tail(cs) \in Seq(FileKeys(f))
  BY Uncons
<1>2. x \in T /\ Image(ContentOf(f), cs) = Join(h, a)
  <2>1. Maps(ContentOf(f), FileKeys(f), T) /\ ContentOf(f)[cs[1]] = x
    BY <1>1, TaskMaps
  <2>2. Image(ContentOf(f), cs) = Join(<<ContentOf(f)[cs[1]]>>, a)
    BY <2>1, ImageHead
  <2> QED
    BY <1>1, <2>1, <2>2 DEF AllTasks
<1>3. a \in Seq(T) /\ b \in Seq(T) /\ Stack(f, keys, Tail(cs), es) \in Seq(T)
  BY <1>1, StackTypes
<1>4. h \in Seq(T)
  BY <1>2
<1> HIDE DEF h, x, a, b, T
<1>5. Join(Join(h, a), b) = Join(h, Join(a, b))
  BY <1>3, <1>4, JoinAssoc
<1>6. Stack(f, keys, cs, es) = Join(<<x>>, Stack(f, keys, Tail(cs), es))
  BY <1>2, <1>5 DEF Stack, a, b, h
<1>7. /\ Join(<<x>>, Stack(f, keys, Tail(cs), es))[1] = x
      /\ Tail(Join(<<x>>, Stack(f, keys, Tail(cs), es))) = Stack(f, keys, Tail(cs), es)
  BY <1>3, ConsFacts
<1> QED
  BY <1>6, <1>7 DEF x

LEMMA EntryHead ==
  ASSUME NEW f, NEW keys, NEW es \in Seq(DOMAIN src), es # <<>>
  PROVE  /\ Stack(f, keys, <<>>, es)[1] = EntryTask(keys, es[1])
         /\ Tail(Stack(f, keys, <<>>, es)) = Image(EntryOf(keys), Tail(es))
         /\ Image(EntryOf(keys), Tail(es)) = Stack(f, keys, <<>>, Tail(es))
<1> DEFINE T == AllTasks(f, keys)
           x == EntryTask(keys, es[1])
           b == Image(EntryOf(keys), Tail(es))
<1>1. es[1] \in DOMAIN src /\ Tail(es) \in Seq(DOMAIN src)
  BY Uncons
<1>2. Maps(EntryOf(keys), DOMAIN src, T) /\ EntryOf(keys)[es[1]] = x
  BY <1>1, TaskMaps
<1>3. Image(EntryOf(keys), es) = Join(<<EntryOf(keys)[es[1]]>>, b)
  BY <1>2, ImageHead
<1>4. <<>> \in Seq(FileKeys(f))
  OBVIOUS
<1>5. b \in Seq(T) /\ Stack(f, keys, <<>>, Tail(es)) = b
  BY <1>1, <1>4, StackTypes
<1>6. Stack(f, keys, <<>>, es) = Image(EntryOf(keys), es)
  BY <1>4, StackTypes
<1> HIDE DEF x, b, T
<1>7. Join(<<x>>, b)[1] = x /\ Tail(Join(<<x>>, b)) = b
  BY <1>5, ConsFacts
<1> QED
  BY <1>2, <1>3, <1>5, <1>6, <1>7 DEF x, b

\* The first entry of the stack is written or skipped.
LEMMA OwesEntry ==
  ASSUME scenario \in Scenarios, NEW sent, NEW es, Owes(sent, es, {}), es # <<>>,
         NEW at, at = IF src[es[1]].kind = "dir" THEN {es[1]} ELSE {}
  PROVE  /\ es[1] \in DOMAIN src \ sent /\ (Front(es[1]) = <<>> \/ Front(es[1]) \in sent)
         /\ Tail(es) \in Seq(DOMAIN src) /\ Owes(sent \cup {es[1]}, Tail(es), at)
<1> DEFINE none == {}
<1>1. PICK c, t : c = es[1] /\ t = Tail(es)
  OBVIOUS
<1>2. /\ es \in Seq(DOMAIN src) /\ Distinct(es) /\ sent \subseteq DOMAIN src
      /\ ToSet(es) \cap sent = {}
      /\ \A q \in sent \cup ToSet(es) : Front(q) = <<>> \/ Front(q) \in sent
      /\ \A q \in DOMAIN src \ sent : q \in ToSet(es) \/ Front(q) \in DOMAIN src \ sent
  BY DEF Owes
<1>3. /\ ToSet(es) = ToSet(t) \cup {c} /\ ToSet(es) \subseteq DOMAIN src
      /\ c \notin ToSet(t) /\ Distinct(t) /\ t \in Seq(DOMAIN src)
  BY <1>1, <1>2, SetHead, Uncons
<1>4. c \in DOMAIN src \ sent /\ (Front(c) = <<>> \/ Front(c) \in sent)
  BY <1>2, <1>3
<1>5. c # <<>> /\ \A q \in DOMAIN src : Front(q) = c => src[c].kind = "dir"
  BY <1>4, ScenarioFacts
<1>6. at = IF src[c].kind = "dir" THEN {c} ELSE {}
  BY <1>1
<1>7. ToSet(t) \cap (sent \cup {c}) = {} /\ sent \cup {c} \subseteq DOMAIN src
  BY <1>2, <1>3, <1>4
<1>8. \A q \in (sent \cup {c}) \cup ToSet(t) : Front(q) = <<>> \/ Front(q) \in sent \cup {c}
  BY <1>2, <1>3
<1>9. \A p \in at : p = <<>> \/ (p \in sent \cup {c} /\ src[p].kind = "dir")
  BY <1>6
<1>10. ASSUME NEW q \in DOMAIN src, Front(q) \in at PROVE q \notin sent \cup {c} /\ q \notin ToSet(t)
  <2>1. Front(q) = c
    BY <1>6, <1>10
  <2>2. Front(q) # <<>> /\ Front(q) \notin sent
    BY <1>4, <1>5, <2>1
  <2>3. q \notin sent \cup ToSet(es)
    BY <1>2, <2>2
  <2> QED
    BY <1>3, <2>3
<1>11. ASSUME NEW q \in DOMAIN src \ (sent \cup {c})
       PROVE  q \in ToSet(t) \/ Front(q) \in at \/ Front(q) \in DOMAIN src \ (sent \cup {c})
  <2>1. q \in ToSet(es) \/ Front(q) \in DOMAIN src \ sent
    BY <1>2
  <2>2. CASE q \in ToSet(es)
    BY <1>3, <2>2
  <2>3. CASE Front(q) = c
    BY <1>5, <1>6, <2>3
  <2> QED
    BY <2>1, <2>2, <2>3
<1>12. Owes(sent \cup {c}, t, at)
  BY <1>3, <1>7, <1>8, <1>9, <1>10, <1>11 DEF Owes
<1> QED
  BY <1>1, <1>3, <1>4, <1>12

\* The entries of a directory that has been read.
LEMMA OwesDir ==
  ASSUME scenario \in Scenarios, NEW p \in Seq(Name), NEW sent, NEW es, Owes(sent, es, {p})
  PROVE  /\ ReadDir(src, p) \in Seq(DOMAIN src)
         /\ \A q \in ToSet(ReadDir(src, p)) : Front(q) = p
         /\ Owes(sent, Join(ReadDir(src, p), es), {})
<1>1. PICK r, u, at : r = ReadDir(src, p) /\ u = Join(r, es) /\ at = {p}
  OBVIOUS
<1>2. IsTree(src)
  BY SourceFacts
<1>3. Listing(src, p, r) /\ Children(src, p) = {q \in DOMAIN src : Front(q) = p}
  BY <1>1, <1>2, ReadDirFacts, ChildrenFacts
<1>4. /\ r \in Seq(Children(src, p)) /\ \A q \in Children(src, p) : \E i \in 1..Len(r) : r[i] = q
      /\ \A i, j \in 1..Len(r) : i < j => Last(r[i]) < Last(r[j])
  BY <1>3 DEF Listing
<1>5. r \in Seq(DOMAIN src)
  <2>1. Children(src, p) \subseteq DOMAIN src
    BY <1>3
  <2> QED
    BY <1>4, <2>1, SeqMonotonic
<1>6. ToSet(r) = Children(src, p)
  <2>1. ToSet(r) = {r[i] : i \in 1..Len(r)} /\ ToSet(r) \subseteq Children(src, p)
    BY <1>4, ToSetSeq
  <2> QED
    BY <1>4, <2>1
<1>7. Distinct(r)
  <2> SUFFICES ASSUME NEW i \in 1..Len(r), NEW j \in 1..Len(r), r[i] = r[j] PROVE i = j
    BY DEF Distinct
  <2>1. r[i] \in DOMAIN src
    BY <1>5
  <2>2. r[i] \in Seq(Name) /\ r[i] # <<>>
    BY <2>1, SourceFacts
  <2>3. Last(r[i]) \in Name
    BY <2>2, PathSplit
  <2>4. Last(r[i]) = Last(r[j]) /\ Last(r[i]) \in Nat
    BY <2>3 DEF Name
  <2>5. ~(i < j) /\ ~(j < i)
    <3> DEFINE a == Last(r[i])
               b == Last(r[j])
    <3>1. (i < j => a < b) /\ (j < i => b < a)
      BY <1>4, Zenon
    <3>2. a = b /\ a \in Nat
      BY <2>4
    <3> HIDE DEF a, b
    <3> QED
      BY <3>1, <3>2
  <2> QED
    BY <1>5, <2>5
<1>8. /\ es \in Seq(DOMAIN src) /\ Distinct(es) /\ sent \subseteq DOMAIN src
      /\ ToSet(es) \cap sent = {}
      /\ \A q \in sent \cup ToSet(es) : Front(q) = <<>> \/ Front(q) \in sent
      /\ p = <<>> \/ p \in sent
      /\ \A q \in DOMAIN src : Front(q) = p => q \notin sent /\ q \notin ToSet(es)
      /\ \A q \in DOMAIN src \ sent : q \in ToSet(es) \/ Front(q) = p \/ Front(q) \in DOMAIN src \ sent
  BY DEF Owes
<1>9. ToSet(r) \cap ToSet(es) = {}
  BY <1>3, <1>6, <1>8
<1>10. u \in Seq(DOMAIN src) /\ ToSet(u) = ToSet(r) \cup ToSet(es) /\ Distinct(u)
  <2>1. u \in Seq(DOMAIN src)
    BY <1>1, <1>5, <1>8, JoinType
  <2>2. ToSet(u) = ToSet(r) \cup ToSet(es) /\ Distinct(u)
    BY <1>1, <1>5, <1>7, <1>8, <1>9, SetJoin
  <2> QED
    BY <2>1, <2>2
<1>11. ToSet(u) \cap sent = {}
  BY <1>3, <1>6, <1>8, <1>10
<1>12. \A q \in sent \cup ToSet(u) : Front(q) = <<>> \/ Front(q) \in sent
  BY <1>3, <1>6, <1>8, <1>10
<1>13. \A q \in DOMAIN src \ sent : q \in ToSet(u) \/ Front(q) \in DOMAIN src \ sent
  BY <1>3, <1>6, <1>8, <1>10
<1>14. Owes(sent, u, {})
  BY <1>8, <1>10, <1>11, <1>12, <1>13 DEF Owes
<1>15. \A q \in ToSet(r) : Front(q) = p
  BY <1>3, <1>6
<1> QED
  BY <1>1, <1>5, <1>14, <1>15

\* At the end everything has been sent.
LEMMA OwesNothing ==
  ASSUME scenario \in Scenarios, NEW sent, Owes(sent, <<>>, {})
  PROVE  sent = DOMAIN src
<1>1. sent \subseteq DOMAIN src /\ \A q \in DOMAIN src \ sent : Front(q) \in DOMAIN src \ sent
  <2>1. ToSet(<<>>) = {}
    BY DEF ToSet
  <2> QED
    BY <2>1 DEF Owes
<1>2. \A q \in DOMAIN src : q \in Seq(Name) /\ q # <<>>
  BY SourceFacts
<1>3. ASSUME NEW x \in DOMAIN src \ sent PROVE FALSE
  <2> DEFINE U == DOMAIN src \ sent
             L == {n \in Nat : \E q \in U : Len(q) = n}
  <2>1. \A q \in U : Len(q) \in Nat /\ Front(q) \in U /\ Len(Front(q)) = Len(q) - 1 /\ Len(Front(q)) \in Nat
    <3> SUFFICES ASSUME NEW q \in U
                 PROVE  Len(q) \in Nat /\ Front(q) \in U /\ Len(Front(q)) = Len(q) - 1 /\ Len(Front(q)) \in Nat
      OBVIOUS
    <3>1. q \in Seq(Name) /\ q # <<>>
      BY <1>2
    <3>2. Len(Front(q)) = Len(q) - 1 /\ Front(q) \in Seq(Name)
      BY <3>1, PathSplit
    <3> QED
      BY <1>1, <3>1, <3>2
  <2>2. L \in SUBSET Nat /\ L # {}
    BY <1>3, <2>1
  <2> HIDE DEF U
  <2>3. PICK n \in L : \A m \in L : n <= m
    <3> HIDE DEF L
    <3> QED
      BY <2>2, LeastNat
  <2>4. PICK q \in U : Len(q) = n
    BY <2>3
  <2>5. Len(Front(q)) \in L
    BY <2>1, <2>4
  <2>6. Len(Front(q)) = n - 1 /\ n \in Nat
    BY <2>1, <2>4
  <2>7. n <= Len(Front(q))
    BY <2>3, <2>5
  <2> QED
    BY <2>6, <2>7
<1> QED
  BY <1>1, <1>3

\* At the start everything is below the root.
LEMMA OwesAll ==
  ASSUME scenario \in Scenarios
  PROVE  Owes({}, <<>>, {<<>>})
<1>1. ToSet(<<>>) = {} /\ <<>> \in Seq(DOMAIN src) /\ Len(<<>>) = 0
  BY DEF ToSet
<1>2. \A q \in DOMAIN src : Front(q) = <<>> \/ Front(q) \in DOMAIN src
  BY ScenarioFacts
<1>3. Distinct(<<>>)
  BY <1>1 DEF Distinct
<1> QED
  BY <1>1, <1>2, <1>3 DEF Owes

\* Keys that know their children from the root down are known for every node.
LEMMA AllBuilt ==
  ASSUME scenario \in Scenarios, NEW V, NEW f, NEW keys, Knows(V, f, keys), <<>> \in DOMAIN keys
  PROVE  Known(V, f, keys)
<1>1. \A q \in DOMAIN keys : Children(src, q) \cap Built(src) \subseteq DOMAIN keys
  BY DEF Knows
<1>2. IsTree(src) /\ \A q \in DOMAIN src : q \in Seq(Name) /\ q # <<>>
  BY SourceFacts
<1>3. ASSUME NEW q \in DOMAIN src, HasContent(src[q]), Front(q) \in DOMAIN keys PROVE q \in DOMAIN keys
  <2>1. Front(q) \in Seq(Name)
    BY <1>2, PathSplit
  <2>2. q \in Children(src, Front(q))
    BY <1>2, <2>1, ChildrenFacts
  <2> QED
    BY <1>1, <1>3, <2>2 DEF Built
<1>4. ASSUME NEW x \in Built(src) \ DOMAIN keys PROVE FALSE
  <2> DEFINE U == {q \in DOMAIN src : HasContent(src[q]) /\ q \notin DOMAIN keys}
             L == {n \in Nat : \E q \in U : Len(q) = n}
  <2>1. ASSUME NEW q \in U
        PROVE  Len(q) \in Nat /\ Front(q) \in U /\ Len(Front(q)) = Len(q) - 1 /\ Len(Front(q)) \in Nat
    <3>1. q \in Seq(Name) /\ q # <<>> /\ q \in DOMAIN src /\ HasContent(src[q]) /\ q \notin DOMAIN keys
      BY <1>2
    <3>2. Len(Front(q)) = Len(q) - 1 /\ Front(q) \in Seq(Name)
      BY <3>1, PathSplit
    <3>3. Front(q) \notin DOMAIN keys
      BY <1>3, <3>1
    <3>4. Front(q) \in DOMAIN src /\ src[Front(q)].kind = "dir"
      BY <3>1, <3>3, ScenarioFacts
    <3> QED
      BY <3>1, <3>2, <3>3, <3>4 DEF HasContent
  <2>2. x \in U
    BY <1>4 DEF Built
  <2>3. L \in SUBSET Nat /\ L # {}
    BY <2>1, <2>2
  <2> HIDE DEF U
  <2>4. PICK n \in L : \A m \in L : n <= m
    <3> HIDE DEF L
    <3> QED
      BY <2>3, LeastNat
  <2>5. PICK q \in U : Len(q) = n
    BY <2>4
  <2>6. Len(Front(q)) \in L
    BY <2>1, <2>5
  <2>7. Len(Front(q)) = n - 1 /\ n \in Nat
    BY <2>1, <2>5
  <2>8. n <= Len(Front(q))
    BY <2>4, <2>6
  <2> QED
    BY <2>7, <2>8
<1> QED
  BY <1>4 DEF Known

\* What the key of a node says.
LEMMA NodeKey ==
  ASSUME scenario \in Scenarios, NEW V, NEW f, NEW keys, Known(V, f, keys), NEW c \in DOMAIN src
  PROVE  /\ f \in [DOMAIN f -> Seq(V)]
         /\ src[c].kind = "reg" =>
              /\ keys[c] \in FileKeys(f) /\ f[keys[c]] = src[c].data
              /\ keys[c].length = Len(src[c].data)
         /\ src[c].kind = "dir" => keys[c] \in DirKeys(f) /\ f[keys[c]] = Input(src, keys, c)
<1>1. Denotes(V, f) /\ f \in [DOMAIN f -> Seq(V)] /\ c # <<>>
  BY SourceFacts DEF Known, Knows, Denotes
<1>2. ASSUME src[c].kind \in {"reg", "dir"}
      PROVE  keys[c] \in NodeKeys(f, c) /\ f[keys[c]] = Content(src, keys, c)
  <2>1. c \in DOMAIN keys
    BY <1>2 DEF Known, Built, HasContent
  <2> QED
    BY <2>1 DEF Known, Knows
<1>3. CASE src[c].kind = "reg"
  <2>1. keys[c] \in FileKeys(f) /\ f[keys[c]] = src[c].data
    BY <1>1, <1>2, <1>3 DEF NodeKeys, Content, IsDirectory
  <2>2. keys[c].length = Len(f[keys[c]])
    BY <1>1, <2>1 DEF FileKeys, Denotes, WellFormed
  <2> QED
    BY <1>1, <1>3, <2>1, <2>2
<1>4. CASE src[c].kind = "dir"
  BY <1>1, <1>2, <1>4 DEF NodeKeys, Content, IsDirectory
<1> QED
  BY <1>1, <1>3, <1>4

\* What is at the head of the stack.
AtEntryAs(sent, D, V, f, keys, es) ==
  /\ D = <<>> /\ Known(V, f, keys) /\ es # <<>> /\ es \in Seq(DOMAIN src) /\ Owes(sent, es, {})
  /\ work[1] = EntryTask(keys, es[1]) /\ Tail(work) = Image(EntryOf(keys), Tail(es))

AtContentAs(sent, D, V, f, keys, cs, es) ==
  /\ WritingAs(work, sent, D, V, f, keys, cs, es) /\ cs # <<>> /\ es \in Seq(DOMAIN src)
  /\ work[1] = ContentTask(cs[1]) /\ Tail(work) = Stack(f, keys, Tail(cs), es)

AtDirAs(sent, V, f, keys, ks, got, p, es) ==
  /\ CollectingAs(work, sent, V, f, keys, ks, got, p, es) /\ es \in Seq(DOMAIN src)
  /\ work[1] = Reading(ks, got, p) /\ Tail(work) = Image(EntryOf(keys), es)

LEMMA WritingHead ==
  ASSUME NEW sent, NEW D, NEW V, NEW f, NEW keys, NEW cs, NEW es,
         WritingAs(work, sent, D, V, f, keys, cs, es)
  PROVE  \/ AtContentAs(sent, D, V, f, keys, cs, es) /\ work[1].task = "content" /\ work # <<>>
         \/ AtEntryAs(sent, D, V, f, keys, es) /\ work[1].task = "entry" /\ work # <<>>
         \/ work = <<>> /\ D = <<>> /\ Owes(sent, <<>>, {})
<1>1. /\ Known(V, f, keys) /\ cs \in Seq(FileKeys(f)) /\ D = Flat(f, cs)
      /\ work = Stack(f, keys, cs, es) /\ Owes(sent, es, {}) /\ es \in Seq(DOMAIN src)
  BY DEF WritingAs, Owes
<1>2. work \in Seq(AllTasks(f, keys)) /\ Len(<<>>) = 0
  BY <1>1, StackTypes
<1>3. CASE cs # <<>>
  <2>1. work[1] = ContentTask(cs[1]) /\ Tail(work) = Stack(f, keys, Tail(cs), es)
    BY <1>1, <1>3, ContentHead
  <2>2. work[1].task = "content"
    BY <2>1 DEF ContentTask
  <2>3. work # <<>>
    <3>1. Image(ContentOf(f), cs) \in Seq(AllTasks(f, keys)) /\ Len(Image(ContentOf(f), cs)) = Len(cs)
      <4>1. Maps(ContentOf(f), FileKeys(f), AllTasks(f, keys))
        BY TaskMaps
      <4> QED
        BY <1>1, <4>1, ImageFacts
    <3>2. Image(EntryOf(keys), es) \in Seq(AllTasks(f, keys))
      BY <1>1, StackTypes
    <3>3. Len(work) = Len(Image(ContentOf(f), cs)) + Len(Image(EntryOf(keys), es))
      BY <1>1, <3>1, <3>2, JoinType DEF Stack
    <3>4. Len(cs) \in Nat /\ Len(cs) # 0 /\ Len(Image(EntryOf(keys), es)) \in Nat
      BY <1>1, <1>3, <3>2, EmptySeq
    <3>5. Len(work) # 0
      BY <3>1, <3>3, <3>4
    <3> QED
      BY <1>2, <3>5
  <2> QED
    BY <1>1, <1>3, <2>1, <2>2, <2>3 DEF AtContentAs
<1>4. ASSUME cs = <<>> PROVE D = <<>>
  <2>1. f \in [DOMAIN f -> Seq(V)] /\ <<>> \in Seq(DOMAIN f)
    BY <1>1 DEF Known, Knows, Denotes
  <2>2. Lists(V, f, <<>>)
    BY <2>1 DEF Lists
  <2> QED
    BY <1>1, <1>4, <2>2, FlatNil
<1>5. CASE cs = <<>> /\ es # <<>>
  <2>1. work[1] = EntryTask(keys, es[1]) /\ Tail(work) = Image(EntryOf(keys), Tail(es))
    BY <1>1, <1>5, EntryHead
  <2>2. work[1].task = "entry"
    BY <2>1 DEF EntryTask
  <2>3. work # <<>>
    <3>1. work = Image(EntryOf(keys), es)
      BY <1>1, <1>5, StackTypes
    <3>2. Maps(EntryOf(keys), DOMAIN src, AllTasks(f, keys))
      BY TaskMaps
    <3>3. Len(work) = Len(es)
      BY <1>1, <3>1, <3>2, ImageFacts
    <3>4. Len(es) # 0
      BY <1>1, <1>5, EmptySeq
    <3> QED
      BY <1>2, <3>3, <3>4
  <2> QED
    BY <1>1, <1>4, <1>5, <2>1, <2>2, <2>3 DEF AtEntryAs
<1>6. CASE cs = <<>> /\ es = <<>>
  <2>1. work = Image(EntryOf(keys), <<>>)
    BY <1>1, <1>6, StackTypes
  <2>2. work = <<>>
    BY <2>1, ImageNil
  <2> QED
    BY <1>1, <1>4, <1>6, <2>2
<1> QED
  BY <1>3, <1>5, <1>6

LEMMA CollectingHead ==
  ASSUME NEW sent, NEW V, NEW f, NEW keys, NEW ks, NEW got, NEW p, NEW es,
         CollectingAs(work, sent, V, f, keys, ks, got, p, es)
  PROVE  AtDirAs(sent, V, f, keys, ks, got, p, es) /\ work[1].task = "dir" /\ work # <<>>
<1>1. work = Join(<<Reading(ks, got, p)>>, Image(EntryOf(keys), es)) /\ es \in Seq(DOMAIN src)
  BY DEF CollectingAs, Owes
<1> DEFINE x == Reading(ks, got, p)
           b == Image(EntryOf(keys), es)
<1>2. b \in Seq(AllTasks(f, keys))
  <2>1. <<>> \in Seq(FileKeys(f))
    OBVIOUS
  <2> QED
    BY <1>1, <2>1, StackTypes
<1>3. x.task = "dir"
  BY DEF Reading
<1>4. work = Join(<<x>>, b)
  BY <1>1
<1> HIDE DEF x, b
<1>5. work[1] = x /\ Tail(work) = b /\ work # <<>>
  BY <1>2, <1>4, ConsFacts
<1> QED
  BY <1>1, <1>3, <1>5 DEF AtDirAs, x, b

LEMMA ExportsHead ==
  ASSUME scenario \in Scenarios, NEW sent, NEW D, Exports(sent, D)
  PROVE  /\ At("entry") => \E V, f, keys, es : AtEntryAs(sent, D, V, f, keys, es)
         /\ At("content") => \E V, f, keys, cs, es : AtContentAs(sent, D, V, f, keys, cs, es)
         /\ At("dir") => D = <<>> /\ \E V, f, keys, ks, got, p, es : AtDirAs(sent, V, f, keys, ks, got, p, es)
         /\ work = <<>> => D = <<>> /\ sent = DOMAIN src
         /\ work = <<EndTask>> => D = <<>> /\ sent = DOMAIN src
         /\ work # <<FailedTask>>
<1>1. ASSUME NEW V, NEW f, NEW keys, NEW cs, NEW es, WritingAs(work, sent, D, V, f, keys, cs, es)
      PROVE  \/ AtContentAs(sent, D, V, f, keys, cs, es) /\ work[1].task = "content" /\ work # <<>>
             \/ AtEntryAs(sent, D, V, f, keys, es) /\ work[1].task = "entry" /\ work # <<>>
             \/ work = <<>> /\ D = <<>> /\ sent = DOMAIN src
  BY <1>1, WritingHead, OwesNothing
<1>2. ASSUME NEW V, NEW f, NEW keys, NEW ks, NEW got, NEW p, NEW es,
             CollectingAs(work, sent, V, f, keys, ks, got, p, es)
      PROVE  AtDirAs(sent, V, f, keys, ks, got, p, es) /\ work[1].task = "dir" /\ work # <<>>
  BY <1>2, CollectingHead
<1>3. \/ (\E V, f, keys, cs, es : AtContentAs(sent, D, V, f, keys, cs, es))
           /\ work[1].task = "content" /\ work # <<>>
      \/ (\E V, f, keys, es : AtEntryAs(sent, D, V, f, keys, es)) /\ work[1].task = "entry" /\ work # <<>>
      \/ work = <<>> /\ D = <<>> /\ sent = DOMAIN src
      \/ D = <<>> /\ (\E V, f, keys, ks, got, p, es : AtDirAs(sent, V, f, keys, ks, got, p, es))
           /\ work[1].task = "dir" /\ work # <<>>
      \/ work = <<EndTask>> /\ sent = DOMAIN src /\ D = <<>>
  BY <1>1, <1>2 DEF Exports, ExportsAs
<1>4. /\ work = <<EndTask>> => work[1].task = "end" /\ work # <<>>
      /\ work = <<FailedTask>> => work[1].task = "failed" /\ work # <<>>
  BY DEF EndTask, FailedTask
<1>5. \A t : At(t) => work[1].task = t /\ work # <<>>
  BY DEF At, Running
<1>6. At("entry") => \E V, f, keys, es : AtEntryAs(sent, D, V, f, keys, es)
  <2>1. At("entry") => work[1].task = "entry" /\ work # <<>>
    BY <1>5
  <2> QED
    BY <1>3, <1>4, <2>1
<1>7. At("content") => \E V, f, keys, cs, es : AtContentAs(sent, D, V, f, keys, cs, es)
  <2>1. At("content") => work[1].task = "content" /\ work # <<>>
    BY <1>5
  <2> QED
    BY <1>3, <1>4, <2>1
<1>8. At("dir") => D = <<>> /\ \E V, f, keys, ks, got, p, es : AtDirAs(sent, V, f, keys, ks, got, p, es)
  <2>1. At("dir") => work[1].task = "dir" /\ work # <<>>
    BY <1>5
  <2> QED
    BY <1>3, <1>4, <2>1
<1>9. work = <<>> => D = <<>> /\ sent = DOMAIN src
  BY <1>3, <1>4
<1>10. work = <<EndTask>> => D = <<>> /\ sent = DOMAIN src
  BY <1>3, <1>4
<1>11. work # <<FailedTask>>
  BY <1>3, <1>4
<1> QED
  BY <1>6, <1>7, <1>8, <1>9, <1>10, <1>11

\* What a step of the exporter offers: nothing, a header, a chunk or the trailer.
Offers(sent, D, more, E) ==
  \/ pipe' = pipe /\ E = D /\ more = sent
  \/ \E c \in DOMAIN src \ sent :
       /\ src[c].kind = "sock" /\ (Front(c) = <<>> \/ Front(c) \in sent)
       /\ pipe' = pipe /\ E = D /\ more = sent \cup {c}
  \/ \E c \in DOMAIN src \ sent :
       /\ Headed(c) /\ (Front(c) = <<>> \/ Front(c) \in sent)
       /\ pipe' = <<HeaderOf(c)>> /\ D = <<>> /\ E = DataOf(c) /\ more = sent \cup {c}
  \/ \E d \in Chunk : pipe' = <<ChunkUnit(d)>> /\ D = Join(<<d>>, E) /\ more = sent
  \/ pipe' = <<Trailer>> /\ work' = <<EndTask>> /\ E = D /\ more = sent

LEMMA EntryTaskFacts ==
  ASSUME scenario \in Scenarios, NEW V, NEW f, NEW keys, Known(V, f, keys), NEW c \in DOMAIN src
  PROVE  /\ EntryTask(keys, c).e.kind = src[c].kind
         /\ Header(EntryTask(keys, c)) = HeaderOf(c)
         /\ src[c].kind = "dir" => Follow(EntryTask(keys, c)) = <<Reading(<<keys[c]>>, <<>>, c)>>
         /\ src[c].kind = "reg" => Follow(EntryTask(keys, c)) = <<ContentTask(keys[c])>>
         /\ src[c].kind \notin {"dir", "reg"} => Follow(EntryTask(keys, c)) = <<>>
<1>1. c \in Seq(Name) /\ c # <<>>
  BY SourceFacts
<1>2. Append(Front(c), Last(c)) = c
  BY <1>1, PathSplit
<1> DEFINE t == EntryTask(keys, c)
<1>3. /\ t.path = Front(c) /\ t.e.name = Last(c) /\ t.e.kind = src[c].kind /\ t.e.mode = src[c].mode
      /\ t.e.owner = src[c].owner /\ t.e.xattrs = Xattrs(src[c])
      /\ t.e.data = (IF src[c].kind = "reg" THEN <<>> ELSE src[c].data)
      /\ HasContent(src[c]) => t.e.content[1] = keys[c]
  BY DEF EntryTask, Entry
<1> HIDE DEF t
<1>4. Append(t.path, t.e.name) = c
  BY <1>2, <1>3
<1>5. src[c].kind \in {"dir", "reg"} => t.e.content[1] = keys[c]
  BY <1>3 DEF HasContent
<1>6. (IF t.e.kind = "reg" THEN t.e.content[1].length ELSE 0) = (IF src[c].kind = "reg" THEN Len(src[c].data) ELSE 0)
  <2>1. src[c].kind = "reg" => keys[c].length = Len(src[c].data)
    BY NodeKey
  <2> QED
    BY <1>3, <1>5, <2>1
<1>7. Header(t) = HeaderOf(c)
  BY <1>3, <1>4, <1>6 DEF Header, HeaderOf
<1>8. ASSUME src[c].kind = "dir" PROVE Follow(t) = <<Reading(<<keys[c]>>, <<>>, c)>>
  BY <1>3, <1>4, <1>5, <1>8 DEF Follow, Reading, DirTask
<1>9. ASSUME src[c].kind = "reg" PROVE Follow(t) = <<ContentTask(keys[c])>>
  BY <1>3, <1>5, <1>9 DEF Follow, ContentTask
<1>10. ASSUME src[c].kind \notin {"dir", "reg"} PROVE Follow(t) = <<>>
  BY <1>3, <1>10 DEF Follow
<1> QED
  BY <1>3, <1>7, <1>8, <1>9, <1>10 DEF t

\* Key k alone stands for what f says.
LEMMA FlatSingle ==
  ASSUME NEW V, NEW f, f \in [DOMAIN f -> Seq(V)], NEW K, K \subseteq DOMAIN f, NEW k \in K
  PROVE  <<k>> \in Seq(K) /\ Flat(f, <<k>>) = f[k] /\ f[k] \in Seq(V)
<1>1. <<k>> \in Seq(K) /\ <<k>> \in Seq(DOMAIN f)
  OBVIOUS
<1>2. Lists(V, f, <<k>>)
  BY <1>1 DEF Lists
<1> QED
  BY <1>1, <1>2, FlatOne

LEMMA ExportsEntry ==
  ASSUME scenario \in Scenarios, scenario' = scenario, NEW sent, NEW D, Exports(sent, D), ExportEntry
  PROVE  \E more, E : ExportsAs(work', more, E) /\ Offers(sent, D, more, E)
<1>1. /\ At("entry")
      /\ IF work[1].e.kind = "sock"
         THEN work' = Tail(work) /\ UNCHANGED pipe
         ELSE pipe' = <<Header(work[1])>> /\ work' = Join(Follow(work[1]), Tail(work))
  BY DEF ExportEntry, Join
<1>2. PICK V, f, keys, es : AtEntryAs(sent, D, V, f, keys, es)
  BY <1>1, ExportsHead
<1>3. PICK c, t, at, more :
        /\ c = es[1] /\ t = Tail(es) /\ at = IF src[es[1]].kind = "dir" THEN {es[1]} ELSE {}
        /\ more = sent \cup {c}
  OBVIOUS
<1>4. /\ D = <<>> /\ Known(V, f, keys) /\ es # <<>> /\ es \in Seq(DOMAIN src) /\ Owes(sent, es, {})
      /\ work[1] = EntryTask(keys, c) /\ Tail(work) = Image(EntryOf(keys), t)
  BY <1>2, <1>3 DEF AtEntryAs
<1>5. /\ c \in DOMAIN src \ sent /\ (Front(c) = <<>> \/ Front(c) \in sent)
      /\ t \in Seq(DOMAIN src) /\ Owes(more, t, at)
  BY <1>3, <1>4, OwesEntry
<1>6. /\ work[1].e.kind = src[c].kind /\ Header(work[1]) = HeaderOf(c)
      /\ src[c].kind = "dir" => Follow(work[1]) = <<Reading(<<keys[c]>>, <<>>, c)>>
      /\ src[c].kind = "reg" => Follow(work[1]) = <<ContentTask(keys[c])>>
      /\ src[c].kind \notin {"dir", "reg"} => Follow(work[1]) = <<>>
  <2>1. Known(V, f, keys) /\ c \in DOMAIN src
    BY <1>4, <1>5
  <2>2. /\ EntryTask(keys, c).e.kind = src[c].kind
        /\ Header(EntryTask(keys, c)) = HeaderOf(c)
        /\ src[c].kind = "dir" => Follow(EntryTask(keys, c)) = <<Reading(<<keys[c]>>, <<>>, c)>>
        /\ src[c].kind = "reg" => Follow(EntryTask(keys, c)) = <<ContentTask(keys[c])>>
        /\ src[c].kind \notin {"dir", "reg"} => Follow(EntryTask(keys, c)) = <<>>
    BY <2>1, EntryTaskFacts
  <2>3. work[1] = EntryTask(keys, c)
    BY <1>4
  <2> QED
    BY <2>2, <2>3
<1>7. PICK w : w = work'
  OBVIOUS
<1>8. f \in [DOMAIN f -> Seq(V)] /\ <<>> \in Seq(FileKeys(f)) /\ <<>> \in Seq(Chunk)
  BY <1>4 DEF Known, Knows, Denotes
<1>9. Flat(f, <<>>) = <<>> /\ Stack(f, keys, <<>>, t) = Image(EntryOf(keys), t)
      /\ Image(EntryOf(keys), t) \in Seq(AllTasks(f, keys))
  <2>1. Lists(V, f, <<>>)
    BY <1>8 DEF Lists
  <2> QED
    BY <1>5, <1>8, <2>1, FlatNil, StackTypes
<1>10. CASE src[c].kind = "sock"
  <2>1. w = Stack(f, keys, <<>>, t) /\ pipe' = pipe
    BY <1>1, <1>4, <1>6, <1>7, <1>9, <1>10
  <2>2. Owes(more, t, {})
    BY <1>3, <1>5, <1>10
  <2>3. WritingAs(w, more, <<>>, V, f, keys, <<>>, t)
    BY <1>4, <1>8, <1>9, <2>1, <2>2 DEF WritingAs
  <2>4. ExportsAs(work', more, <<>>)
    BY <1>7, <2>3 DEF ExportsAs
  <2>5. Offers(sent, D, more, <<>>)
    BY <1>3, <1>4, <1>5, <1>10, <2>1 DEF Offers
  <2> QED
    BY <2>4, <2>5
<1>11. ASSUME src[c].kind # "sock"
       PROVE  /\ Headed(c) /\ w = Join(Follow(work[1]), Image(EntryOf(keys), t))
              /\ Offers(sent, D, more, DataOf(c))
  <2>1. pipe' = <<HeaderOf(c)>> /\ w = Join(Follow(work[1]), Image(EntryOf(keys), t)) /\ Headed(c)
    BY <1>1, <1>4, <1>5, <1>6, <1>7, <1>11 DEF Headed
  <2> QED
    BY <1>3, <1>4, <1>5, <2>1 DEF Offers
<1>12. CASE src[c].kind = "dir"
  <2>1. keys[c] \in DirKeys(f) /\ f[keys[c]] = Input(src, keys, c) /\ DirKeys(f) \subseteq DOMAIN f
    BY <1>4, <1>5, <1>12, NodeKey DEF DirKeys
  <2>2. /\ <<keys[c]>> \in Seq(DirKeys(f)) /\ Flat(f, <<keys[c]>>) = f[keys[c]] /\ f[keys[c]] \in Seq(V)
    BY <1>8, <2>1, FlatSingle
  <2>3. Join(<<>>, Flat(f, <<keys[c]>>)) = Input(src, keys, c) /\ <<>> \in Seq(V)
    BY <2>1, <2>2, JoinNil
  <2>4. c \in Seq(Name) /\ IsDirectory(src, c)
    BY <1>5, <1>12, SourceFacts DEF IsDirectory
  <2>5. w = Join(<<Reading(<<keys[c]>>, <<>>, c)>>, Image(EntryOf(keys), t)) /\ Owes(more, t, {c})
    BY <1>3, <1>5, <1>6, <1>11, <1>12
  <2>6. CollectingAs(w, more, V, f, keys, <<keys[c]>>, <<>>, c, t)
    BY <1>4, <2>2, <2>3, <2>4, <2>5 DEF CollectingAs
  <2>7. DataOf(c) = <<>>
    BY <1>12 DEF DataOf
  <2>8. ExportsAs(work', more, <<>>)
    <3>1. ExportsAs(w, more, <<>>)
      BY <2>6 DEF ExportsAs
    <3> QED
      BY <1>7, <3>1
  <2> QED
    BY <1>11, <1>12, <2>7, <2>8
<1>13. CASE src[c].kind = "reg"
  <2>1. keys[c] \in FileKeys(f) /\ f[keys[c]] = src[c].data /\ FileKeys(f) \subseteq DOMAIN f
    BY <1>4, <1>5, <1>13, NodeKey DEF FileKeys
  <2>2. /\ <<keys[c]>> \in Seq(FileKeys(f)) /\ Flat(f, <<keys[c]>>) = f[keys[c]]
    BY <1>8, <2>1, FlatSingle
  <2>3. DataOf(c) = src[c].data /\ src[c].data \in Seq(Chunk)
    BY <1>5, <1>13, ScenarioFacts DEF DataOf
  <2>4. Image(ContentOf(f), <<keys[c]>>) = <<ContentTask(keys[c])>>
    <3>1. Maps(ContentOf(f), FileKeys(f), AllTasks(f, keys)) /\ ContentOf(f)[keys[c]] = ContentTask(keys[c])
      BY <2>1, TaskMaps
    <3> DEFINE ks == <<keys[c]>>
    <3>2. ks # <<>> /\ ks[1] = keys[c] /\ Tail(ks) = <<>> /\ ks \in Seq(FileKeys(f))
      BY <2>2
    <3> HIDE DEF ks
    <3>3. Image(ContentOf(f), ks) = Join(<<ContentOf(f)[ks[1]]>>, Image(ContentOf(f), Tail(ks)))
      BY <3>1, <3>2, ImageHead
    <3>4. Image(ContentOf(f), ks) = Join(<<ContentTask(keys[c])>>, <<>>)
      BY <3>1, <3>2, <3>3, ImageNil
    <3>5. <<ContentTask(keys[c])>> \in Seq({ContentTask(keys[c])})
      OBVIOUS
    <3> QED
      BY <3>4, <3>5, JoinNil DEF ks
  <2>5. w = Stack(f, keys, <<keys[c]>>, t) /\ Owes(more, t, {})
    BY <1>3, <1>5, <1>6, <1>11, <1>13, <2>4 DEF Stack
  <2>6. WritingAs(w, more, DataOf(c), V, f, keys, <<keys[c]>>, t)
    BY <1>4, <2>1, <2>2, <2>3, <2>5 DEF WritingAs
  <2>7. PICK E : E = DataOf(c)
    OBVIOUS
  <2>8. ExportsAs(work', more, E)
    <3>1. ExportsAs(w, more, E)
      BY <2>6, <2>7 DEF ExportsAs
    <3> QED
      BY <1>7, <3>1
  <2>9. Offers(sent, D, more, E)
    BY <1>11, <1>13, <2>7
  <2> QED
    BY <2>8, <2>9
<1>14. CASE src[c].kind \notin {"sock", "dir", "reg"}
  <2>1. w = Stack(f, keys, <<>>, t)
    BY <1>6, <1>9, <1>11, <1>14, JoinNil
  <2>2. Owes(more, t, {})
    BY <1>3, <1>5, <1>14
  <2>3. WritingAs(w, more, <<>>, V, f, keys, <<>>, t)
    BY <1>4, <1>8, <1>9, <2>1, <2>2 DEF WritingAs
  <2>4. ExportsAs(work', more, <<>>)
    <3>1. ExportsAs(w, more, <<>>)
      BY <2>3 DEF ExportsAs
    <3> QED
      BY <1>7, <3>1
  <2>5. DataOf(c) = <<>>
    BY <1>14 DEF DataOf
  <2> QED
    BY <1>11, <1>14, <2>4, <2>5
<1> QED
  BY <1>10, <1>12, <1>13, <1>14

LEMMA FlatUncons ==
  ASSUME NEW V, NEW f, f \in [DOMAIN f -> Seq(V)], NEW K, K \subseteq DOMAIN f,
         NEW ks \in Seq(K), ks # <<>>
  PROVE  /\ Flat(f, ks) = Join(f[ks[1]], Flat(f, Tail(ks)))
         /\ f[ks[1]] \in Seq(V) /\ Flat(f, Tail(ks)) \in Seq(V)
<1>1. /\ ks = Join(<<ks[1]>>, Tail(ks)) /\ ks[1] \in K /\ Tail(ks) \in Seq(K) /\ <<ks[1]>> \in Seq(K)
  BY Uncons
<1>2. PICK k, h, t : k = ks[1] /\ h = <<k>> /\ t = Tail(ks)
  OBVIOUS
<1>3. ks = Join(h, t) /\ k \in K /\ t \in Seq(K) /\ h \in Seq(K)
  BY <1>1, <1>2
<1>4. Flat(f, h) = f[k] /\ f[k] \in Seq(V)
  <2>1. Flat(f, <<k>>) = f[k] /\ f[k] \in Seq(V)
    BY <1>3, FlatSingle
  <2> QED
    BY <1>2, <2>1
<1>5. Lists(V, f, h) /\ Lists(V, f, t)
  <2>1. h \in Seq(DOMAIN f) /\ t \in Seq(DOMAIN f)
    BY <1>3, SeqMonotonic
  <2> QED
    BY <2>1 DEF Lists
<1>6. Flat(f, Join(h, t)) = Join(Flat(f, h), Flat(f, t))
  BY <1>5, FlatConcat
<1>7. Flat(f, t) \in Seq(V)
  BY <1>5, CatFacts
<1> QED
  BY <1>2, <1>3, <1>4, <1>6, <1>7

\* The object at the head of the stack is a file's.
LEMMA ContentKey ==
  ASSUME NEW sent, NEW D, NEW V, NEW f, NEW keys, NEW cs, NEW es, NEW k, k = cs[1],
         AtContentAs(sent, D, V, f, keys, cs, es)
  PROVE  /\ f \in [DOMAIN f -> Seq(V)] /\ FileKeys(f) \subseteq DOMAIN f
         /\ k \in FileKeys(f) /\ Tail(cs) \in Seq(FileKeys(f))
         /\ D = Join(f[k], Flat(f, Tail(cs))) /\ Flat(f, Tail(cs)) \in Seq(V) /\ D \in Seq(Chunk)
         /\ f[k] = Value(f, k) /\ k.type \in {"Blob", "FileNode"}
         /\ k.type = "FileNode" => k.body \in Seq(FileKeys(f))
<1>1. /\ Known(V, f, keys) /\ cs \in Seq(FileKeys(f)) /\ D = Flat(f, cs) /\ cs # <<>> /\ D \in Seq(Chunk)
  BY DEF AtContentAs, WritingAs
<1>2. f \in [DOMAIN f -> Seq(V)] /\ FileKeys(f) \subseteq DOMAIN f /\ Denotes(V, f)
  BY <1>1 DEF Known, Knows, Denotes, FileKeys
<1>3. k \in FileKeys(f) /\ Tail(cs) \in Seq(FileKeys(f))
  BY <1>1, Uncons
<1>4. D = Join(f[k], Flat(f, Tail(cs))) /\ Flat(f, Tail(cs)) \in Seq(V)
  BY <1>1, <1>2, FlatUncons
<1>5. WellFormed(f, k) /\ f[k] = Value(f, k) /\ k.type \in {"Blob", "FileNode"}
  BY <1>2, <1>3 DEF Denotes, FileKeys, IsFileKey
<1> QED
  BY <1>1, <1>2, <1>3, <1>4, <1>5 DEF WellFormed

LEMMA ContentBody ==
  ASSUME NEW f, NEW k, k.body \in Seq(FileKeys(f))
  PROVE  [i \in DOMAIN k.body |-> [task |-> "content", key |-> k.body[i]]] = Image(ContentOf(f), k.body)
<1> DEFINE b == k.body
<1>1. b \in Seq(FileKeys(f)) /\ DOMAIN b = 1..Len(b)
  OBVIOUS
<1>2. \A i \in DOMAIN b : b[i] \in FileKeys(f)
  BY <1>1
<1> HIDE DEF b
<1>3. \A i \in DOMAIN b : ContentOf(f)[b[i]] = [task |-> "content", key |-> b[i]]
  BY <1>2 DEF ContentOf, ContentTask
<1>4. [i \in DOMAIN b |-> [task |-> "content", key |-> b[i]]] = [i \in DOMAIN b |-> ContentOf(f)[b[i]]]
  BY <1>3
<1> QED
  BY <1>1, <1>4 DEF b, Image

LEMMA ExportsContent ==
  ASSUME scenario \in Scenarios, scenario' = scenario, NEW sent, NEW D, Exports(sent, D), WriteContent
  PROVE  \E more, E : ExportsAs(work', more, E) /\ Offers(sent, D, more, E)
<1>1. At("content")
  BY DEF WriteContent
<1>2. PICK V, f, keys, cs, es : AtContentAs(sent, D, V, f, keys, cs, es)
  BY <1>1, ExportsHead
<1>3. PICK k, t, R, w, s, b :
        k = cs[1] /\ t = Tail(cs) /\ R = Flat(f, Tail(cs)) /\ w = work' /\ s = Tail(work) /\ b = k.body
  OBVIOUS
<1>4. /\ work[1].key = k /\ s = Stack(f, keys, t, es)
      /\ Known(V, f, keys) /\ Owes(sent, es, {}) /\ es \in Seq(DOMAIN src)
  BY <1>2, <1>3 DEF AtContentAs, WritingAs, ContentTask
<1>5. /\ f \in [DOMAIN f -> Seq(V)] /\ FileKeys(f) \subseteq DOMAIN f
      /\ k \in FileKeys(f) /\ t \in Seq(FileKeys(f))
      /\ D = Join(f[k], R) /\ R \in Seq(V) /\ D \in Seq(Chunk)
      /\ f[k] = Value(f, k) /\ k.type \in {"Blob", "FileNode"}
      /\ k.type = "FileNode" => b \in Seq(FileKeys(f))
  <2>1. k = cs[1]
    BY <1>3
  <2>2. /\ f \in [DOMAIN f -> Seq(V)] /\ FileKeys(f) \subseteq DOMAIN f
        /\ k \in FileKeys(f) /\ Tail(cs) \in Seq(FileKeys(f))
        /\ D = Join(f[k], Flat(f, Tail(cs))) /\ Flat(f, Tail(cs)) \in Seq(V) /\ D \in Seq(Chunk)
        /\ f[k] = Value(f, k) /\ k.type \in {"Blob", "FileNode"}
        /\ k.type = "FileNode" => k.body \in Seq(FileKeys(f))
    BY <1>2, <2>1, ContentKey
  <2> QED
    BY <1>3, <2>2
<1>6. /\ k.type = "Blob" => w = s /\ (IF k.length = 0 THEN pipe' = pipe ELSE pipe' = <<ChunkUnit(b)>>)
      /\ k.type # "Blob" =>
           pipe' = pipe /\ w = Join([i \in DOMAIN k.body |-> [task |-> "content", key |-> k.body[i]]], s)
  BY <1>3, <1>4 DEF WriteContent, ChunkUnit, Join
<1>7. CASE k.type = "Blob" /\ k.length = 0
  <2>1. f[k] = <<>>
    BY <1>5, <1>7 DEF Value
  <2>2. D = R
    <3>1. Join(<<>>, R) = R
      BY <1>5, JoinNil
    <3> QED
      BY <1>5, <2>1, <3>1
  <2>3. WritingAs(w, sent, D, V, f, keys, t, es)
    BY <1>3, <1>4, <1>5, <1>6, <1>7, <2>2 DEF WritingAs
  <2>4. ExportsAs(w, sent, D)
    BY <2>3 DEF ExportsAs
  <2>5. ExportsAs(work', sent, D)
    BY <1>3, <2>4
  <2>6. Offers(sent, D, sent, D)
    BY <1>6, <1>7 DEF Offers
  <2> QED
    BY <2>5, <2>6
<1>8. CASE k.type = "Blob" /\ k.length # 0
  <2>1. f[k] = <<b>>
    BY <1>3, <1>5, <1>8 DEF Value
  <2>2. D = Join(<<b>>, R)
    BY <1>5, <2>1
  <2>3. D[1] = b /\ Tail(D) = R /\ D # <<>>
    <3>1. Join(<<b>>, R)[1] = b /\ Tail(Join(<<b>>, R)) = R /\ Join(<<b>>, R) # <<>>
      BY <1>5, ConsFacts
    <3> QED
      BY <2>2, <3>1
  <2>4. b \in Chunk /\ R \in Seq(Chunk)
    <3>1. D[1] \in Chunk /\ Tail(D) \in Seq(Chunk)
      BY <1>5, <2>3, Uncons
    <3> QED
      BY <2>3, <3>1
  <2>5. WritingAs(w, sent, R, V, f, keys, t, es)
    BY <1>3, <1>4, <1>5, <1>6, <1>8, <2>4 DEF WritingAs
  <2>6. ExportsAs(w, sent, R)
    BY <2>5 DEF ExportsAs
  <2>7. ExportsAs(work', sent, R)
    BY <1>3, <2>6
  <2>8. Offers(sent, D, sent, R)
    BY <1>6, <1>8, <2>2, <2>4 DEF Offers
  <2> QED
    BY <2>7, <2>8
<1>9. CASE k.type = "FileNode"
  <2>1. b \in Seq(FileKeys(f)) /\ f[k] = Flat(f, b)
    BY <1>3, <1>5, <1>9 DEF Value
  <2>2. w = Join(Image(ContentOf(f), b), s) /\ pipe' = pipe
    <3>1. [i \in DOMAIN k.body |-> [task |-> "content", key |-> k.body[i]]] = Image(ContentOf(f), k.body)
      BY <1>3, <2>1, ContentBody
    <3> QED
      BY <1>3, <1>6, <1>9, <3>1
  <2>3. PICK u : u = Join(b, t)
    OBVIOUS
  <2>4. u \in Seq(FileKeys(f))
    BY <1>5, <2>1, <2>3, JoinType
  <2>5. D = Flat(f, u)
    <3>1. b \in Seq(DOMAIN f) /\ t \in Seq(DOMAIN f)
      BY <1>5, <2>1, SeqMonotonic
    <3>2. Lists(V, f, b) /\ Lists(V, f, t)
      BY <1>5, <3>1 DEF Lists
    <3>3. Flat(f, Join(b, t)) = Join(Flat(f, b), Flat(f, t))
      BY <3>2, FlatConcat
    <3> QED
      BY <1>3, <1>5, <2>1, <2>3, <3>3
  <2>6. w = Stack(f, keys, u, es)
    <3>1. PICK A, B, C : A = Image(ContentOf(f), b) /\ B = Image(ContentOf(f), t) /\ C = Image(EntryOf(keys), es)
      OBVIOUS
    <3>2. A \in Seq(AllTasks(f, keys)) /\ B \in Seq(AllTasks(f, keys)) /\ C \in Seq(AllTasks(f, keys))
      BY <1>4, <1>5, <2>1, <3>1, StackTypes
    <3>3. Join(Join(A, B), C) = Join(A, Join(B, C))
      BY <3>2, JoinAssoc
    <3>4. Maps(ContentOf(f), FileKeys(f), AllTasks(f, keys))
      BY TaskMaps
    <3>5. Image(ContentOf(f), Join(b, t)) = Join(Image(ContentOf(f), b), Image(ContentOf(f), t))
      BY <1>5, <2>1, <3>4, ImageJoin
    <3> QED
      BY <1>4, <2>2, <2>3, <3>1, <3>3, <3>5 DEF Stack
  <2>7. WritingAs(w, sent, D, V, f, keys, u, es)
    BY <1>4, <1>5, <2>4, <2>5, <2>6 DEF WritingAs
  <2>8. ExportsAs(w, sent, D)
    BY <2>7 DEF ExportsAs
  <2>9. ExportsAs(work', sent, D)
    BY <1>3, <2>8
  <2>10. Offers(sent, D, sent, D)
    BY <2>2 DEF Offers
  <2> QED
    BY <2>9, <2>10
<1> QED
  BY <1>5, <1>7, <1>8, <1>9

\* What the builder of a directory gets is in order.
LEMMA InputFacts ==
  ASSUME scenario \in Scenarios, NEW keys, NEW p \in Seq(Name), IsDirectory(src, p), NEW r, r = ReadDir(src, p)
  PROVE  /\ r \in Seq(DOMAIN src) /\ Len(Input(src, keys, p)) = Len(r) /\ Len(r) \in Nat
         /\ DOMAIN Input(src, keys, p) = 1..Len(r)
         /\ \A i \in 1..Len(r) : r[i] \in DOMAIN src /\ Input(src, keys, p)[i] = Entry(src, keys, r[i])
         /\ \A i \in 1..Len(r) : Front(r[i]) = p
         /\ \A i, j \in 1..Len(r) :
              i < j => Input(src, keys, p)[i].name < Input(src, keys, p)[j].name
<1>1. Listing(src, p, r) /\ Children(src, p) = {q \in DOMAIN src : Front(q) = p}
  BY SourceFacts, ReadDirFacts, ChildrenFacts
<1>2. /\ r \in Seq(Children(src, p))
      /\ \A i, j \in 1..Len(r) : i < j => Last(r[i]) < Last(r[j])
  BY <1>1 DEF Listing
<1>3. r \in Seq(DOMAIN src)
  BY <1>1, <1>2, SeqMonotonic
<1>4. Len(r) \in Nat /\ DOMAIN r = 1..Len(r) /\ \A i \in 1..Len(r) : r[i] \in DOMAIN src /\ r[i] \in Children(src, p)
  BY <1>2, <1>3
<1>5. Input(src, keys, p) = [i \in 1..Len(r) |-> Entry(src, keys, r[i])]
  BY <1>4 DEF Input
<1>6. /\ DOMAIN Input(src, keys, p) = 1..Len(r) /\ Len(Input(src, keys, p)) = Len(r)
      /\ \A i \in 1..Len(r) : Input(src, keys, p)[i] = Entry(src, keys, r[i])
  BY <1>4, <1>5
<1>7. \A i \in 1..Len(r) : Input(src, keys, p)[i].name = Last(r[i])
  BY <1>6 DEF Entry
<1> QED
  BY <1>1, <1>2, <1>3, <1>4, <1>6, <1>7

\* The entries collected are a prefix of it.
LEMMA CollectedInOrder ==
  ASSUME scenario \in Scenarios, NEW keys, NEW p \in Seq(Name), IsDirectory(src, p),
         NEW V, NEW a \in Seq(V), NEW b \in Seq(V), Join(a, b) = Input(src, keys, p)
  PROVE  InOrder(a)
<1>1. PICK r, u : r = ReadDir(src, p) /\ u = Input(src, keys, p)
  OBVIOUS
<1>2. Len(u) = Len(r) /\ Len(r) \in Nat /\ \A i, j \in 1..Len(r) : i < j => u[i].name < u[j].name
  BY <1>1, InputFacts
<1>3. Joined(u, a, b)
  BY <1>1, JoinAt
<1>4. /\ Len(u) = Len(a) + Len(b) /\ Len(a) \in Nat /\ Len(b) \in Nat
      /\ \A i \in 1..Len(a) : u[i] = a[i]
  BY <1>3 DEF Joined
<1>5. ASSUME NEW i \in 1..(Len(a) - 1) PROVE a[i].name < a[i + 1].name
  <2>1. i \in 1..Len(a) /\ i + 1 \in 1..Len(a) /\ i \in 1..Len(r) /\ i + 1 \in 1..Len(r) /\ i < i + 1
    BY <1>2, <1>4
  <2>2. u[i].name < u[i + 1].name
    BY <1>2, <2>1
  <2> QED
    BY <1>4, <2>1, <2>2
<1> QED
  BY <1>5 DEF InOrder

\* The object read next is a directory's.
LEMMA DirKey ==
  ASSUME NEW sent, NEW V, NEW f, NEW keys, NEW ks, NEW got, NEW p, NEW es, NEW k, k = ks[1],
         CollectingAs(work, sent, V, f, keys, ks, got, p, es), ks # <<>>
  PROVE  /\ f \in [DOMAIN f -> Seq(V)] /\ DirKeys(f) \subseteq DOMAIN f
         /\ k \in DirKeys(f) /\ Tail(ks) \in Seq(DirKeys(f))
         /\ Flat(f, ks) = Join(f[k], Flat(f, Tail(ks))) /\ Flat(f, Tail(ks)) \in Seq(V) /\ f[k] \in Seq(V)
         /\ f[k] = Value(f, k) /\ k.type \in {"DirLeaf", "DirNode"}
         /\ k.type = "DirNode" => Kids(k.body) \in Seq(DirKeys(f))
<1>1. Known(V, f, keys) /\ ks \in Seq(DirKeys(f))
  BY DEF CollectingAs
<1>2. f \in [DOMAIN f -> Seq(V)] /\ DirKeys(f) \subseteq DOMAIN f /\ Denotes(V, f)
  BY <1>1 DEF Known, Knows, Denotes, DirKeys
<1>3. k \in DirKeys(f) /\ Tail(ks) \in Seq(DirKeys(f))
  BY <1>1, Uncons
<1>4. Flat(f, ks) = Join(f[k], Flat(f, Tail(ks))) /\ Flat(f, Tail(ks)) \in Seq(V) /\ f[k] \in Seq(V)
  BY <1>1, <1>2, FlatUncons
<1>5. WellFormed(f, k) /\ f[k] = Value(f, k) /\ k.type \in {"DirLeaf", "DirNode"}
  BY <1>2, <1>3 DEF Denotes, DirKeys, IsDirKey
<1> QED
  BY <1>2, <1>3, <1>4, <1>5 DEF WellFormed

LEMMA ExportsCollect ==
  ASSUME scenario \in Scenarios, scenario' = scenario, NEW sent, NEW D, Exports(sent, D), collectEntries
  PROVE  /\ \E more, E : ExportsAs(work', more, E) /\ Offers(sent, D, more, E)
         /\ closed' = closed
<1>1. At("dir") /\ work[1].keys # <<>>
  BY DEF collectEntries
<1>2. D = <<>> /\ \E V, f, keys, ks, got, p, es : AtDirAs(sent, V, f, keys, ks, got, p, es)
  BY <1>1, ExportsHead
<1>3. PICK V, f, keys, ks, got, p, es : AtDirAs(sent, V, f, keys, ks, got, p, es)
  BY <1>2
<1>4. PICK k, t, R, w, s, a :
        /\ k = ks[1] /\ t = Tail(ks) /\ R = Flat(f, Tail(ks)) /\ w = work'
        /\ s = Image(EntryOf(keys), es) /\ a = Join(got, k.body)
  OBVIOUS
<1>5. /\ CollectingAs(work, sent, V, f, keys, ks, got, p, es) /\ es \in Seq(DOMAIN src)
      /\ work[1] = Reading(ks, got, p) /\ Tail(work) = s
      /\ Known(V, f, keys) /\ got \in Seq(V) /\ p \in Seq(Name) /\ IsDirectory(src, p)
      /\ Join(got, Flat(f, ks)) = Input(src, keys, p) /\ Owes(sent, es, {p})
      /\ work = Join(<<Reading(ks, got, p)>>, s)
  BY <1>3, <1>4 DEF AtDirAs, CollectingAs
<1>6. work[1].keys = ks /\ work[1].got = got /\ work[1].path = p /\ ks # <<>>
  BY <1>1, <1>5 DEF Reading
<1>7. /\ f \in [DOMAIN f -> Seq(V)] /\ DirKeys(f) \subseteq DOMAIN f
      /\ k \in DirKeys(f) /\ t \in Seq(DirKeys(f))
      /\ Flat(f, ks) = Join(f[k], R) /\ R \in Seq(V) /\ f[k] \in Seq(V)
      /\ f[k] = Value(f, k) /\ k.type \in {"DirLeaf", "DirNode"}
      /\ k.type = "DirNode" => Kids(k.body) \in Seq(DirKeys(f))
  <2>1. k = ks[1] /\ CollectingAs(work, sent, V, f, keys, ks, got, p, es) /\ ks # <<>>
    BY <1>4, <1>5, <1>6
  <2>2. /\ f \in [DOMAIN f -> Seq(V)] /\ DirKeys(f) \subseteq DOMAIN f
        /\ k \in DirKeys(f) /\ Tail(ks) \in Seq(DirKeys(f))
        /\ Flat(f, ks) = Join(f[k], Flat(f, Tail(ks))) /\ Flat(f, Tail(ks)) \in Seq(V) /\ f[k] \in Seq(V)
        /\ f[k] = Value(f, k) /\ k.type \in {"DirLeaf", "DirNode"}
        /\ k.type = "DirNode" => Kids(k.body) \in Seq(DirKeys(f))
    BY <2>1, DirKey
  <2> QED
    BY <1>4, <2>2
<1>8. s \in Seq(AllTasks(f, keys))
  <2>1. <<>> \in Seq(FileKeys(f))
    OBVIOUS
  <2> QED
    BY <1>4, <1>5, <2>1, StackTypes
<1>9. ASSUME NEW y PROVE HeadSet(work, y) = Join(<<y>>, s)
  <2>1. PICK x : x = Reading(ks, got, p)
    OBVIOUS
  <2>2. HeadSet(Join(<<x>>, s), y) = Join(<<y>>, s)
    BY <1>8, ConsFacts
  <2> QED
    BY <1>5, <2>1, <2>2
<1>10. pipe' = pipe
  BY DEF collectEntries
<1>11. ASSUME NEW l \in Seq(DirKeys(f)), NEW b \in Seq(V), Join(b, Flat(f, l)) = Input(src, keys, p),
              w = Join(<<Reading(l, b, p)>>, s)
       PROVE  \E more, E : ExportsAs(work', more, E) /\ Offers(sent, D, more, E)
  <2>1. CollectingAs(w, sent, V, f, keys, l, b, p, es)
    BY <1>4, <1>5, <1>11 DEF CollectingAs
  <2>2. ExportsAs(w, sent, D)
    BY <1>2, <2>1 DEF ExportsAs
  <2>3. ExportsAs(work', sent, D)
    BY <1>4, <2>2
  <2>4. Offers(sent, D, sent, D)
    BY <1>10 DEF Offers
  <2> QED
    BY <2>3, <2>4
<1>12. CASE k.type = "DirLeaf"
  <2>1. f[k] = k.body
    BY <1>7, <1>12 DEF Value
  <2>2. a \in Seq(V) /\ Join(a, R) = Input(src, keys, p)
    <3>1. a = Join(got, f[k])
      BY <1>4, <2>1
    <3>2. Join(got, f[k]) \in Seq(V)
      BY <1>5, <1>7, JoinType
    <3>3. Join(Join(got, f[k]), R) = Join(got, Join(f[k], R))
      BY <1>5, <1>7, JoinAssoc
    <3> QED
      BY <1>5, <1>7, <3>1, <3>2, <3>3
  <2>3. InOrder(a)
    BY <1>5, <1>7, <2>2, CollectedInOrder
  <2>4. work' = [work EXCEPT ![1] = [@ EXCEPT !.keys = t, !.got = a]] /\ closed' = closed
    BY <1>4, <1>6, <1>12, <2>3 DEF collectEntries, Join
  <2>5. [work[1] EXCEPT !.keys = t, !.got = a] = Reading(t, a, p)
    <3>1. PICK x : x = work[1]
      OBVIOUS
    <3>2. x = [task |-> "dir", keys |-> ks, got |-> got, path |-> p]
      BY <1>5, <3>1 DEF Reading
    <3>3. [x EXCEPT !.keys = t, !.got = a] = [[x EXCEPT !.keys = t] EXCEPT !.got = a]
      OBVIOUS
    <3>4. [x EXCEPT !.keys = t] = [task |-> "dir", keys |-> t, got |-> got, path |-> p]
      BY <3>2
    <3>5. PICK y : y = [x EXCEPT !.keys = t]
      OBVIOUS
    <3>6. y = [task |-> "dir", keys |-> t, got |-> got, path |-> p]
      BY <3>4, <3>5
    <3>7. [y EXCEPT !.got = a] = [task |-> "dir", keys |-> t, got |-> a, path |-> p]
      BY <3>6
    <3> QED
      BY <3>1, <3>3, <3>5, <3>7 DEF Reading
  <2>6. w = Join(<<Reading(t, a, p)>>, s)
    <3>1. w = [work EXCEPT ![1] = [work[1] EXCEPT !.keys = t, !.got = a]]
      BY <1>4, <2>4
    <3>2. PICK y : y = Reading(t, a, p)
      OBVIOUS
    <3>3. w = HeadSet(work, y)
      BY <2>5, <3>1, <3>2 DEF HeadSet
    <3> QED
      BY <1>9, <3>2, <3>3
  <2> QED
    BY <1>4, <1>7, <1>11, <2>2, <2>4, <2>6
<1>13. CASE k.type = "DirNode"
  <2>1. PICK b, l : b = Kids(k.body) /\ l = Join(b, t)
    OBVIOUS
  <2>2. b \in Seq(DirKeys(f)) /\ f[k] = Flat(f, b)
    BY <1>7, <1>13, <2>1 DEF Value
  <2>3. l \in Seq(DirKeys(f))
    BY <1>7, <2>1, <2>2, JoinType
  <2>4. Flat(f, l) = Flat(f, ks)
    <3>1. b \in Seq(DOMAIN f) /\ t \in Seq(DOMAIN f)
      BY <1>7, <2>2, SeqMonotonic
    <3>2. Lists(V, f, b) /\ Lists(V, f, t)
      BY <1>7, <3>1 DEF Lists
    <3>3. Flat(f, Join(b, t)) = Join(Flat(f, b), Flat(f, t))
      BY <3>2, FlatConcat
    <3> QED
      BY <1>4, <1>7, <2>1, <2>2, <3>3
  <2>5. work' = [work EXCEPT ![1].keys = l] /\ closed' = closed
    BY <1>4, <1>6, <1>13, <2>1 DEF collectEntries, Join, Kids
  <2>6. [work[1] EXCEPT !.keys = l] = Reading(l, got, p)
    BY <1>5 DEF Reading
  <2>7. w = Join(<<Reading(l, got, p)>>, s)
    <3>1. w = [work EXCEPT ![1] = [work[1] EXCEPT !.keys = l]]
      BY <1>4, <2>5
    <3>2. PICK y : y = Reading(l, got, p)
      OBVIOUS
    <3>3. w = HeadSet(work, y)
      BY <2>6, <3>1, <3>2 DEF HeadSet
    <3> QED
      BY <1>9, <3>2, <3>3
  <2>8. Join(got, Flat(f, l)) = Input(src, keys, p)
    BY <1>5, <2>4
  <2> QED
    BY <1>5, <1>11, <2>3, <2>5, <2>7, <2>8
<1> QED
  BY <1>7, <1>12, <1>13

LEMMA ExportsDir ==
  ASSUME scenario \in Scenarios, NEW sent, NEW D, Exports(sent, D), ExportDir
  PROVE  \E more, E : ExportsAs(work', more, E) /\ Offers(sent, D, more, E)
<1>1. At("dir") /\ work[1].keys = <<>> /\ pipe' = pipe
  BY DEF ExportDir
<1>2. D = <<>> /\ \E V, f, keys, ks, got, p, es : AtDirAs(sent, V, f, keys, ks, got, p, es)
  BY <1>1, ExportsHead
<1>3. PICK V, f, keys, ks, got, p, es : AtDirAs(sent, V, f, keys, ks, got, p, es)
  BY <1>2
<1>4. PICK r, u, a, s, w :
        /\ r = ReadDir(src, p) /\ u = Join(r, es) /\ w = work' /\ a = Image(EntryOf(keys), r)
        /\ s = Image(EntryOf(keys), es)
  OBVIOUS
<1>5. /\ work[1] = Reading(ks, got, p) /\ Tail(work) = s /\ es \in Seq(DOMAIN src)
      /\ Known(V, f, keys) /\ got \in Seq(V) /\ p \in Seq(Name) /\ IsDirectory(src, p)
      /\ Join(got, Flat(f, ks)) = Input(src, keys, p) /\ Owes(sent, es, {p})
  BY <1>3, <1>4 DEF AtDirAs, CollectingAs
<1>6. work[1].keys = ks /\ work[1].got = got /\ work[1].path = p /\ ks = <<>>
  BY <1>1, <1>5 DEF Reading
<1>7. got = Input(src, keys, p)
  <2>1. f \in [DOMAIN f -> Seq(V)] /\ <<>> \in Seq(DOMAIN f)
    BY <1>5 DEF Known, Knows, Denotes
  <2>2. Lists(V, f, <<>>)
    BY <2>1 DEF Lists
  <2>3. Flat(f, <<>>) = <<>>
    BY <2>2, FlatNil
  <2>4. Join(got, <<>>) = got
    BY <1>5, JoinNil
  <2> QED
    BY <1>5, <1>6, <2>3, <2>4
<1>8. /\ r \in Seq(DOMAIN src) /\ Len(r) \in Nat /\ DOMAIN got = 1..Len(r)
      /\ \A i \in 1..Len(r) : r[i] \in DOMAIN src /\ got[i] = Entry(src, keys, r[i]) /\ Front(r[i]) = p
  <2>1. p \in Seq(Name) /\ IsDirectory(src, p) /\ r = ReadDir(src, p)
    BY <1>4, <1>5
  <2>2. /\ r \in Seq(DOMAIN src) /\ Len(r) \in Nat
        /\ DOMAIN Input(src, keys, p) = 1..Len(r)
        /\ \A i \in 1..Len(r) : r[i] \in DOMAIN src /\ Input(src, keys, p)[i] = Entry(src, keys, r[i])
        /\ \A i \in 1..Len(r) : Front(r[i]) = p
    BY <2>1, InputFacts
  <2> QED
    BY <1>7, <2>2
<1>9. [i \in DOMAIN got |-> [task |-> "entry", e |-> got[i], path |-> p]] = a
  <2>1. DOMAIN r = 1..Len(r)
    BY <1>8
  <2>2. \A i \in 1..Len(r) : EntryOf(keys)[r[i]] = [task |-> "entry", e |-> got[i], path |-> p]
    BY <1>8 DEF EntryOf, EntryTask
  <2>3. a = [i \in 1..Len(r) |-> EntryOf(keys)[r[i]]]
    BY <1>4, <2>1 DEF Image
  <2> QED
    BY <1>8, <2>2, <2>3
<1>10. w = Join(a, s)
  BY <1>4, <1>5, <1>6, <1>9 DEF ExportDir, Join
<1>11. Owes(sent, u, {})
  BY <1>4, <1>5, OwesDir
<1>12. w = Stack(f, keys, <<>>, u) /\ <<>> \in Seq(FileKeys(f)) /\ <<>> \in Seq(Chunk)
  <2>1. Maps(EntryOf(keys), DOMAIN src, AllTasks(f, keys))
    BY TaskMaps
  <2>2. Image(EntryOf(keys), Join(r, es)) = Join(Image(EntryOf(keys), r), Image(EntryOf(keys), es))
    BY <1>5, <1>8, <2>1, ImageJoin
  <2>3. u \in Seq(DOMAIN src)
    BY <1>4, <1>5, <1>8, JoinType
  <2>4. <<>> \in Seq(FileKeys(f)) /\ <<>> \in Seq(Chunk)
    OBVIOUS
  <2>5. Stack(f, keys, <<>>, u) = Image(EntryOf(keys), u)
    BY <2>3, <2>4, StackTypes
  <2> QED
    BY <1>4, <1>10, <2>2, <2>4, <2>5
<1>13. D = Flat(f, <<>>) /\ D \in Seq(Chunk)
  <2>1. f \in [DOMAIN f -> Seq(V)] /\ <<>> \in Seq(DOMAIN f)
    BY <1>5 DEF Known, Knows, Denotes
  <2>2. Lists(V, f, <<>>)
    BY <2>1 DEF Lists
  <2> QED
    BY <1>2, <1>12, <2>2, FlatNil
<1>14. WritingAs(w, sent, D, V, f, keys, <<>>, u)
  BY <1>5, <1>11, <1>12, <1>13 DEF WritingAs
<1>15. ExportsAs(work', sent, D)
  <2>1. ExportsAs(w, sent, D)
    BY <1>14 DEF ExportsAs
  <2> QED
    BY <1>4, <2>1
<1>16. Offers(sent, D, sent, D)
  BY <1>1 DEF Offers
<1> QED
  BY <1>15, <1>16

\* The stack never looks like that of an exporter that failed.
LEMMA ExportsSound ==
  ASSUME NEW w, NEW sent, NEW D, ExportsAs(w, sent, D)
  PROVE  /\ w # <<FailedTask>> /\ (w = <<EndTask>> => sent = DOMAIN src /\ D = <<>>)
         /\ sent \subseteq DOMAIN src /\ D \in Seq(Chunk)
<1>1. \A x : /\ x = <<EndTask>> => x[1].task = "end" /\ Len(x) = 1
             /\ x = <<FailedTask>> => x[1].task = "failed" /\ Len(x) = 1
  BY DEF EndTask, FailedTask
<1>2. ASSUME NEW V, NEW f, NEW keys, NEW cs, NEW es, WritingAs(w, sent, D, V, f, keys, cs, es)
      PROVE  w # <<FailedTask>> /\ w # <<EndTask>> /\ sent \subseteq DOMAIN src /\ D \in Seq(Chunk)
  <2>1. w = Stack(f, keys, cs, es) /\ cs \in Seq(FileKeys(f)) /\ es \in Seq(DOMAIN src)
        /\ sent \subseteq DOMAIN src /\ D \in Seq(Chunk)
    BY <1>2 DEF WritingAs, Owes
  <2>2. w \in Seq(AllTasks(f, keys))
    BY <2>1, StackTypes
  <2>3. \A x \in AllTasks(f, keys) : x.task \in {"content", "entry"}
    BY DEF AllTasks, ContentTask, EntryTask
  <2>4. Len(w) = 1 => w[1] \in AllTasks(f, keys)
    <3>1. PICK T : T = AllTasks(f, keys)
      OBVIOUS
    <3>2. w \in Seq(T)
      BY <2>2, <3>1
    <3>3. ASSUME Len(w) = 1 PROVE w[1] \in T
      <4>1. 1 \in 1..Len(w)
        BY <3>3
      <4> QED
        BY <3>2, <4>1, ElementOfSeq
    <3> QED
      BY <3>1, <3>3
  <2> QED
    BY <1>1, <2>1, <2>3, <2>4
<1>3. ASSUME NEW V, NEW f, NEW keys, NEW ks, NEW got, NEW p, NEW es,
             CollectingAs(w, sent, V, f, keys, ks, got, p, es)
      PROVE  w # <<FailedTask>> /\ w # <<EndTask>> /\ sent \subseteq DOMAIN src
  <2>1. w = Join(<<Reading(ks, got, p)>>, Image(EntryOf(keys), es)) /\ es \in Seq(DOMAIN src)
        /\ sent \subseteq DOMAIN src
    BY <1>3 DEF CollectingAs, Owes
  <2>2. PICK x, b : x = Reading(ks, got, p) /\ b = Image(EntryOf(keys), es)
    OBVIOUS
  <2>3. b \in Seq(AllTasks(f, keys))
    <3>1. <<>> \in Seq(FileKeys(f))
      OBVIOUS
    <3> QED
      BY <2>1, <2>2, <3>1, StackTypes
  <2>4. Join(<<x>>, b)[1] = x
    BY <2>3, ConsFacts
  <2>5. x.task = "dir"
    BY <2>2 DEF Reading
  <2>6. w[1].task = "dir"
    BY <2>1, <2>2, <2>4, <2>5
  <2> QED
    BY <1>1, <2>1, <2>6
<1>4. w = <<EndTask>> => w # <<FailedTask>>
  BY <1>1
<1>5. <<>> \in Seq(Chunk)
  OBVIOUS
<1> QED
  BY <1>2, <1>3, <1>4, <1>5 DEF ExportsAs

\* What the exporter leaves alone.
Exporting ==
  /\ closed = "open" /\ pipe = <<>>
  /\ UNCHANGED <<extractVars, euid0, dest, broken>>
  /\ closed' = "open" \/ (closed' = "eof" /\ work = <<EndTask>>)
  /\ work = <<EndTask>> => work' = work /\ pipe' = pipe

LEMMA ExportsStep ==
  ASSUME scenario \in Scenarios, scenario' = scenario, NEW sent, NEW D, Exports(sent, D), Export
  PROVE  Exporting /\ \E more, E : ExportsAs(work', more, E) /\ Offers(sent, D, more, E)
<1>1. \A x : At(x) => closed = "open" /\ pipe = <<>> /\ work # <<EndTask>>
  BY DEF At, Running, EndTask
<1>2. CASE ExportEntry
  <2>1. \E more, E : ExportsAs(work', more, E) /\ Offers(sent, D, more, E)
    BY <1>2, ExportsEntry
  <2>2. Exporting
    BY <1>1, <1>2 DEF ExportEntry, Exporting
  <2> QED
    BY <2>1, <2>2
<1>3. CASE collectEntries
  <2>1. (\E more, E : ExportsAs(work', more, E) /\ Offers(sent, D, more, E)) /\ closed' = closed
    BY <1>3, ExportsCollect
  <2>2. Exporting
    BY <1>1, <1>3, <2>1 DEF collectEntries, Exporting
  <2> QED
    BY <2>1, <2>2
<1>4. CASE ExportDir
  <2>1. \E more, E : ExportsAs(work', more, E) /\ Offers(sent, D, more, E)
    BY <1>4, ExportsDir
  <2>2. Exporting
    BY <1>1, <1>4 DEF ExportDir, Exporting
  <2> QED
    BY <2>1, <2>2
<1>5. CASE WriteContent
  <2>1. \E more, E : ExportsAs(work', more, E) /\ Offers(sent, D, more, E)
    BY <1>5, ExportsContent
  <2>2. Exporting
    BY <1>1, <1>5 DEF WriteContent, Exporting
  <2> QED
    BY <2>1, <2>2
<1>6. CASE ExportTrailer
  <2>1. work = <<>> /\ pipe' = <<Trailer>> /\ work' = <<EndTask>>
    BY <1>6 DEF ExportTrailer, Trailer, EndTask
  <2>2. D = <<>> /\ sent = DOMAIN src
    BY <2>1, ExportsHead
  <2>3. ExportsAs(work', sent, D)
    BY <2>1, <2>2 DEF ExportsAs
  <2>4. Offers(sent, D, sent, D)
    BY <2>1 DEF Offers
  <2>5. Exporting
    BY <1>6, <2>1 DEF ExportTrailer, Exporting
  <2> QED
    BY <2>3, <2>4, <2>5
<1>7. CASE ExportEnds
  <2>1. work' = work /\ pipe' = pipe /\ work = <<EndTask>>
    BY <1>7 DEF ExportEnds, EndTask
  <2>2. ExportsAs(work', sent, D)
    BY <2>1 DEF Exports
  <2>3. Offers(sent, D, sent, D)
    BY <2>1 DEF Offers
  <2>4. Exporting
    BY <1>7, <2>1 DEF ExportEnds, Exporting
  <2> QED
    BY <2>2, <2>3, <2>4
<1> QED
  BY <1>2, <1>3, <1>4, <1>5, <1>6, <1>7 DEF Export

LEMMA ExportingStill ==
  ASSUME Exporting, scenario' = scenario
  PROVE  /\ Still /\ closed = "open" /\ pipe = <<>>
         /\ xpc' = xpc /\ member' = member /\ left' = left /\ dirs' = dirs /\ fs' = fs
         /\ escaped' = escaped /\ result' = result /\ broken' = broken
BY DEF Exporting, extractVars, Still

\* A step of the exporter keeps what the extractor relies on.
LEMMA ExporterKeeps ==
  ASSUME scenario \in Scenarios, scenario' = scenario, ExtractInv, Exporting,
         NEW sent, NEW D, NEW more, NEW E, Offers(sent, D, more, E), ExportsAs(work', more, E)
  PROVE  ExtractInv'
<1>1. /\ Still /\ closed = "open" /\ pipe = <<>>
      /\ xpc' = xpc /\ member' = member /\ left' = left /\ dirs' = dirs /\ fs' = fs
      /\ escaped' = escaped /\ result' = result /\ broken' = broken
  BY ExportingStill
<1>2. work' # <<FailedTask>>
  <2>1. PICK w : w = work'
    OBVIOUS
  <2>2. w # <<FailedTask>>
    BY <2>1, ExportsSound
  <2> QED
    BY <2>1, <2>2
<1>3. Units'
  <2>1. \A c : HeaderOf(c)' = HeaderOf(c) /\ Headed(c)' = Headed(c)
    BY <1>1, StillFacts
  <2>2. \/ pipe' = <<>>
        \/ \E c : Headed(c) /\ pipe' = <<HeaderOf(c)>>
        \/ \E d : d \in Chunk /\ pipe' = <<ChunkUnit(d)>>
        \/ pipe' = <<Trailer>> /\ work' = <<EndTask>>
    BY <1>1 DEF Offers
  <2>3. \A d : ChunkUnit(d)' = ChunkUnit(d)
    BY DEF ChunkUnit
  <2> QED
    BY <2>1, <2>2, <2>3 DEF Units, Trailer, EndTask
<1>4. Ends'
  <2>1. /\ closed' \in {"open", "eof"} /\ (closed' = "eof" => work' = <<EndTask>>)
        /\ work = <<EndTask>> => work' = work
    BY DEF Exporting
  <2>2. scenario.as' = scenario.as /\ scenario.dest' = scenario.dest /\ euid0' = euid0 /\ dest' = dest
    BY <1>1 DEF Still
  <2> QED
    BY <1>1, <1>2, <2>1, <2>2 DEF ExtractInv, Ends, EndTask, FailedTask
<1>5. Placed'
  BY <1>1, PlacedDone DEF ExtractInv
<1>6. Deferred'
  <2>1. \A c \in DOMAIN src : IsDirAt(fs, c) => IsDirAt(fs, c)'
    BY <1>1 DEF IsDirAt
  <2> QED
    BY <1>1, <2>1, DeferredKept DEF ExtractInv
<1>7. Copied'
  <2>1. CASE xpc = "copy"
    BY <1>1, <2>1, CopiedKept DEF ExtractInv
  <2>2. CASE xpc # "copy"
    BY <1>1, <2>2 DEF Copied
  <2> QED
    BY <2>1, <2>2
<1> QED
  BY <1>3, <1>4, <1>5, <1>6, <1>7 DEF ExtractInv

\* What an offer means to the extractor: what it has not seen yet, and what it
\* still gets.
Offered(sent, D, more, E) ==
  /\ Seen(sent) = sent /\ sent \subseteq Seen(more)' /\ Owed(D) = D /\ Owed(E)' = D
  /\ \A c \in more : c \in sent \/ Front(c) = <<>> \/ Front(c) \in sent
  /\ \A c \in Seen(more)' : c \in sent \/ src[c].kind = "sock"
  /\ \A c \in DOMAIN src : pipe' = <<HeaderOf(c)>> => c \in more
  /\ HasHeader' => E = DataOf(pipe'[1].path)

LEMMA OfferFacts ==
  ASSUME scenario \in Scenarios, Still, pipe = <<>>, NEW sent, NEW D \in Seq(Chunk), NEW more, NEW E \in Seq(Chunk),
         Offers(sent, D, more, E)
  PROVE  Offered(sent, D, more, E)
<1> USE DEF Offered
<1>1. Seen(sent) = sent /\ Owed(D) = Join(<<>>, D)
  BY PipeNow
<1>2. Join(<<>>, D) = D /\ Join(<<>>, E) = E
  BY JoinNil
<1> DEFINE G == /\ sent \subseteq Seen(more)' /\ Owed(E)' = D
                /\ \A c \in more : c \in sent \/ Front(c) = <<>> \/ Front(c) \in sent
                /\ \A c \in Seen(more)' : c \in sent \/ src[c].kind = "sock"
                /\ \A c \in DOMAIN src : pipe' = <<HeaderOf(c)>> => c \in more
                /\ HasHeader' => E = DataOf(pipe'[1].path)
<1>3. ASSUME pipe' = <<>>, E = D, NEW s, more = sent \cup s,
             \A c \in s : src[c].kind = "sock" /\ (Front(c) = <<>> \/ Front(c) \in sent)
      PROVE  G
  <2>1. ~HasHeader' /\ Owed(E)' = Join(<<>>, E) /\ Seen(more)' = more
    BY <1>3, PipeNext
  <2> QED
    BY <1>2, <1>3, <2>1
<1>4. ASSUME pipe' = pipe, E = D, more = sent PROVE G
  <2>1. PICK s : s = {}
    OBVIOUS
  <2>2. /\ pipe' = <<>> /\ E = D /\ more = sent \cup s
        /\ \A c \in s : src[c].kind = "sock" /\ (Front(c) = <<>> \/ Front(c) \in sent)
    BY <1>4, <2>1
  <2> HIDE DEF G
  <2> QED
    BY <1>3, <2>2
<1>5. ASSUME NEW c \in DOMAIN src \ sent, src[c].kind = "sock", Front(c) = <<>> \/ Front(c) \in sent,
             pipe' = pipe, E = D, more = sent \cup {c}
      PROVE  G
  <2>1. PICK s : s = {c}
    OBVIOUS
  <2>2. /\ pipe' = <<>> /\ E = D /\ more = sent \cup s
        /\ \A q \in s : src[q].kind = "sock" /\ (Front(q) = <<>> \/ Front(q) \in sent)
    BY <1>5, <2>1
  <2> HIDE DEF G
  <2> QED
    BY <1>3, <2>2
<1>6. ASSUME NEW c \in DOMAIN src \ sent, Headed(c), Front(c) = <<>> \/ Front(c) \in sent,
             pipe' = <<HeaderOf(c)>>, D = <<>>, E = DataOf(c), more = sent \cup {c}
      PROVE  G
  <2>1. HasHeader' /\ pipe'[1].path = c /\ Owed(E)' = <<>> /\ Seen(more)' = more \ {c}
    BY <1>6, PipeNext
  <2>2. \A q : pipe' = <<HeaderOf(q)>> => q = c
    <3>1. ASSUME NEW q, pipe' = <<HeaderOf(q)>> PROVE q = c
      <4>1. HeaderOf(q) = HeaderOf(c)
        BY <1>6, <3>1
      <4> QED
        BY <4>1, HeaderInjective
    <3> QED
      BY <3>1
  <2> QED
    BY <1>6, <2>1, <2>2
<1>7. ASSUME NEW d \in Chunk, pipe' = <<ChunkUnit(d)>>, D = Join(<<d>>, E), more = sent PROVE G
  <2>1. ~HasHeader' /\ Owed(E)' = Join(<<d>>, E) /\ Seen(more)' = more
    BY <1>7, PipeNext
  <2>2. \A q : pipe' # <<HeaderOf(q)>>
    <3>1. pipe'[1].unit = "chunk"
      BY <1>7 DEF ChunkUnit
    <3> QED
      BY <3>1, HeaderFields
  <2> QED
    BY <1>7, <2>1, <2>2
<1>8. ASSUME pipe' = <<Trailer>>, E = D, more = sent PROVE G
  <2>1. ~HasHeader' /\ Owed(E)' = Join(<<>>, E) /\ Seen(more)' = more
    BY <1>8, PipeNext
  <2>2. \A q : pipe' # <<HeaderOf(q)>>
    <3>1. pipe'[1].unit = "trailer"
      BY <1>8 DEF Trailer
    <3> QED
      BY <3>1, HeaderFields
  <2> QED
    BY <1>2, <1>8, <2>1, <2>2
<1>9. G
  <2> HIDE DEF G
  <2> QED
    BY <1>4, <1>5, <1>6, <1>7, <1>8 DEF Offers
<1> QED
  BY <1>1, <1>2, <1>9

\* A step of the exporter keeps the promise to the extractor.
LEMMA LiveOffer ==
  ASSUME scenario \in Scenarios, scenario' = scenario, ExtractInv, Exporting,
         NEW sent, NEW D, Live(sent, D), NEW more, NEW E, Offers(sent, D, more, E),
         ExportsAs(work', more, E)
  PROVE  Live(more, E)'
<1>1. /\ Still /\ closed = "open" /\ pipe = <<>>
      /\ xpc' = xpc /\ member' = member /\ left' = left /\ dirs' = dirs /\ fs' = fs
      /\ escaped' = escaped /\ result' = result /\ broken' = broken
  BY ExportingStill
<1>2. /\ work' = <<EndTask>> => more = DOMAIN src
      /\ more \subseteq DOMAIN src /\ E \in Seq(Chunk)
  <2>1. PICK w : w = work'
    OBVIOUS
  <2>2. (w = <<EndTask>> => more = DOMAIN src) /\ more \subseteq DOMAIN src /\ E \in Seq(Chunk)
    BY <2>1, ExportsSound
  <2> QED
    BY <2>1, <2>2
<1>3. D \in Seq(Chunk)
  BY DEF Live, Streamed
<1>4. /\ Seen(sent) = sent /\ sent \subseteq Seen(more)' /\ Owed(D) = D /\ Owed(E)' = D
      /\ \A c \in more : c \in sent \/ Front(c) = <<>> \/ Front(c) \in sent
      /\ \A c \in Seen(more)' : c \in sent \/ src[c].kind = "sock"
      /\ \A c \in DOMAIN src : pipe' = <<HeaderOf(c)>> => c \in more
      /\ HasHeader' => E = DataOf(pipe'[1].path)
  <2>1. Still /\ pipe = <<>> /\ D \in Seq(Chunk) /\ E \in Seq(Chunk)
    BY <1>1, <1>2, <1>3
  <2>2. Offered(sent, D, more, E)
    BY <2>1, OfferFacts
  <2> QED
    BY <2>2, Zenon DEF Offered
<1>5. /\ src' = src /\ \A c : HeaderOf(c)' = HeaderOf(c) /\ DataOf(c)' = DataOf(c) /\ Restorable(c)' = Restorable(c)
      /\ \A k, m, d : New(k, m, d)' = New(k, m, d)
  BY <1>1, StillFacts
<1>6. Sent(more)'
  <2>1. \A c \in sent : Front(c) = <<>> \/ Front(c) \in sent
    BY DEF Live, Sent
  <2>2. sent \subseteq more
    BY DEF Offers
  <2>3. \A c \in more : Front(c) = <<>> \/ (Front(c) \in more /\ Front(c) \in Seen(more)')
    BY <1>4, <2>1, <2>2
  <2>4. \A c \in DOMAIN fs : c \in DOMAIN scenario.pre \/ c \in Seen(more)'
    BY <1>4 DEF Live, Sent
  <2> QED
    BY <1>1, <1>2, <1>4, <1>5, <2>3, <2>4 DEF Sent, EndTask, Still
<1>7. Streamed(E)'
  <2>1. xpc' = "dirs" => pipe' = <<>>
    BY <1>1 DEF ExtractInv, Ends, Exporting
  <2>2. HasHeader' => E = DataOf(pipe[1].path)'
    BY <1>4, <1>5
  <2>3. xpc' # "copy" => Owed(E)' = <<>>
    BY <1>1, <1>4 DEF Live, Streamed
  <2>4. CASE xpc = "copy"
    <3>1. PICK c : c = member.path /\ c = member'.path
      BY <1>1
    <3>2. /\ fs[c] = New("reg", {"w"}, fs[c].data) /\ fs[c].data \in Seq(Chunk)
          /\ Join(fs[c].data, Owed(D)) = src[c].data /\ left = Len(Owed(D))
      BY <2>4, <3>1 DEF Live, Streamed
    <3>3. (fs[c] = New("reg", {"w"}, fs[c].data))'
      <4>1. PICK d : d = fs[c].data
        OBVIOUS
      <4>2. New("reg", {"w"}, d)' = New("reg", {"w"}, d)
        BY <1>5
      <4> QED
        BY <1>1, <3>2, <4>1, <4>2 DEF New
    <3>4. /\ fs'[c].data \in Seq(Chunk)
          /\ Join(fs'[c].data, Owed(E)') = src'[c].data /\ left' = Len(Owed(E)')
      BY <1>1, <1>4, <1>5, <3>2
    <3> QED
      BY <1>1, <1>2, <2>1, <2>2, <2>4, <3>1, <3>3, <3>4 DEF Streamed
  <2>5. CASE xpc # "copy"
    BY <1>1, <1>2, <2>1, <2>2, <2>3, <2>5 DEF Streamed
  <2> QED
    BY <2>4, <2>5
<1>8. ASSUME NEW c \in Seen(more)', Restorable(c) PROVE There(c)'
  <2>1. c \in sent
    BY <1>4, <1>8 DEF Restorable
  <2>2. There(c)
    BY <1>4, <1>8, <2>1 DEF Live, Arrived
  <2>3. c \in DOMAIN fs
    BY <2>2 DEF There
  <2> QED
    BY <1>1, <2>2, <2>3, ThereSame
<1>9. Arrived(more)'
  BY <1>5, <1>8 DEF Arrived
<1> QED
  BY <1>6, <1>7, <1>9 DEF Live

----------------------------------------------------------------------------
(* The restore as a whole.                                                  *)

\* A read of the store fails.
LEMMA FailedExport ==
  ASSUME ExtractInv, GetFails, scenario' = scenario
  PROVE  /\ ExtractInv' /\ work' = <<FailedTask>> /\ fs' = fs /\ result' = result /\ Still
         /\ result # "ok" /\ broken'
<1>1. \A x : At(x) => pipe = <<>> /\ work # <<EndTask>> /\ closed = "open"
  BY DEF At, Running, EndTask
<1>2. /\ closed' = "error" /\ work' = <<FailedTask>> /\ broken' = TRUE /\ pipe' = <<>>
      /\ xpc' = xpc /\ member' = member /\ left' = left /\ dirs' = dirs /\ fs' = fs
      /\ escaped' = escaped /\ result' = result /\ euid0' = euid0 /\ dest' = dest
      /\ pipe = <<>> /\ work # <<EndTask>> /\ Still
  BY <1>1 DEF GetFails, Abort, CloseWithError, FailedTask, extractVars, Still
<1>3. Units'
  BY <1>2 DEF Units
<1>4. FailedTask # EndTask
  <2>1. FailedTask.task = "failed" /\ EndTask.task = "end"
    BY DEF FailedTask, EndTask
  <2> QED
    BY <2>1
<1>5. Ends'
  BY <1>2, <1>4 DEF ExtractInv, Ends, FailedTask, EndTask
<1>6. Placed'
  BY <1>2, PlacedDone DEF ExtractInv
<1>7. Deferred'
  <2>1. \A c \in DOMAIN src : IsDirAt(fs, c) => IsDirAt(fs, c)'
    BY <1>2 DEF IsDirAt
  <2> QED
    BY <1>2, <2>1, DeferredKept DEF ExtractInv
<1>8. Copied'
  <2>1. CASE xpc = "copy"
    BY <1>2, <2>1, CopiedKept DEF ExtractInv
  <2>2. CASE xpc # "copy"
    BY <1>2, <2>2 DEF Copied
  <2> QED
    BY <2>1, <2>2
<1>9. result # "ok"
  BY <1>2 DEF ExtractInv, Ends
<1> QED
  BY <1>2, <1>3, <1>5, <1>6, <1>7, <1>8, <1>9 DEF ExtractInv

\* What is below the destination before.
LEMMA IdlePlaced ==
  ASSUME scenario \in Scenarios, Idle
  PROVE  Placed
<1>1. fs = scenario.pre /\ escaped = {} /\ euid0 = scenario.as
  BY DEF Idle
<1>2. \A p \in DOMAIN fs : IsAttributes(fs[p]) /\ (fs[p].kind = "dir" => IsOwn(fs[p], euid0))
  BY <1>1, ScenarioFacts
<1>3. ASSUME NEW p \in DOMAIN fs, fs[p].kind = "dir"
      PROVE  /\ OwnMode(fs[p]) /\ fs[p].data = <<>> /\ fs[p].xattrs = "none"
             /\ euid0 \/ fs[p].owner = "me"
  BY <1>2, <1>3 DEF IsOwn, OwnMode
<1>4. ASSUME NEW c \in DOMAIN src, src[c].kind = "dir", IsDirAt(fs, c) PROVE Merged(fs[c], c)
  BY <1>2, <1>3, <1>4 DEF IsDirAt, Merged, MetaReady
<1>5. PlacedAs(fs, xpc)
  BY <1>1, <1>2, <1>3, <1>4 DEF PlacedAs
<1> QED
  BY <1>1, <1>5 DEF Placed

LEMMA StartsExtract ==
  ASSUME scenario \in Scenarios, Idle, StartRestore
  PROVE  ExtractInv'
<1>1. /\ Still /\ pipe' = <<>> /\ closed' = "open" /\ xpc' = "next" /\ left' = 0 /\ dirs' = <<>>
      /\ fs' = fs /\ escaped' = escaped /\ result' = "none" /\ broken' = FALSE /\ xpc = "next"
      /\ euid0 = scenario.as /\ dest = scenario.dest /\ dirs = <<>>
  BY DEF StartRestore, Idle, extractVars, Still
<1>2. work' # <<EndTask>> /\ work' # <<FailedTask>>
  <2>1. work'[1].task = "dir"
    BY DEF StartRestore, DirTask
  <2>2. \A x : x \in {<<EndTask>>, <<FailedTask>>} => x[1].task # "dir"
    BY DEF EndTask, FailedTask
  <2> QED
    BY <2>1, <2>2
<1>3. Units'
  BY <1>1 DEF Units
<1>4. Ends'
  BY <1>1, <1>2 DEF Ends, Still, EndTask, FailedTask
<1>5. Placed'
  BY <1>1, IdlePlaced, PlacedDone
<1>6. Deferred'
  <2>1. ToSet(<<>>) = {} /\ <<>> \in Seq(DirHeaders)
    BY DEF ToSet
  <2>2. Deferred
    BY <1>1, <2>1 DEF Deferred
  <2>3. \A c \in DOMAIN src : IsDirAt(fs, c) => IsDirAt(fs, c)'
    BY <1>1 DEF IsDirAt
  <2> QED
    BY <1>1, <2>2, <2>3, DeferredKept
<1>7. Copied'
  BY <1>1 DEF Copied
<1> QED
  BY <1>3, <1>4, <1>5, <1>6, <1>7 DEF ExtractInv

LEMMA StartsLive ==
  ASSUME scenario \in Scenarios, Idle, StartRestore, NEW none, none = {}
  PROVE  Live(none, <<>>)'
<1>1. /\ Still /\ pipe' = <<>> /\ xpc' = "next" /\ fs' = fs /\ fs = scenario.pre
  BY DEF StartRestore, Idle, extractVars, Still
<1>2. work' # <<EndTask>>
  <2>1. work'[1].task = "dir"
    BY DEF StartRestore, DirTask
  <2>2. \A x : x = <<EndTask>> => x[1].task # "dir"
    BY DEF EndTask
  <2> QED
    BY <2>1, <2>2
<1>3. PICK E : E = <<>>
  OBVIOUS
<1>4. ~HasHeader' /\ Owed(E)' = Join(<<>>, E) /\ Seen(none)' = none
  BY <1>1, PipeNext
<1>5. E \in Seq(Chunk)
  BY <1>3
<1>6. Join(<<>>, E) = E
  BY <1>5, JoinNil
<1>7. Sent(none)'
  BY <1>1, <1>2, <1>4 DEF Sent, Still, EndTask
<1>8. Streamed(E)'
  BY <1>1, <1>3, <1>4, <1>5, <1>6 DEF Streamed
<1>9. Arrived(none)'
  BY <1>4 DEF Arrived
<1> QED
  BY <1>3, <1>7, <1>8, <1>9 DEF Live

LEMMA StartsExport ==
  ASSUME scenario \in Scenarios, MeaningInv, StartRestore, NEW none, none = {}
  PROVE  ExportsAs(work', none, <<>>)
<1>1. phase = "built" /\ work' = <<DirTask(keyOf[<<>>], <<>>)>>
  BY DEF StartRestore
<1>2. PICK V, f : Meaning(V, f)
  BY <1>1 DEF MeaningInv
<1>3. Knows(V, f, keyOf) /\ <<>> \in DOMAIN keyOf
  BY <1>1, <1>2 DEF Meaning, MeaningInv
<1>4. Known(V, f, keyOf)
  BY <1>3, AllBuilt
<1>5. PICK k, ks, w : k = keyOf[<<>>] /\ ks = <<k>> /\ w = work'
  OBVIOUS
<1>6. IsDirectory(src, <<>>) /\ <<>> \in Seq(Name) /\ <<>> \in Seq(V)
  BY DEF IsDirectory
<1>7. k \in DirKeys(f) /\ f[k] = Input(src, keyOf, <<>>)
  BY <1>3, <1>5, <1>6 DEF Knows, NodeKeys, Content
<1>8. f \in [DOMAIN f -> Seq(V)] /\ DirKeys(f) \subseteq DOMAIN f
  BY <1>3 DEF Knows, Denotes, DirKeys
<1>9. ks \in Seq(DirKeys(f)) /\ Flat(f, ks) = f[k] /\ f[k] \in Seq(V)
  <2>1. <<k>> \in Seq(DirKeys(f)) /\ Flat(f, <<k>>) = f[k] /\ f[k] \in Seq(V)
    BY <1>7, <1>8, FlatSingle
  <2> QED
    BY <1>5, <2>1
<1>10. Join(<<>>, Flat(f, ks)) = Input(src, keyOf, <<>>)
  <2>1. Join(<<>>, f[k]) = f[k]
    BY <1>9, JoinNil
  <2> QED
    BY <1>7, <1>9, <2>1
<1>11. w = Join(<<Reading(ks, <<>>, <<>>)>>, Image(EntryOf(keyOf), <<>>))
  <2>1. PICK h : h = <<Reading(ks, <<>>, <<>>)>>
    OBVIOUS
  <2>2. w = h
    BY <1>1, <1>5, <2>1 DEF DirTask, Reading
  <2>3. h \in Seq({Reading(ks, <<>>, <<>>)})
    BY <2>1
  <2>4. Join(h, <<>>) = h
    BY <2>3, JoinNil
  <2>5. Image(EntryOf(keyOf), <<>>) = <<>>
    BY ImageNil
  <2> QED
    BY <2>1, <2>2, <2>4, <2>5
<1>12. Owes(none, <<>>, {<<>>})
  BY OwesAll
<1>13. CollectingAs(w, none, V, f, keyOf, ks, <<>>, <<>>, <<>>)
  BY <1>4, <1>6, <1>9, <1>10, <1>11, <1>12 DEF CollectingAs
<1>14. ExportsAs(w, none, <<>>)
  BY <1>13 DEF ExportsAs
<1> QED
  BY <1>5, <1>14

\* Nothing changes when the command has returned.
LEMMA RestSame ==
  ASSUME ExtractInv, UNCHANGED <<scenario, restoreVars>>
  PROVE  ExtractInv' /\ Still /\ Reads
<1>1. /\ Still /\ pipe' = pipe /\ work' = work /\ closed' = closed
      /\ xpc' = xpc /\ member' = member /\ left' = left /\ dirs' = dirs /\ fs' = fs
      /\ escaped' = escaped /\ result' = result /\ broken' = broken
  BY DEF restoreVars, exportVars, extractVars, Still
<1>2. Reads
  BY <1>1 DEF Reads, exportVars
<1>3. Units'
  BY <1>2, UnitsRead DEF ExtractInv
<1>4. Ends'
  BY <1>1 DEF ExtractInv, Ends, Still, EndTask, FailedTask
<1>5. Placed'
  BY <1>1, PlacedDone DEF ExtractInv
<1>6. Deferred'
  <2>1. \A c \in DOMAIN src : IsDirAt(fs, c) => IsDirAt(fs, c)'
    BY <1>1 DEF IsDirAt
  <2> QED
    BY <1>1, <2>1, DeferredKept DEF ExtractInv
<1>7. Copied'
  <2>1. CASE xpc = "copy"
    BY <1>1, <2>1, CopiedKept DEF ExtractInv
  <2>2. CASE xpc # "copy"
    BY <1>1, <2>2 DEF Copied
  <2> QED
    BY <2>1, <2>2
<1> QED
  BY <1>1, <1>2, <1>3, <1>4, <1>5, <1>6, <1>7 DEF ExtractInv

LEMMA LiveSame ==
  ASSUME NEW sent, NEW D, Live(sent, D), UNCHANGED <<scenario, restoreVars>>
  PROVE  Live(sent, D)'
<1>1. /\ Still /\ pipe' = pipe /\ work' = work
      /\ xpc' = xpc /\ member' = member /\ left' = left /\ dirs' = dirs /\ fs' = fs
  BY DEF restoreVars, exportVars, extractVars, Still
<1>2. Reads
  BY <1>1 DEF Reads, restoreVars, exportVars
<1>3. Sent(sent)'
  BY <1>1, <1>2, SentKept DEF Live
<1>4. HasHeader' = HasHeader /\ Owed(D)' = Owed(D) /\ Seen(sent)' = Seen(sent)
  BY <1>1, PipeNext
<1>5. /\ src' = src /\ \A c : DataOf(c)' = DataOf(c) /\ Restorable(c)' = Restorable(c)
      /\ \A k, m, d : New(k, m, d)' = New(k, m, d)
  BY <1>1, StillFacts
<1>6. Streamed(D)'
  <2>1. /\ D \in Seq(Chunk) /\ (xpc' = "dirs" => pipe' = <<>>) /\ (xpc' # "copy" => Owed(D)' = <<>>)
    BY <1>1, <1>4 DEF Live, Streamed
  <2>2. HasHeader' => D = DataOf(pipe[1].path)'
    BY <1>1, <1>4, <1>5 DEF Live, Streamed
  <2>3. CASE xpc = "copy"
    <3>1. PICK c : c = member.path /\ c = member'.path
      BY <1>1
    <3>2. /\ fs[c] = New("reg", {"w"}, fs[c].data) /\ fs[c].data \in Seq(Chunk)
          /\ Join(fs[c].data, Owed(D)) = src[c].data /\ left = Len(Owed(D))
      BY <2>3, <3>1 DEF Live, Streamed
    <3>3. (fs[c] = New("reg", {"w"}, fs[c].data))'
      <4>1. PICK d : d = fs[c].data
        OBVIOUS
      <4>2. New("reg", {"w"}, d)' = New("reg", {"w"}, d)
        BY <1>5
      <4> QED
        BY <1>1, <3>2, <4>1, <4>2 DEF New
    <3>4. /\ fs'[c].data \in Seq(Chunk)
          /\ Join(fs'[c].data, Owed(D)') = src'[c].data /\ left' = Len(Owed(D)')
      BY <1>1, <1>4, <1>5, <3>2
    <3> QED
      BY <1>1, <2>1, <2>2, <2>3, <3>1, <3>3, <3>4 DEF Streamed
  <2>4. CASE xpc # "copy"
    BY <1>1, <2>1, <2>2, <2>4 DEF Streamed
  <2> QED
    BY <2>3, <2>4
<1>7. ASSUME NEW c \in Seen(sent), Restorable(c) PROVE There(c)'
  <2>1. There(c)
    BY <1>7 DEF Live, Arrived
  <2>2. c \in DOMAIN fs
    BY <2>1 DEF There
  <2> QED
    BY <1>1, <2>1, <2>2, ThereSame
<1>8. Arrived(sent)'
  BY <1>4, <1>5, <1>7 DEF Arrived
<1> QED
  BY <1>3, <1>6, <1>8 DEF Live

LEMMA ExactKept ==
  ASSUME RestoreExact, Still, fs' = fs, result' = result
  PROVE  RestoreExact'
<1>1. /\ src' = src /\ \A c : Restorable(c)' = Restorable(c) /\ Restored(src[c])' = Restored(src[c])
  BY StillFacts
<1> QED
  BY <1>1 DEF RestoreExact, Still

\* The invariant of the restore.
Exported == \E sent, D : Exports(sent, D) /\ (result = "none" => Live(sent, D))

RestoreInv ==
  /\ phase # "restore" => Idle
  /\ phase = "restore" => ExtractInv /\ RestoreExact /\ (work = <<FailedTask>> \/ Exported)

LEMMA IdleKept ==
  ASSUME Idle, UNCHANGED <<scenario, restoreVars>>
  PROVE  Idle'
BY DEF Idle, restoreVars, exportVars, extractVars

LEMMA ExportRestores ==
  ASSUME scenario \in Scenarios, RestoreInv, phase = "restore", phase' = phase, scenario' = scenario, Export
  PROVE  RestoreInv'
<1>1. ExtractInv /\ RestoreExact /\ (work = <<FailedTask>> \/ Exported)
  BY DEF RestoreInv
<1>2. closed = "open"
  BY DEF Export, ExportEntry, collectEntries, ExportDir, WriteContent, ExportTrailer, ExportEnds, At, Running
<1>3. Exported
  BY <1>1, <1>2 DEF ExtractInv, Ends
<1>4. PICK sent, D : Exports(sent, D) /\ (result = "none" => Live(sent, D))
  BY <1>3 DEF Exported
<1>5. Exporting /\ \E more, E : ExportsAs(work', more, E) /\ Offers(sent, D, more, E)
  BY <1>4, ExportsStep
<1>6. PICK more, E : ExportsAs(work', more, E) /\ Offers(sent, D, more, E)
  BY <1>5
<1>7. ExtractInv'
  BY <1>1, <1>5, <1>6, ExporterKeeps
<1>8. Still /\ fs' = fs /\ result' = result
  BY <1>5, ExportingStill
<1>9. RestoreExact'
  BY <1>1, <1>8, ExactKept
<1>10. Exports(more, E)'
  <2>1. PICK w : w = work' /\ ExportsAs(w, more, E)
    BY <1>6
  <2> QED
    BY <2>1, ExportsNext
<1>11. ASSUME result' = "none" PROVE Live(more, E)'
  <2>1. Live(sent, D)
    BY <1>4, <1>8, <1>11
  <2> QED
    BY <1>1, <1>5, <1>6, <2>1, LiveOffer
<1>12. Exported'
  BY <1>10, <1>11 DEF Exported
<1> QED
  BY <1>7, <1>9, <1>12 DEF RestoreInv

LEMMA ExtractRestores ==
  ASSUME scenario \in Scenarios, RestoreInv, phase = "restore", phase' = phase, scenario' = scenario,
         Extract \/ CallFails
  PROVE  RestoreInv'
<1>1. ExtractInv /\ RestoreExact /\ (work = <<FailedTask>> \/ Exported)
  BY DEF RestoreInv
<1>2. ExtractInv'
  BY <1>1, ExtractStep
<1>3. work' = work
  BY DEF Extract, Refuse, ExtractDir, ExtractReg, CopyChunk, FileMeta, ExtractSpecial, CreateFails,
         ExtractEOF, ReadFails, DirMeta, DirMetaFails, ExtractReturns, CallFails, Fails, exportVars
<1>4. result = "none"
  BY <1>1 DEF ExtractInv, Ends, Extract, Refuse, ExtractDir, ExtractReg, CopyChunk, FileMeta,
         ExtractSpecial, CreateFails, ExtractEOF, ReadFails, DirMeta, DirMetaFails, ExtractReturns,
         CallFails, Accepted, Got
<1>5. CASE work = <<FailedTask>>
  <2>1. result' # "ok"
    <3>1. FailedTask # EndTask
      <4>1. FailedTask.task = "failed" /\ EndTask.task = "end"
        BY DEF FailedTask, EndTask
      <4> QED
        BY <4>1
    <3>2. result' = "ok" => work' = <<EndTask>>
      BY <1>2 DEF ExtractInv, Ends, EndTask
    <3> QED
      BY <1>3, <1>5, <3>1, <3>2
  <2>2. RestoreExact'
    BY <2>1 DEF RestoreExact
  <2> QED
    BY <1>2, <1>3, <1>5, <2>2 DEF RestoreInv, FailedTask
<1>6. CASE Exported
  <2>1. PICK sent, D : Exports(sent, D) /\ Live(sent, D)
    BY <1>4, <1>6 DEF Exported
  <2>2. Exports(sent, D)'
    <3>1. PICK w : w = work' /\ ExportsAs(w, sent, D)
      BY <1>3, <2>1 DEF Exports
    <3> QED
      BY <3>1, ExportsNext
  <2>3. ASSUME result' = "none" PROVE Live(sent, D)'
    BY <1>1, <2>1, <2>3, LiveStep
  <2>4. RestoreExact'
    <3>1. CASE ExtractReturns
      BY <1>1, <2>1, <3>1, ReturnsExact
    <3>2. CASE ~ExtractReturns
      <4>1. result' # "ok"
        BY <1>4, <3>2 DEF Extract, Refuse, ExtractDir, ExtractReg, CopyChunk, FileMeta, ExtractSpecial,
           CreateFails, ExtractEOF, ReadFails, DirMeta, DirMetaFails, CallFails, Fails
      <4> QED
        BY <4>1 DEF RestoreExact
    <3> QED
      BY <3>1, <3>2
  <2>5. Exported'
    BY <2>2, <2>3 DEF Exported
  <2> QED
    BY <1>2, <2>4, <2>5 DEF RestoreInv
<1> QED
  BY <1>1, <1>5, <1>6

LEMMA StartRestores ==
  ASSUME scenario \in Scenarios, MeaningInv, RestoreInv, StartRestore
  PROVE  RestoreInv'
<1>1. Idle /\ phase' = "restore" /\ scenario' = scenario
  BY DEF RestoreInv, StartRestore
<1>2. ExtractInv'
  BY <1>1, StartsExtract
<1>3. PICK none, E : none = {} /\ E = <<>>
  OBVIOUS
<1>4. ExportsAs(work', none, E)
  BY <1>3, StartsExport
<1>5. Live(none, E)'
  <2>1. Live(none, <<>>)'
    BY <1>1, <1>3, StartsLive
  <2> QED
    BY <1>3, <2>1
<1>6. Exports(none, E)'
  <2>1. PICK w : w = work' /\ ExportsAs(w, none, E)
    BY <1>4
  <2> QED
    BY <1>1, <2>1, ExportsNext
<1>7. Exported'
  BY <1>5, <1>6 DEF Exported
<1>8. result' = "none"
  BY <1>1 DEF StartRestore, Idle, extractVars
<1>9. RestoreExact'
  BY <1>8 DEF RestoreExact
<1> QED
  BY <1>1, <1>2, <1>7, <1>9 DEF RestoreInv

LEMMA SameRestores ==
  ASSUME RestoreInv, UNCHANGED vars
  PROVE  RestoreInv'
<1>1. UNCHANGED <<scenario, restoreVars>> /\ phase' = phase
  BY DEF vars, buildVars
<1>2. CASE phase # "restore"
  BY <1>1, <1>2, IdleKept DEF RestoreInv
<1>3. CASE phase = "restore"
  <2>1. ExtractInv /\ RestoreExact /\ (work = <<FailedTask>> \/ Exported)
    BY <1>3 DEF RestoreInv
  <2>2. ExtractInv' /\ Still
    BY <1>1, <2>1, RestSame
  <2>3. fs' = fs /\ result' = result /\ work' = work /\ scenario' = scenario
    BY <1>1 DEF restoreVars, exportVars, extractVars
  <2>4. RestoreExact'
    BY <2>1, <2>2, <2>3, ExactKept
  <2>5. ASSUME Exported PROVE Exported'
    <3>1. PICK sent, D : Exports(sent, D) /\ (result = "none" => Live(sent, D))
      BY <2>5 DEF Exported
    <3>2. Exports(sent, D)'
      <4>1. PICK w : w = work' /\ ExportsAs(w, sent, D)
        BY <2>3, <3>1 DEF Exports
      <4> QED
        BY <2>3, <4>1, ExportsNext
    <3>3. result' = "none" => Live(sent, D)'
      BY <1>1, <2>3, <3>1, LiveSame
    <3> QED
      BY <3>2, <3>3 DEF Exported
  <2> QED
    BY <1>1, <1>3, <2>1, <2>2, <2>3, <2>4, <2>5 DEF RestoreInv, FailedTask
<1> QED
  BY <1>2, <1>3

LEMMA RestoreInit0 ==
  ASSUME Init
  PROVE  RestoreInv
BY DEF Init, RestoreInit, RestoreInv, Idle

LEMMA RestoreStep ==
  ASSUME BuildInv, MeaningInv, RestoreInv, [Next]_vars
  PROVE  RestoreInv'
<1>1. scenario \in Scenarios
  BY DEF BuildInv, Typed
<1>2. ASSUME Building, phase' \in {phase, "built"} PROVE RestoreInv'
  <2>1. phase = "build" /\ UNCHANGED <<scenario, restoreVars>>
    BY <1>2 DEF Building
  <2>2. Idle
    BY <2>1 DEF RestoreInv
  <2>3. Idle' /\ phase' # "restore"
    BY <1>2, <2>1, <2>2, IdleKept
  <2> QED
    BY <2>3 DEF RestoreInv
<1>3. CASE Build
  <2>1. CASE StartRestore
    BY <1>1, <2>1, StartRestores
  <2>2. CASE ~StartRestore
    <3>1. Building /\ phase' \in {phase, "built"}
      BY <1>3, <2>2 DEF Build, StartNode, SpillXattrs, Feed, FinishNode, BuildStep, NodeBuilt, AtNode,
         buildVars
    <3> QED
      BY <1>2, <3>1
  <2> QED
    BY <2>1, <2>2
<1>4. CASE Restore(Export)
  <2>1. phase = "restore" /\ phase' = phase /\ scenario' = scenario /\ Export
    BY <1>4 DEF Restore, buildVars
  <2> QED
    BY <1>1, <2>1, ExportRestores
<1>5. CASE Restore(GetFails)
  <2>1. phase = "restore" /\ phase' = phase /\ scenario' = scenario /\ GetFails
    BY <1>5 DEF Restore, buildVars
  <2>2. ExtractInv /\ RestoreExact
    BY <2>1 DEF RestoreInv
  <2>3. ExtractInv' /\ work' = <<FailedTask>> /\ fs' = fs /\ result' = result /\ Still
    BY <2>1, <2>2, FailedExport
  <2>4. RestoreExact'
    BY <2>2, <2>3, ExactKept
  <2> QED
    BY <2>1, <2>3, <2>4 DEF RestoreInv, FailedTask
<1>6. CASE Restore(Extract) \/ Restore(CallFails)
  <2>1. phase = "restore" /\ phase' = phase /\ scenario' = scenario /\ (Extract \/ CallFails)
    BY <1>6 DEF Restore, buildVars
  <2> QED
    BY <1>1, <2>1, ExtractRestores
<1>7. CASE UNCHANGED vars
  BY <1>7, SameRestores
<1> QED
  BY <1>3, <1>4, <1>5, <1>6, <1>7 DEF Next, Done

\* The inductive invariant of the restore: until the command has returned the
\* exporter keeps its promises to the extractor, and what is below the destination is
\* what the headers taken so far demand.
THEOREM RestoreInvariance == Spec => []RestoreInv
<1>1. Init => BuildInv /\ MeaningInv /\ RestoreInv
  BY BuildInvInit, MeaningInit, RestoreInit0
<1>2. (BuildInv /\ MeaningInv /\ RestoreInv) /\ [Next]_vars => (BuildInv /\ MeaningInv /\ RestoreInv)'
  BY BuildInvStep, MeaningStep, RestoreStep
<1> QED
  BY <1>1, <1>2, PTL DEF Spec

\* A restore that reports success has recreated the tree, for every source, every
\* content of the destination and every interleaving of exporter and extractor.
THEOREM AlwaysRestoresExactly == Spec => []RestoreExact
<1>1. RestoreInv => RestoreExact
  BY DEF RestoreInv, Idle, RestoreExact
<1> QED
  BY <1>1, RestoreInvariance, PTL

\* A command whose exporter failed never reports success: a truncated archive is not
\* taken for a whole one.
THEOREM ErrorAlwaysSurfaces == Spec => []ExportErrorSurfaces
<1>1. RestoreInv => ExportErrorSurfaces
  <2> SUFFICES ASSUME RestoreInv, phase = "restore", work = <<FailedTask>>, result = "ok" PROVE FALSE
    BY DEF ExportErrorSurfaces, FailedTask
  <2>1. work = <<EndTask>>
    BY DEF RestoreInv, ExtractInv, Ends
  <2>2. FailedTask.task = "failed" /\ EndTask.task = "end"
    BY DEF FailedTask, EndTask
  <2> QED
    BY <2>1, <2>2
<1> QED
  BY <1>1, RestoreInvariance, PTL

\* Nothing is written outside the destination, and what it had before that is not a
\* directory stays as it was, whatever the tree holds and whatever fails.
THEOREM DestinationAlwaysRespected == Spec => []DestinationRespected
<1>1. RestoreInv => DestinationRespected
  <2> SUFFICES ASSUME RestoreInv PROVE DestinationRespected
    OBVIOUS
  <2>1. CASE phase = "restore"
    BY <2>1 DEF RestoreInv, ExtractInv, Placed, PlacedAs, DestinationRespected
  <2>2. CASE phase # "restore"
    BY <2>2 DEF RestoreInv, Idle, DestinationRespected
  <2> QED
    BY <2>1, <2>2
<1> QED
  BY <1>1, RestoreInvariance, PTL

\* The builders never hold a run of MaxRun items, and the variables of the pipe and of
\* both of its ends keep their types.
THEOREM TypeCorrectness == Spec => []TypeOK
<1>1. BuildInv /\ RestoreInv => TypeOK
  <2> SUFFICES ASSUME BuildInv, RestoreInv PROVE TypeOK
    OBVIOUS
  <2>1. /\ phase \in {"build", "built", "restore"} /\ isDir \in BOOLEAN /\ Len(leaf) < MaxRun
        /\ \A l \in DOMAIN levels : Len(levels[l]) < MaxRun
        /\ fin \in 0..(Len(levels) + 1)
    <3>1. DOMAIN levels = 1..Len(levels) /\ Len(levels) \in Nat
      BY DEF BuildInv, Typed
    <3> QED
      BY <3>1 DEF BuildInv, Typed, Bounded, Settled
  <2>2. CASE phase = "restore"
    <3>1. Len(pipe) <= 1
      <4>1. Units
        BY <2>2 DEF RestoreInv, ExtractInv
      <4>2. pipe = <<>> \/ \E x : pipe = <<x>>
        BY <4>1 DEF Units
      <4>3. CASE pipe = <<>>
        <5>1. Len(pipe) = 0
          BY <4>3
        <5> QED
          BY <5>1
      <4>4. ASSUME NEW x, pipe = <<x>> PROVE Len(pipe) <= 1
        <5>1. Len(pipe) = 1
          BY <4>4
        <5> QED
          BY <5>1
      <4> QED
        BY <4>2, <4>3, <4>4
    <3> QED
      BY <2>1, <2>2, <3>1 DEF RestoreInv, ExtractInv, Ends, Placed, TypeOK
  <2>3. CASE phase # "restore"
    <3>1. Idle
      BY <2>3 DEF RestoreInv
    <3>2. Len(pipe) <= 1 /\ left \in Nat /\ broken \in BOOLEAN /\ escaped \subseteq DOMAIN src
      <4>1. pipe = <<>> /\ left = 0 /\ broken = FALSE /\ escaped = {}
        BY <3>1 DEF Idle
      <4>2. Len(pipe) = 0
        BY <4>1
      <4>3. broken \in BOOLEAN /\ escaped \subseteq DOMAIN src
        BY <4>1
      <4>4. Len(pipe) <= 1 /\ left \in Nat
        BY <4>1, <4>2
      <4> QED
        BY <4>3, <4>4
    <3> QED
      BY <2>1, <3>1, <3>2 DEF Idle, TypeOK
  <2> QED
    BY <2>2, <2>3
<1> QED
  BY <1>1, BuildInvariance, RestoreInvariance, PTL

----------------------------------------------------------------------------
(* Restore fails only for a reason.                                         *)

Upto(c, n) == SubSeq(c, 1, n)

LEMMA UptoFacts ==
  ASSUME NEW S, NEW c \in Seq(S), NEW n \in Nat, n <= Len(c)
  PROVE  Upto(c, n) \in Seq(S) /\ Len(Upto(c, n)) = n /\ \A i \in 1..n : Upto(c, n)[i] = c[i]
<1>1. \A i \in 1..n : c[i] \in S
  OBVIOUS
<1>2. 1 \in Int /\ n \in Int
  OBVIOUS
<1>3. /\ SubSeq(c, 1, n) \in Seq(S)
      /\ Len(SubSeq(c, 1, n)) = IF 1 <= n THEN n - 1 + 1 ELSE 0
      /\ \A i \in 1..(n - 1 + 1) : SubSeq(c, 1, n)[i] = c[1 + i - 1]
  BY <1>1, <1>2, SubSeqProperties
<1>4. PICK u : u = Upto(c, n)
  OBVIOUS
<1>5. /\ u \in Seq(S) /\ Len(u) = IF 1 <= n THEN n - 1 + 1 ELSE 0
      /\ \A i \in 1..(n - 1 + 1) : u[i] = c[1 + i - 1]
  BY <1>3, <1>4 DEF Upto
<1>6. n - 1 + 1 = n /\ \A i \in 1..n : 1 + i - 1 = i
  OBVIOUS
<1>7. Len(u) = n
  BY <1>5
<1>8. ASSUME NEW i \in 1..n PROVE u[i] = c[i]
  <2>1. u[i] = c[1 + i - 1] /\ 1 + i - 1 = i
    BY <1>5, <1>6
  <2> QED
    BY <2>1
<1> QED
  BY <1>4, <1>5, <1>7, <1>8

LEMMA UptoFront ==
  ASSUME NEW S, NEW c \in Seq(S), NEW n \in Nat, NEW m \in Nat, m = n + 1, m <= Len(c)
  PROVE  Front(Upto(c, m)) = Upto(c, n) /\ Upto(c, m) # <<>>
<1>1. PICK u, v : u = Upto(c, m) /\ v = Upto(c, n)
  OBVIOUS
<1>2. u \in Seq(S) /\ Len(u) = m /\ \A i \in 1..m : u[i] = c[i]
  BY <1>1, UptoFacts
<1>3. v \in Seq(S) /\ Len(v) = n /\ \A i \in 1..n : v[i] = c[i]
  <2>1. n <= Len(c)
    OBVIOUS
  <2> QED
    BY <1>1, <2>1, UptoFacts
<1>4. u # <<>>
  BY <1>2
<1>5. Front(u) \in Seq(S) /\ Len(Front(u)) = Len(u) - 1 /\ \A i \in 1..(Len(u) - 1) : Front(u)[i] = u[i]
  BY <1>2, <1>4, PathSplit
<1>6. PICK w : w = Front(u)
  OBVIOUS
<1>7. w \in Seq(S) /\ Len(w) = n /\ \A i \in 1..n : w[i] = v[i]
  BY <1>2, <1>3, <1>5, <1>6
<1>8. w = v
  BY <1>3, <1>7, SeqEqual
<1> QED
  BY <1>1, <1>4, <1>6, <1>8

\* The way to a node leads through directories of the tree.
LEMMA AncestorDirs ==
  ASSUME scenario \in Scenarios, NEW c \in DOMAIN src, NEW p \in Ancestors(c)
  PROVE  p \in DOMAIN src /\ src[p].kind = "dir"
<1>1. c \in Seq(Name) /\ c # <<>> /\ Len(c) \in Nat
  BY ScenarioFacts
<1>2. PICK k \in 1..(Len(c) - 1) : p = Upto(c, k)
  BY DEF Ancestors, Upto
<1> DEFINE IsDir(q) == q \in DOMAIN src /\ src[q].kind = "dir"
           B == {m \in Nat : m \in 1..(Len(c) - 1) /\ ~IsDir(Upto(c, Len(c) - m))}
<1>3. ASSUME NEW q \in DOMAIN src, Front(q) # <<>> PROVE IsDir(Front(q))
  BY <1>3, ScenarioFacts
<1> SUFFICES ASSUME ~IsDir(p) PROVE FALSE
  OBVIOUS
<1> HIDE DEF IsDir
<1>4. Len(c) - k \in B /\ B \in SUBSET Nat
  <2>1. Len(c) - k \in Nat /\ Len(c) - k \in 1..(Len(c) - 1) /\ Len(c) - (Len(c) - k) = k
    BY <1>1, <1>2
  <2> QED
    BY <1>2, <2>1
<1>5. PICK m \in B : \A n \in B : m <= n
  <2> HIDE DEF B
  <2> QED
    BY <1>4, LeastNat
<1>6. m \in Nat /\ m \in 1..(Len(c) - 1) /\ ~IsDir(Upto(c, Len(c) - m))
  BY <1>5
<1>7. PICK n, l : n = Len(c) - m /\ l = n + 1
  OBVIOUS
<1>8. n \in Nat /\ l \in Nat /\ l <= Len(c) /\ n # 0 /\ ~IsDir(Upto(c, n)) /\ n <= Len(c)
  BY <1>1, <1>6, <1>7
<1>9. Front(Upto(c, l)) = Upto(c, n)
  BY <1>1, <1>7, <1>8, UptoFront
<1>10. Upto(c, n) # <<>>
  <2>1. Len(Upto(c, n)) = n
    BY <1>1, <1>8, UptoFacts
  <2> QED
    BY <1>8, <2>1
<1>11. Upto(c, l) \in DOMAIN src
  <2>1. CASE m = 1
    <3>1. l = Len(c)
      BY <1>1, <1>7, <2>1
    <3>2. SubSeq(c, 1, Len(c)) = c
      BY <1>1, SubSeqFull
    <3> QED
      BY <3>1, <3>2 DEF Upto
  <2>2. CASE m # 1
    <3>1. m - 1 \in Nat /\ m - 1 \in 1..(Len(c) - 1) /\ Len(c) - (m - 1) = l /\ ~(m <= m - 1)
      BY <1>1, <1>6, <1>7, <2>2
    <3>2. m - 1 \notin B
      BY <1>5, <3>1
    <3>3. IsDir(Upto(c, l))
      BY <3>1, <3>2
    <3> QED
      BY <3>3 DEF IsDir
  <2> QED
    BY <2>1, <2>2
<1> QED
  BY <1>3, <1>8, <1>9, <1>10, <1>11

\* The destinations are given clean: filepath.Join leaves them and the names below
\* them as they are.
CleanDestinations ==
  \A sc \in Scenarios :
    (\E P : sc.dest \in Seq(P)) /\ \A p \in DOMAIN sc.src : Clean(sc.dest \o p) = sc.dest \o p

LEMMA SafelyJoined ==
  ASSUME CleanDestinations, scenario \in Scenarios, dest = scenario.dest, NEW c \in DOMAIN src
  PROVE  safeJoin(c)
<1>1. PICK P : dest \in Seq(P)
  BY DEF CleanDestinations
<1>2. PICK t : t = Join(dest, c)
  OBVIOUS
<1>3. Clean(dest \o c) = t
  BY <1>2 DEF CleanDestinations, src, Join
<1>4. PICK V : V = P \cup Name
  OBVIOUS
<1>5. c \in Seq(Name) /\ c # <<>>
  BY ScenarioFacts
<1>6. dest \in Seq(V) /\ c \in Seq(V) /\ Len(c) \in Nat /\ Len(c) # 0 /\ Len(dest) \in Nat
  <2>1. dest \in Seq(V) /\ c \in Seq(V)
    BY <1>1, <1>4, <1>5, SeqMonotonic
  <2> QED
    BY <1>5, <2>1, EmptySeq
<1>7. t \in Seq(V) /\ Len(t) = Len(dest) + Len(c) /\ Joined(t, dest, c)
  BY <1>2, <1>6, JoinType, JoinAt
<1>8. Len(dest) <= Len(t) /\ Len(t) > Len(dest)
  BY <1>6, <1>7
<1>9. Upto(t, Len(dest)) = dest
  <2>1. PICK n, u : n = Len(dest) /\ u = Upto(t, n)
    OBVIOUS
  <2>2. u \in Seq(V) /\ Len(u) = n /\ \A i \in 1..n : u[i] = t[i]
    BY <1>6, <1>7, <1>8, <2>1, UptoFacts
  <2>3. \A i \in 1..n : t[i] = dest[i]
    BY <1>7, <2>1 DEF Joined
  <2>4. u = dest
    BY <1>6, <2>1, <2>2, <2>3, SeqEqual
  <2> QED
    BY <2>1, <2>4
<1>10. SubSeq(dest, 1, Len(dest)) = dest
  BY <1>6, SubSeqFull
<1>11. IsPrefix(dest, t)
  BY <1>8, <1>9, <1>10 DEF IsPrefix, Upto
<1> QED
  BY <1>3, <1>8, <1>11 DEF safeJoin

\* While a header waits, both ends are at work and its node has not been met.
LEMMA HeaderWaits ==
  ASSUME scenario \in Scenarios, RestoreInv, phase = "restore", Got("header")
  PROVE  \E c : /\ Headed(c) /\ c \in DOMAIN src /\ pipe[1] = HeaderOf(c) /\ pipe[1].path = c
                /\ pipe[1].kind = src[c].kind /\ src[c].kind # "sock"
                /\ c \in DOMAIN fs => c \in DOMAIN scenario.pre /\ scenario.pre[c].kind = fs[c].kind
<1>1. ExtractInv /\ (work = <<FailedTask>> \/ Exported)
  BY DEF RestoreInv
<1>2. PICK c : Headed(c) /\ pipe = <<HeaderOf(c)>> /\ pipe[1] = HeaderOf(c)
  BY <1>1, GotFacts DEF ExtractInv
<1>3. pipe # <<>> /\ result = "none"
  BY DEF Got
<1>4. Exported
  BY <1>1, <1>3 DEF ExtractInv, Ends
<1>5. PICK sent, D : Live(sent, D)
  BY <1>3, <1>4 DEF Exported
<1>6. Seen(sent) = sent \ {c}
  BY <1>2, PipeNow
<1>7. c \in DOMAIN fs => c \in DOMAIN scenario.pre
  BY <1>5, <1>6 DEF Live, Sent
<1>8. c \in DOMAIN scenario.pre => scenario.pre[c].kind = fs[c].kind
  BY <1>1 DEF ExtractInv, Placed, PlacedAs
<1>9. c \in DOMAIN src /\ src[c].kind # "sock"
  BY <1>2 DEF Headed
<1>10. pipe[1].path = c /\ pipe[1].kind = src[c].kind
  BY <1>2, HeaderFields
<1> QED
  BY <1>2, <1>7, <1>8, <1>9, <1>10

LEMMA RefusedForConflict ==
  ASSUME CleanDestinations, scenario \in Scenarios, RestoreInv, phase = "restore", Refuse
  PROVE  Conflict
<1>1. Got("header") /\ (~safeJoin(pipe[1].path) \/ rejectSymlinkComponents(pipe[1].path))
  BY DEF Refuse
<1>2. PICK c : /\ Headed(c) /\ c \in DOMAIN src /\ pipe[1].path = c /\ src[c].kind # "sock"
               /\ c \in DOMAIN fs => c \in DOMAIN scenario.pre /\ scenario.pre[c].kind = fs[c].kind
  BY <1>1, HeaderWaits
<1>3. ExtractInv /\ dest = scenario.dest
  BY DEF RestoreInv, ExtractInv, Ends
<1>4. safeJoin(c)
  BY <1>2, <1>3, SafelyJoined
<1>5. PICK p \in Ancestors(c) \cup {c} : p \in DOMAIN fs /\ fs[p].kind # "dir"
  BY <1>1, <1>2, <1>4 DEF rejectSymlinkComponents
<1>6. CASE p = c
  BY <1>2, <1>5, <1>6 DEF Conflict
<1>7. CASE p \in Ancestors(c)
  <2>1. p \in DOMAIN src /\ src[p].kind = "dir"
    BY <1>2, <1>7, AncestorDirs
  <2>2. /\ p \notin DOMAIN scenario.pre => fs[p].kind = src[p].kind
        /\ p \in DOMAIN scenario.pre => fs[p].kind = scenario.pre[p].kind
    BY <1>3, <1>5 DEF ExtractInv, Placed, PlacedAs
  <2>3. p \in DOMAIN scenario.pre /\ scenario.pre[p].kind # "dir"
    BY <1>5, <2>1, <2>2
  <2> QED
    BY <2>1, <2>3 DEF Conflict
<1> QED
  BY <1>5, <1>6, <1>7

LEMMA CreateFailsForConflict ==
  ASSUME scenario \in Scenarios, RestoreInv, phase = "restore", CreateFails
  PROVE  Conflict
<1>1. /\ Got("header") /\ xpc = "next"
      /\ ~Writable(pipe[1].path) \/ (pipe[1].kind # "dir" /\ pipe[1].path \in DOMAIN fs)
  BY DEF CreateFails
<1>2. PICK c : /\ Headed(c) /\ c \in DOMAIN src /\ pipe[1].path = c /\ src[c].kind # "sock"
               /\ pipe[1].kind = src[c].kind
               /\ c \in DOMAIN fs => c \in DOMAIN scenario.pre /\ scenario.pre[c].kind = fs[c].kind
  BY <1>1, HeaderWaits
<1>3. \A p \in DOMAIN fs : fs[p].kind = "dir" => OwnMode(fs[p])
  BY <1>1 DEF RestoreInv, ExtractInv, Placed, PlacedAs
<1>4. Writable(c)
  BY <1>3 DEF Writable, Exists, OwnMode
<1>5. src[c].kind # "dir" /\ c \in DOMAIN fs
  BY <1>1, <1>2, <1>4
<1> QED
  BY <1>2, <1>5 DEF Conflict

LEMMA ReadFailsBroken ==
  ASSUME scenario \in Scenarios, RestoreInv, phase = "restore", ReadFails
  PROVE  broken
<1>1. /\ result = "none" /\ pipe = <<>> /\ closed # "open"
      /\ closed = "eof" => xpc = "copy" /\ left > 0
  BY DEF ReadFails
<1>2. ExtractInv /\ (work = <<FailedTask>> \/ Exported)
  BY DEF RestoreInv
<1>3. CASE closed = "error"
  BY <1>2, <1>3 DEF ExtractInv, Ends
<1>4. CASE closed = "eof"
  <2>1. work = <<EndTask>> /\ work # <<FailedTask>>
    BY <1>2, <1>4 DEF ExtractInv, Ends
  <2>2. PICK sent, D : Exports(sent, D) /\ Live(sent, D)
    BY <1>1, <1>2, <2>1 DEF Exported
  <2>3. D = <<>>
    BY <2>1, <2>2, ExportsHead
  <2>4. Owed(D) = Join(<<>>, D)
    BY <1>1, PipeNow
  <2>5. Join(<<>>, D) = D
    <3>1. D \in Seq(Chunk)
      BY <2>2 DEF Live, Streamed
    <3> QED
      BY <3>1, JoinNil
  <2>6. left = Len(Owed(D))
    BY <1>1, <1>4, <2>2 DEF Live, Streamed
  <2>7. left = 0
    BY <2>3, <2>4, <2>5, <2>6
  <2> QED
    BY <1>1, <1>4, <2>7
<1>5. closed \in {"eof", "error"}
  BY <1>1, <1>2 DEF ExtractInv, Ends
<1> QED
  BY <1>3, <1>4, <1>5

LEMMA MetaFailsUnsearchable ==
  ASSUME scenario \in Scenarios, RestoreInv, phase = "restore", DirMetaFails
  PROVE  Unsearchable
<1>1. dirs # <<>> /\ ~Searchable(dirs[1].path)
  BY DEF DirMetaFails
<1>2. ExtractInv
  BY DEF RestoreInv
<1>3. PICK c \in DOMAIN src : dirs[1].path = c
  BY <1>1, <1>2, DueFacts
<1>4. ~euid0 /\ \E p \in Ancestors(c) : Exists(p, {"dir"}) /\ "x" \notin fs[p].mode
  BY <1>1, <1>3 DEF Searchable
<1>5. PICK p \in Ancestors(c) : Exists(p, {"dir"}) /\ "x" \notin fs[p].mode
  BY <1>4
<1>6. p \in DOMAIN src /\ src[p].kind = "dir"
  BY <1>3, <1>5, AncestorDirs
<1>7. IsDirAt(fs, p)
  BY <1>5 DEF Exists, IsDirAt
<1>8. Merged(fs[p], p)
  BY <1>2, <1>6, <1>7 DEF ExtractInv, Placed, PlacedAs
<1>9. ~OwnMode(fs[p])
  BY <1>4, <1>5 DEF OwnMode
<1>10. fs[p] = Restored(src[p])
  BY <1>8, <1>9 DEF Merged
<1>11. fs[p].mode = src[p].mode
  BY <1>6, <1>10, RestoredFields
<1> QED
  BY <1>4, <1>5, <1>6, <1>11 DEF Unsearchable

LEMMA ReasonsKept ==
  ASSUME Still
  PROVE  Conflict' = Conflict /\ Unsearchable' = Unsearchable
<1>1. src' = src /\ scenario' = scenario /\ euid0' = euid0
  BY StillFacts
<1> QED
  BY <1>1 DEF Conflict, Unsearchable

LEMMA ReasonStep ==
  ASSUME CleanDestinations, BuildInv, RestoreInv, NoSpuriousFailure, [Next]_vars
  PROVE  NoSpuriousFailure'
<1>1. scenario \in Scenarios
  BY DEF BuildInv, Typed
<1>2. ASSUME Still, result' = result, broken' \in {broken, TRUE} PROVE NoSpuriousFailure'
  <2>1. Conflict' = Conflict /\ Unsearchable' = Unsearchable
    BY <1>2, ReasonsKept
  <2>2. broken => broken'
    BY <1>2
  <2> QED
    BY <1>2, <2>1, <2>2 DEF NoSpuriousFailure
<1>3. ASSUME UNCHANGED <<scenario, restoreVars>> PROVE NoSpuriousFailure'
  <2>1. Still /\ result' = result /\ broken' = broken
    BY <1>3 DEF restoreVars, extractVars, Still
  <2> QED
    BY <1>2, <2>1
<1>4. CASE Build
  <2>1. CASE StartRestore
    <3>1. Still /\ result' = result /\ broken' = broken
      BY <2>1 DEF StartRestore, extractVars, Still
    <3> QED
      BY <1>2, <3>1
  <2>2. CASE ~StartRestore
    <3>1. Building
      BY <1>4, <2>2 DEF Build, StartNode, SpillXattrs, Feed, FinishNode, BuildStep, NodeBuilt, AtNode
    <3> QED
      BY <1>3, <3>1 DEF Building
  <2> QED
    BY <2>1, <2>2
<1>5. CASE Restore(Export) \/ Restore(GetFails)
  <2>1. scenario' = scenario /\ (Export \/ GetFails)
    BY <1>5 DEF Restore
  <2>2. Still /\ result' = result /\ broken' \in {broken, TRUE}
    BY <2>1 DEF Export, ExportEntry, collectEntries, ExportDir, WriteContent, ExportTrailer, ExportEnds,
       GetFails, extractVars, Still
  <2> QED
    BY <1>2, <2>2
<1>6. CASE Restore(Extract) \/ Restore(CallFails)
  <2>1. phase = "restore" /\ scenario' = scenario /\ (Extract \/ CallFails)
    BY <1>6 DEF Restore
  <2>2. Still
    BY <2>1 DEF Extract, Refuse, ExtractDir, ExtractReg, CopyChunk, FileMeta, ExtractSpecial, CreateFails,
       ExtractEOF, ReadFails, DirMeta, DirMetaFails, ExtractReturns, CallFails, Fails, Still
  <2>3. Conflict' = Conflict /\ Unsearchable' = Unsearchable
    BY <2>2, ReasonsKept
  <2>4. CASE Refuse
    BY <1>1, <2>1, <2>3, <2>4, RefusedForConflict DEF NoSpuriousFailure
  <2>5. CASE CreateFails
    BY <1>1, <2>1, <2>3, <2>5, CreateFailsForConflict DEF NoSpuriousFailure
  <2>6. CASE ReadFails
    <3>1. broken' = broken
      BY <2>6 DEF ReadFails
    <3> QED
      BY <1>1, <2>1, <2>6, <3>1, ReadFailsBroken DEF NoSpuriousFailure
  <2>7. CASE DirMetaFails
    BY <1>1, <2>1, <2>3, <2>7, MetaFailsUnsearchable DEF NoSpuriousFailure
  <2>8. CASE CallFails
    BY <2>8 DEF CallFails, NoSpuriousFailure
  <2>9. CASE ExtractReturns
    BY <2>9 DEF ExtractReturns, NoSpuriousFailure
  <2>10. CASE ExtractDir \/ ExtractReg \/ CopyChunk \/ FileMeta \/ ExtractSpecial \/ ExtractEOF \/ DirMeta
    <3>1. result' = result /\ broken' = broken
      BY <2>10 DEF ExtractDir, ExtractReg, CopyChunk, FileMeta, ExtractSpecial, ExtractEOF, DirMeta
    <3> QED
      BY <1>2, <2>2, <3>1
  <2> QED
    BY <2>1, <2>4, <2>5, <2>6, <2>7, <2>8, <2>9, <2>10 DEF Extract
<1>7. CASE UNCHANGED vars
  BY <1>3, <1>7 DEF vars
<1> QED
  BY <1>4, <1>5, <1>6, <1>7 DEF Next, Done

\* Where the destination is given clean, as in "dest" and not in "./dest", restore
\* fails only when a call or a read of the store failed, when something of another
\* kind is in the way, or when a directory of the tree may not be searched.
THEOREM FailsOnlyForAReason ==
  ASSUME CleanDestinations
  PROVE  Spec => []NoSpuriousFailure
<1>1. Init => NoSpuriousFailure
  BY DEF Init, RestoreInit, NoSpuriousFailure
<1>2. BuildInv /\ RestoreInv /\ NoSpuriousFailure /\ [Next]_vars => NoSpuriousFailure'
  BY ReasonStep
<1> QED
  BY <1>1, <1>2, BuildInvariance, RestoreInvariance, PTL DEF Spec
=============================================================================

--------------------------- MODULE PageTableProofs ----------------------------
(* The tables of all directories are apart, for any number of levels, any    *)
(* index set and any sequence of mapPage and clone; and so a directory is a  *)
(* map of its own (AddressSpaces).                                          *)
EXTENDS PageTables, Induction, SequenceTheorems

-----------------------------------------------------------------------------
(* Walks of a memory m: the operators of PageTables for memories that are   *)
(* not mem, so that a lemma can speak of two at a time.                     *)

WalkIn(m, d, v, n) ==
  LET t[k \in 0..n] == IF k = 0 THEN d ELSE m[t[k - 1]][v[k]].addr IN t[n]

PresentIn(m, d, v, n) == \A k \in 1..n : m[WalkIn(m, d, v, k - 1)][v[k]].present

PathsIn(m, d) == UNION {{q \in [1..n -> Index] : PresentIn(m, d, q, n)} : n \in 0..(Depth - 1)}

ApartIn(m, D, bound) ==
  \A d, e \in D : \A q \in PathsIn(m, d), r \in PathsIn(m, e) :
    /\ WalkIn(m, d, q, Len(q)) < bound
    /\ <<d, q>> # <<e, r>> => WalkIn(m, d, q, Len(q)) # WalkIn(m, e, r, Len(r))

\* Every table that a walk can come to is in S.
Inside(m, D, S) == \A e \in D : \A q \in PathsIn(m, e) : WalkIn(m, e, q, Len(q)) \in S

\* v and w begin with the same n indices.
Agree(v, w, n) == \A k \in 1..n : v[k] = w[k]

\* The entries that the first n indices of v find in m are the same in m2.
Meets(m, m2, d, v, n) ==
  \A k \in 1..n : m2[WalkIn(m, d, v, k - 1)][v[k]] = m[WalkIn(m, d, v, k - 1)][v[k]]

\* The k-th index of v finds an entry that differs, by a way that does not.
Differs(m, m2, d, v, k) ==
  /\ PresentIn(m, d, v, k - 1)
  /\ WalkIn(m2, d, v, k - 1) = WalkIn(m, d, v, k - 1)
  /\ m2[WalkIn(m, d, v, k - 1)][v[k]] # m[WalkIn(m, d, v, k - 1)][v[k]]

\* The first n indices of v.
Prefix(v, n) == [k \in 1..n |-> v[k]]

LEMMA InMemory ==
  /\ \A d, v, n : Table(d, v, n) = WalkIn(mem, d, v, n) /\ Table(d, v, n)' = WalkIn(mem', d, v, n)
  /\ \A d, v, n : Present(d, v, n) = PresentIn(mem, d, v, n) /\ Present(d, v, n)' = PresentIn(mem', d, v, n)
  /\ \A d : Paths(d) = PathsIn(mem, d) /\ Paths(d)' = PathsIn(mem', d)
  <1>1. \A d, v, n : Table(d, v, n) = WalkIn(mem, d, v, n) /\ Table(d, v, n)' = WalkIn(mem', d, v, n)
    BY DEF Table, WalkIn
  <1>2. \A d, v, n : Present(d, v, n) = PresentIn(mem, d, v, n) /\ Present(d, v, n)' = PresentIn(mem', d, v, n)
    BY <1>1 DEF Present, EntryAt, PresentIn
  <1>3. \A d : Paths(d) = PathsIn(mem, d) /\ Paths(d)' = PathsIn(mem', d)
    BY <1>2 DEF Paths, PathsIn
  <1> QED
    BY <1>1, <1>2, <1>3

IsWalk(t, m, d, v, n) == t = [k \in 0..n |-> IF k = 0 THEN d ELSE m[t[k - 1]][v[k]].addr]

LEMMA WalkExists ==
  ASSUME NEW m, NEW d, NEW v, NEW N \in Nat
  PROVE  \E t : IsWalk(t, m, d, v, N)
  <1> DEFINE T == {n \in 0..N : \E t : IsWalk(t, m, d, v, n)}
  <1>1. 0 \in T
    <2> DEFINE t == [k \in 0..0 |-> d]
    <2>1. \A k \in 0..0 : k = 0
      OBVIOUS
    <2>2. t = [k \in 0..0 |-> IF k = 0 THEN d ELSE m[t[k - 1]][v[k]].addr]
      BY <2>1
    <2>3. IsWalk(t, m, d, v, 0)
      BY <2>2 DEF IsWalk
    <2> QED
      BY <2>3
  <1>2. ASSUME NEW n \in T, n < N PROVE n + 1 \in T
    <2>1. PICK f : IsWalk(f, m, d, v, n)
      OBVIOUS
    <2> DEFINE t == [k \in 0..(n + 1) |-> IF k = n + 1 THEN m[f[n]][v[n + 1]].addr ELSE f[k]]
    <2>2. ASSUME NEW k \in 0..(n + 1) PROVE t[k] = IF k = 0 THEN d ELSE m[t[k - 1]][v[k]].addr
      <3>1. n \in Nat /\ n \in 0..n /\ n \in 0..(n + 1) /\ n # n + 1
        OBVIOUS
      <3>2. CASE k = n + 1
        <4>1. k # 0 /\ k - 1 = n
          BY <3>1, <3>2
        <4>2. t[k] = m[f[n]][v[n + 1]].addr /\ t[n] = f[n]
          BY <3>1, <3>2
        <4> QED
          BY <3>2, <4>1, <4>2
      <3>3. CASE k # n + 1
        <4>1. k \in 0..n /\ t[k] = f[k]
          BY <3>1, <3>3
        <4>2. k # 0 => k - 1 \in 0..(n + 1) /\ k - 1 # n + 1
          BY <3>1, <4>1
        <4>3. k # 0 => t[k - 1] = f[k - 1]
          BY <4>2
        <4>4. f[k] = IF k = 0 THEN d ELSE m[f[k - 1]][v[k]].addr
          BY <2>1, <4>1 DEF IsWalk
        <4> QED
          BY <4>1, <4>3, <4>4
      <3> QED
        BY <3>2, <3>3
    <2>3. t = [k \in 0..(n + 1) |-> IF k = 0 THEN d ELSE m[t[k - 1]][v[k]].addr]
      BY <2>2
    <2>4. IsWalk(t, m, d, v, n + 1)
      BY <2>3 DEF IsWalk
    <2> HIDE DEF t
    <2> QED
      BY <1>2, <2>4
  <1> HIDE DEF T
  <1>3. T \subseteq 0..N
    BY DEF T
  <1>4. T = 0..N
    BY <1>1, <1>2, <1>3, Counting
  <1> QED
    BY <1>4 DEF T

LEMMA WalkUnique ==
  ASSUME NEW m, NEW d, NEW v, NEW N \in Nat, NEW M \in Nat, N <= M,
         NEW f, NEW g, IsWalk(f, m, d, v, N), IsWalk(g, m, d, v, M)
  PROVE  \A k \in 0..N : f[k] = g[k]
  <1> DEFINE T == {k \in 0..N : f[k] = g[k]}
  <1>1. 0 \in T
    BY DEF IsWalk
  <1>2. ASSUME NEW n \in T, n < N PROVE n + 1 \in T
    <2>1. n + 1 \in 0..N /\ n + 1 \in 0..M /\ n + 1 # 0 /\ n + 1 - 1 = n
      BY <1>2
    <2>2. f[n + 1] = m[f[n]][v[n + 1]].addr
      <3>1. \A k \in 0..N : k # 0 => f[k] = m[f[k - 1]][v[k]].addr
        BY DEF IsWalk
      <3> QED
        BY <2>1, <3>1
    <2>3. g[n + 1] = m[g[n]][v[n + 1]].addr
      <3>1. \A k \in 0..M : k # 0 => g[k] = m[g[k - 1]][v[k]].addr
        BY DEF IsWalk
      <3>2. PICK j \in 0..M : j = n + 1 /\ j # 0 /\ j - 1 = n
        BY <2>1
      <3> QED
        BY <3>1, <3>2
    <2> QED
      BY <2>1, <2>2, <2>3
  <1> HIDE DEF T
  <1>3. T \subseteq 0..N
    BY DEF T
  <1>4. T = 0..N
    BY <1>1, <1>2, <1>3, Counting
  <1> QED
    BY <1>4 DEF T

\* A walk goes on from where it has come.
LEMMA WalkStep ==
  ASSUME NEW m, NEW d, NEW v, NEW n \in Nat
  PROVE  /\ WalkIn(m, d, v, 0) = d
         /\ WalkIn(m, d, v, n + 1) = m[WalkIn(m, d, v, n)][v[n + 1]].addr
  <1> DEFINE t(k) == CHOOSE f : IsWalk(f, m, d, v, k)
  <1>1. \A k \in Nat : WalkIn(m, d, v, k) = t(k)[k] /\ IsWalk(t(k), m, d, v, k)
    <2>1. \A k \in Nat : IsWalk(t(k), m, d, v, k)
      BY WalkExists
    <2>2. \A k \in Nat : WalkIn(m, d, v, k) = t(k)[k]
      BY DEF WalkIn, IsWalk
    <2> QED
      BY <2>1, <2>2
  <1> HIDE DEF t
  <1>2. WalkIn(m, d, v, 0) = d
    BY <1>1 DEF IsWalk
  <1>3. t(n + 1)[n + 1] = m[t(n + 1)[n]][v[n + 1]].addr
    <2>1. n + 1 \in 0..(n + 1) /\ n + 1 # 0 /\ n + 1 - 1 = n /\ n + 1 \in Nat
      OBVIOUS
    <2> QED
      BY <1>1, <2>1 DEF IsWalk
  <1>4. t(n)[n] = t(n + 1)[n]
    <2>1. n + 1 \in Nat /\ n <= n + 1 /\ n \in 0..n
      OBVIOUS
    <2> QED
      BY <1>1, <2>1, WalkUnique
  <1>5. n + 1 \in Nat
    OBVIOUS
  <1> QED
    BY <1>1, <1>2, <1>3, <1>4, <1>5

LEMMA WalkLast ==
  ASSUME NEW m, NEW d, NEW v, NEW n \in Nat, n # 0
  PROVE  WalkIn(m, d, v, n) = m[WalkIn(m, d, v, n - 1)][v[n]].addr
  <1>1. PICK k \in Nat : n = k + 1 /\ n - 1 = k
    <2>1. n - 1 \in Nat /\ n = n - 1 + 1
      OBVIOUS
    <2> QED
      BY <2>1
  <1> QED
    BY <1>1, WalkStep

\* Where the same indices find the same entries, they lead to the same tables.
LEMMA WalkSame ==
  ASSUME NEW m, NEW m2, NEW d, NEW v, NEW w, NEW N \in Nat,
         Agree(v, w, N), Meets(m, m2, d, v, N)
  PROVE  \A k \in 0..N : WalkIn(m2, d, w, k) = WalkIn(m, d, v, k)
  <1> DEFINE T == {k \in 0..N : WalkIn(m2, d, w, k) = WalkIn(m, d, v, k)}
  <1>1. 0 \in T
    BY WalkStep
  <1>2. ASSUME NEW n \in T, n < N PROVE n + 1 \in T
    <2>1. n \in Nat /\ n + 1 \in 1..N /\ n + 1 - 1 = n /\ n + 1 \in 0..N
      BY <1>2
    <2>2. m2[WalkIn(m, d, v, n)][v[n + 1]] = m[WalkIn(m, d, v, n)][v[n + 1]]
      BY <2>1 DEF Meets
    <2>3. v[n + 1] = w[n + 1]
      BY <2>1 DEF Agree
    <2>4. WalkIn(m, d, v, n + 1) = m[WalkIn(m, d, v, n)][v[n + 1]].addr
      BY <2>1, WalkStep
    <2>5. WalkIn(m2, d, w, n + 1) = m2[WalkIn(m2, d, w, n)][w[n + 1]].addr
      BY <2>1, WalkStep
    <2> QED
      BY <2>1, <2>2, <2>3, <2>4, <2>5
  <1> HIDE DEF T
  <1>3. T \subseteq 0..N
    BY DEF T
  <1>4. T = 0..N
    BY <1>1, <1>2, <1>3, Counting
  <1> QED
    BY <1>4 DEF T

\* A walk that meets the same entries is the same.
LEMMA Kept ==
  ASSUME NEW m, NEW m2, NEW d, NEW v, NEW N \in Nat, PresentIn(m, d, v, N), Meets(m, m2, d, v, N)
  PROVE  PresentIn(m2, d, v, N) /\ \A k \in 0..N : WalkIn(m2, d, v, k) = WalkIn(m, d, v, k)
  <1>1. \A k \in 0..N : WalkIn(m2, d, v, k) = WalkIn(m, d, v, k)
    BY WalkSame DEF Agree
  <1>2. ASSUME NEW k \in 1..N PROVE m2[WalkIn(m2, d, v, k - 1)][v[k]].present
    <2>1. k - 1 \in 0..N
      OBVIOUS
    <2> QED
      BY <1>1, <2>1 DEF PresentIn, Meets
  <1> QED
    BY <1>1, <1>2 DEF PresentIn

\* A walk that is new comes to an entry that differs, by a way that is not new.
LEMMA FirstDifference ==
  ASSUME NEW m, NEW m2, NEW d, NEW v, NEW N \in Nat, PresentIn(m2, d, v, N),
         ~PresentIn(m, d, v, N) \/ ~Meets(m, m2, d, v, N)
  PROVE  \E k \in 1..N : Differs(m, m2, d, v, k)
  <1> DEFINE Same(k) == m2[WalkIn(m, d, v, k - 1)][v[k]] = m[WalkIn(m, d, v, k - 1)][v[k]]
             T == {k \in 0..N : PresentIn(m, d, v, k) /\ Meets(m, m2, d, v, k)}
  <1> SUFFICES ASSUME \A k \in 1..N :
                        /\ PresentIn(m, d, v, k - 1)
                        /\ WalkIn(m2, d, v, k - 1) = WalkIn(m, d, v, k - 1)
                        => Same(k)
               PROVE  FALSE
    BY DEF Differs
  <1>1. 0 \in T
    <2>1. \A k \in 1..0 : FALSE
      OBVIOUS
    <2> QED
      BY <2>1 DEF PresentIn, Meets
  <1>2. ASSUME NEW n \in T, n < N PROVE n + 1 \in T
    <2>1. n \in Nat /\ n \in 0..n /\ n + 1 \in 1..N /\ n + 1 - 1 = n /\ n + 1 \in 0..N
      BY <1>2
    <2>2. PresentIn(m, d, v, n) /\ Meets(m, m2, d, v, n)
      OBVIOUS
    <2> HIDE DEF T
    <2>3. WalkIn(m2, d, v, n) = WalkIn(m, d, v, n)
      BY <2>1, <2>2, Kept
    <2>4. Same(n + 1)
      BY <2>1, <2>2, <2>3
    <2>5. m2[WalkIn(m2, d, v, n)][v[n + 1]].present
      BY <2>1 DEF PresentIn
    <2>6. m[WalkIn(m, d, v, n)][v[n + 1]].present
      BY <2>1, <2>3, <2>4, <2>5
    <2>7. \A j \in 1..(n + 1) : j = n + 1 \/ j \in 1..n
      BY <2>1
    <2>8. PresentIn(m, d, v, n + 1)
      <3>1. ASSUME NEW j \in 1..(n + 1) PROVE m[WalkIn(m, d, v, j - 1)][v[j]].present
        <4>1. CASE j = n + 1
          BY <2>1, <2>6, <4>1
        <4>2. CASE j \in 1..n
          BY <2>2, <4>2 DEF PresentIn
        <4> QED
          BY <2>7, <4>1, <4>2
      <3> QED
        BY <3>1 DEF PresentIn
    <2>9. Meets(m, m2, d, v, n + 1)
      <3>1. \A j \in 1..n : Same(j)
        BY <2>2 DEF Meets
      <3> HIDE DEF Same
      <3>2. \A j \in 1..(n + 1) : Same(j)
        BY <2>4, <2>7, <3>1
      <3> QED
        BY <3>2 DEF Meets, Same
    <2> QED
      BY <2>1, <2>8, <2>9 DEF T
  <1>3. T \subseteq 0..N /\ (N \in T => PresentIn(m, d, v, N) /\ Meets(m, m2, d, v, N))
    OBVIOUS
  <1> HIDE DEF T
  <1>4. T = 0..N
    BY <1>1, <1>2, <1>3, Counting
  <1>5. N \in T
    BY <1>4
  <1> QED
    BY <1>3, <1>5

\* Indices with the same beginning lead to the same tables there.
LEMMA SamePrefix ==
  ASSUME NEW m, NEW d, NEW v, NEW w, NEW N \in Nat, Agree(v, w, N)
  PROVE  /\ PresentIn(m, d, w, N) = PresentIn(m, d, v, N)
         /\ \A k \in 0..N : WalkIn(m, d, w, k) = WalkIn(m, d, v, k)
  <1>1. \A k \in 0..N : WalkIn(m, d, w, k) = WalkIn(m, d, v, k)
    BY WalkSame DEF Meets
  <1>2. \A k \in 1..N : k - 1 \in 0..N
    OBVIOUS
  <1>3. \A k \in 1..N : m[WalkIn(m, d, w, k - 1)][w[k]].present = m[WalkIn(m, d, v, k - 1)][v[k]].present
    BY <1>1, <1>2 DEF Agree
  <1> QED
    BY <1>1, <1>3 DEF PresentIn

\* What a member of Paths is.
LEMMA PathsOf ==
  ASSUME NEW m, NEW d, NEW q
  PROVE  q \in PathsIn(m, d) <=>
           \E n \in 0..(Depth - 1) :
             q \in [1..n -> Index] /\ Len(q) = n /\ PresentIn(m, d, q, n)
  <1>1. ASSUME NEW n \in 0..(Depth - 1), q \in [1..n -> Index] PROVE Len(q) = n
    <2>1. n \in Nat /\ q \in Seq(Index) /\ DOMAIN q = 1..n
      BY <1>1, DepthAssumption
    <2> QED
      BY <2>1
  <1> QED
    BY <1>1 DEF PathsIn

\* A walk of mapPage or of the processor is along one of the Paths.
LEMMA PrefixIsPath ==
  ASSUME NEW m, NEW d, NEW N \in Nat, NEW v \in [1..N -> Index],
         NEW n \in 0..(Depth - 1), n <= N, PresentIn(m, d, v, n)
  PROVE  /\ Prefix(v, n) \in PathsIn(m, d) /\ Prefix(v, n) \in [1..n -> Index]
         /\ Len(Prefix(v, n)) = n
         /\ WalkIn(m, d, Prefix(v, n), n) = WalkIn(m, d, v, n)
  <1>1. n \in Nat /\ 1..n \subseteq 1..N
    BY DepthAssumption
  <1>2. Prefix(v, n) \in [1..n -> Index] /\ Agree(v, Prefix(v, n), n)
    BY <1>1 DEF Prefix, Agree
  <1>3. Prefix(v, n) \in Seq(Index) /\ Len(Prefix(v, n)) = n
    BY <1>1, <1>2 DEF Prefix
  <1>4. /\ PresentIn(m, d, Prefix(v, n), n)
        /\ WalkIn(m, d, Prefix(v, n), n) = WalkIn(m, d, v, n)
    BY <1>1, <1>2, SamePrefix
  <1> QED
    BY <1>2, <1>3, <1>4, PathsOf

\* With tables that are apart, a table says how a walk came to it.
LEMMA OneWay ==
  ASSUME NEW m, NEW D, NEW bound, ApartIn(m, D, bound), NEW d \in D, NEW e \in D,
         NEW N \in Nat, NEW v \in [1..N -> Index], NEW n \in 0..(Depth - 1), n <= N,
         NEW M \in Nat, NEW w \in [1..M -> Index], NEW k \in 0..(Depth - 1), k <= M,
         PresentIn(m, d, v, n), PresentIn(m, e, w, k)
  PROVE  /\ WalkIn(m, d, v, n) < bound
         /\ WalkIn(m, d, v, n) = WalkIn(m, e, w, k) =>
              d = e /\ n = k /\ Agree(v, w, n)
  <1>1. /\ Prefix(v, n) \in PathsIn(m, d) /\ Len(Prefix(v, n)) = n
        /\ WalkIn(m, d, Prefix(v, n), n) = WalkIn(m, d, v, n)
    <2>1. Prefix(v, n) \in PathsIn(m, d)
      BY PrefixIsPath
    <2>2. Len(Prefix(v, n)) = n
      BY PrefixIsPath
    <2>3. WalkIn(m, d, Prefix(v, n), n) = WalkIn(m, d, v, n)
      BY PrefixIsPath
    <2> QED
      BY <2>1, <2>2, <2>3
  <1>2. /\ Prefix(w, k) \in PathsIn(m, e) /\ Len(Prefix(w, k)) = k
        /\ WalkIn(m, e, Prefix(w, k), k) = WalkIn(m, e, w, k)
    BY PrefixIsPath
  <1>3. WalkIn(m, d, v, n) < bound
    BY <1>1 DEF ApartIn
  <1>4. ASSUME WalkIn(m, d, v, n) = WalkIn(m, e, w, k) PROVE <<d, Prefix(v, n)>> = <<e, Prefix(w, k)>>
    BY <1>1, <1>2, <1>4 DEF ApartIn
  <1>5. ASSUME Prefix(v, n) = Prefix(w, k) PROVE n = k /\ Agree(v, w, n)
    <2>1. n = k
      BY <1>1, <1>2, <1>5
    <2>2. \A j \in 1..n : Prefix(v, n)[j] = v[j] /\ Prefix(w, n)[j] = w[j]
      BY DEF Prefix
    <2> QED
      BY <1>5, <2>1, <2>2 DEF Agree
  <1> QED
    BY <1>3, <1>4, <1>5

-----------------------------------------------------------------------------
(* What a change of the memory does to the walks.                          *)

\* m2 has the entries of m in every table that points to tables.
Steady(m, m2, D) ==
  \A e \in D : \A q \in PathsIn(m, e) :
    Len(q) < Depth - 1 => \A i \in Index : m2[WalkIn(m, e, q, Len(q))][i] = m[WalkIn(m, e, q, Len(q))][i]

LEMMA SteadyWalks ==
  ASSUME NEW m, NEW m2, NEW D, Steady(m, m2, D), NEW e \in D,
         NEW N \in Nat, NEW v \in [1..N -> Index], NEW n \in 0..(Depth - 1), n <= N
  PROVE  /\ PresentIn(m2, e, v, n) <=> PresentIn(m, e, v, n)
         /\ PresentIn(m, e, v, n) => \A k \in 0..n : WalkIn(m2, e, v, k) = WalkIn(m, e, v, k)
  <1>1. n \in Nat
    BY DepthAssumption
  <1>2. ASSUME NEW k \in 1..n, PresentIn(m, e, v, k - 1)
        PROVE  m2[WalkIn(m, e, v, k - 1)][v[k]] = m[WalkIn(m, e, v, k - 1)][v[k]]
    <2>1. k - 1 \in 0..(Depth - 1) /\ k - 1 < Depth - 1 /\ k - 1 <= N /\ v[k] \in Index
      BY <1>1, DepthAssumption
    <2>2. PICK q \in PathsIn(m, e) : Len(q) = k - 1 /\ WalkIn(m, e, q, k - 1) = WalkIn(m, e, v, k - 1)
      BY <1>2, <2>1, PrefixIsPath
    <2> QED
      BY <2>1, <2>2 DEF Steady
  <1>3. ASSUME PresentIn(m, e, v, n) PROVE Meets(m, m2, e, v, n)
    <2>1. ASSUME NEW k \in 1..n PROVE PresentIn(m, e, v, k - 1)
      BY <1>1, <1>3 DEF PresentIn
    <2> QED
      BY <1>2, <2>1 DEF Meets
  <1>4. PresentIn(m, e, v, n) => PresentIn(m2, e, v, n) /\ \A k \in 0..n : WalkIn(m2, e, v, k) = WalkIn(m, e, v, k)
    BY <1>1, <1>3, Kept
  <1>5. ASSUME PresentIn(m2, e, v, n), ~PresentIn(m, e, v, n) PROVE FALSE
    <2>1. PICK k \in 1..n : Differs(m, m2, e, v, k)
      BY <1>1, <1>5, FirstDifference
    <2> QED
      BY <1>2, <2>1 DEF Differs
  <1> QED
    BY <1>4, <1>5

LEMMA SteadyPaths ==
  ASSUME NEW m, NEW m2, NEW D, Steady(m, m2, D), NEW e \in D
  PROVE  /\ PathsIn(m2, e) = PathsIn(m, e)
         /\ \A q \in PathsIn(m, e) : WalkIn(m2, e, q, Len(q)) = WalkIn(m, e, q, Len(q))
  <1>1. ASSUME NEW q, NEW n \in 0..(Depth - 1), q \in [1..n -> Index]
        PROVE  /\ PresentIn(m2, e, q, n) <=> PresentIn(m, e, q, n)
               /\ PresentIn(m, e, q, n) => WalkIn(m2, e, q, n) = WalkIn(m, e, q, n)
    <2>1. n \in Nat /\ n <= n /\ n \in 0..n
      BY DepthAssumption
    <2> QED
      BY <1>1, <2>1, SteadyWalks
  <1>2. \A q : q \in PathsIn(m2, e) <=> q \in PathsIn(m, e)
    BY <1>1, PathsOf
  <1>3. ASSUME NEW q \in PathsIn(m, e) PROVE WalkIn(m2, e, q, Len(q)) = WalkIn(m, e, q, Len(q))
    BY <1>1, PathsOf
  <1> QED
    BY <1>2, <1>3

LEMMA SteadyApart ==
  ASSUME NEW m, NEW m2, NEW D, Steady(m, m2, D), NEW bound \in Nat, NEW bound2 \in Nat,
         bound <= bound2, ApartIn(m, D, bound),
         Inside(m, D, Nat)
  PROVE  ApartIn(m2, D, bound2)
  <1>1. ASSUME NEW d \in D, NEW e \in D, NEW q \in PathsIn(m2, d), NEW r \in PathsIn(m2, e)
        PROVE  /\ WalkIn(m2, d, q, Len(q)) < bound2
               /\ <<d, q>> # <<e, r>> => WalkIn(m2, d, q, Len(q)) # WalkIn(m2, e, r, Len(r))
    <2>1. q \in PathsIn(m, d) /\ WalkIn(m2, d, q, Len(q)) = WalkIn(m, d, q, Len(q))
      BY SteadyPaths
    <2>2. r \in PathsIn(m, e) /\ WalkIn(m2, e, r, Len(r)) = WalkIn(m, e, r, Len(r))
      BY SteadyPaths
    <2>3. WalkIn(m, d, q, Len(q)) \in Nat /\ WalkIn(m, d, q, Len(q)) < bound
      BY <2>1 DEF ApartIn, Inside
    <2> QED
      BY <2>1, <2>2, <2>3 DEF ApartIn
  <1> QED
    BY <1>1 DEF ApartIn

\* m2 is m with the empty table `new` linked from where v[n] leads to.
Links(m, m2, D, bound, S, d, v, n, new) ==
  LET at == WalkIn(m, d, v, n - 1) IN
  /\ ApartIn(m, D, bound) /\ Inside(m, D, S)
  /\ PresentIn(m, d, v, n - 1) /\ ~m[at][v[n]].present
  /\ new \in S /\ new # at /\ \A i \in Index : ~m[new][i].present
  /\ m2[at][v[n]].present /\ m2[at][v[n]].addr = new
  /\ \A p \in S, i \in Index : ~(p = at /\ i = v[n]) => m2[p][i] = m[p][i]

\* What a walk of k indices of w from e is in m2, the link being made.
LinkSeen(m, m2, d, v, n, new, e, w, k) ==
  /\ PresentIn(m, e, w, k) =>
       PresentIn(m2, e, w, k) /\ \A j \in 0..k : WalkIn(m2, e, w, j) = WalkIn(m, e, w, j)
  /\ PresentIn(m2, e, w, k) /\ ~PresentIn(m, e, w, k) =>
       e = d /\ k = n /\ Agree(v, w, n) /\ WalkIn(m2, e, w, k) = new

\* A zeroed table leads nowhere: one walk is new, and it ends there.
LEMMA Linked ==
  ASSUME NEW m, NEW m2, NEW D, NEW bound, NEW S, NEW new,
         NEW d \in D, NEW v \in [1..Depth -> Index], NEW n \in 1..(Depth - 1),
         Links(m, m2, D, bound, S, d, v, n, new),
         NEW e \in D, NEW M \in Nat, NEW w \in [1..M -> Index], NEW k \in 0..Depth, k <= M
  PROVE  LinkSeen(m, m2, d, v, n, new, e, w, k)
  <1> DEFINE at == WalkIn(m, d, v, n - 1)
  <1>0. /\ ApartIn(m, D, bound) /\ Inside(m, D, S)
        /\ PresentIn(m, d, v, n - 1) /\ ~m[at][v[n]].present
        /\ new \in S /\ new # at /\ \A i \in Index : ~m[new][i].present
        /\ m2[at][v[n]].present /\ m2[at][v[n]].addr = new
        /\ \A p \in S, i \in Index : ~(p = at /\ i = v[n]) => m2[p][i] = m[p][i]
    BY DEF Links
  <1>1. k \in Nat /\ n \in Nat /\ n - 1 \in 0..(Depth - 1) /\ n - 1 <= Depth /\ Depth \in Nat /\ v[n] \in Index
    BY DepthAssumption
  <1>10. ASSUME NEW j \in 1..k, PresentIn(m, e, w, j - 1)
        PROVE  WalkIn(m, e, w, j - 1) \in S /\ w[j] \in Index
    <2>1. PICK x \in 0..(Depth - 1) : x = j - 1 /\ x <= M /\ PresentIn(m, e, w, x)
      <3>1. j - 1 \in 0..(Depth - 1) /\ j - 1 <= M
        BY <1>1, DepthAssumption
      <3> QED
        BY <1>10, <3>1
    <2>2. /\ Prefix(w, x) \in PathsIn(m, e) /\ Len(Prefix(w, x)) = x
          /\ WalkIn(m, e, Prefix(w, x), x) = WalkIn(m, e, w, x)
      BY <2>1, PrefixIsPath
    <2>3. WalkIn(m, e, w, x) \in S
      BY <1>0, <2>2 DEF Inside
    <2>4. w[j] \in Index
      BY <1>1
    <2> QED
      BY <2>1, <2>3, <2>4
  <1>2. ASSUME PresentIn(m, e, w, k) PROVE Meets(m, m2, e, w, k)
    <2>1. ASSUME NEW j \in 1..k
          PROVE  m2[WalkIn(m, e, w, j - 1)][w[j]] = m[WalkIn(m, e, w, j - 1)][w[j]]
      <3>1. PresentIn(m, e, w, j - 1)
        BY <1>1, <1>2 DEF PresentIn
      <3>2. m[WalkIn(m, e, w, j - 1)][w[j]].present
        BY <1>2 DEF PresentIn
      <3> QED
        BY <1>0, <1>10, <3>1, <3>2
    <2> QED
      BY <2>1 DEF Meets
  <1>3. ASSUME PresentIn(m2, e, w, k), ~PresentIn(m, e, w, k)
        PROVE  e = d /\ k = n /\ Agree(v, w, n) /\ WalkIn(m2, e, w, k) = new
    <2>0. PICK j \in 1..k : Differs(m, m2, e, w, j)
      BY <1>1, <1>3, FirstDifference
    <2>1. /\ PresentIn(m, e, w, j - 1) /\ WalkIn(m2, e, w, j - 1) = WalkIn(m, e, w, j - 1)
          /\ m2[WalkIn(m, e, w, j - 1)][w[j]] # m[WalkIn(m, e, w, j - 1)][w[j]]
      BY <2>0 DEF Differs
    <2>2. WalkIn(m, e, w, j - 1) = WalkIn(m, d, v, n - 1) /\ w[j] = v[n]
      BY <1>0, <1>10, <2>1
    <2>3. j - 1 \in 0..(Depth - 1) /\ j - 1 <= M /\ j \in Nat
      BY <1>1, DepthAssumption
    <2>4. d = e /\ n - 1 = j - 1 /\ Agree(v, w, n - 1)
      <3>1. WalkIn(m, d, v, n - 1) = WalkIn(m, e, w, j - 1)
        BY <2>2
      <3> HIDE DEF ApartIn
      <3> QED
        BY <1>0, <1>1, <2>1, <2>3, <3>1, OneWay
    <2>5. j = n
      BY <1>1, <2>3, <2>4
    <2>6. Agree(v, w, n)
      BY <1>1, <2>2, <2>4, <2>5 DEF Agree
    <2>7. WalkIn(m2, e, w, n) = new
      <3>1. WalkIn(m2, e, w, n) = m2[WalkIn(m2, e, w, n - 1)][w[n]].addr
        <4>1. \A a, b, x : \A y \in Nat : y # 0 => WalkIn(a, b, x, y) = a[WalkIn(a, b, x, y - 1)][x[y]].addr
          BY WalkLast
        <4>2. n \in 1..M /\ n \in Nat /\ n # 0
          BY <1>1, <2>5
        <4> QED
          BY <4>1, <4>2
      <3> QED
        BY <1>0, <1>10, <2>1, <2>2, <2>5, <3>1
    <2>8. k = n
      <3> SUFFICES ASSUME k # n PROVE FALSE
        OBVIOUS
      <3>1. n + 1 \in 1..k /\ n + 1 - 1 = n /\ w[n + 1] \in Index
        BY <1>1, <2>5
      <3>2. m2[new][w[n + 1]].present
        BY <1>3, <2>7, <3>1 DEF PresentIn
      <3> QED
        BY <1>0, <3>1, <3>2
    <2> QED
      BY <2>4, <2>6, <2>7, <2>8
  <1> QED
    BY <1>1, <1>2, <1>3, Kept DEF LinkSeen

-----------------------------------------------------------------------------
(* The order in which clone comes to the tables.                           *)

IndexSeqs == UNION {[1..n -> Index] : n \in 0..(Depth - 1)}

Rank(P, q) == Cardinality({r \in P : Before(r, q)})

\* IndexSeqs of one length that are ordered, by their first difference, as
\* Before orders the sequences they stand for.
Key(q) == [n \in 1..Depth |-> IF n <= Len(q) THEN q[n] + 1 ELSE 0]

Less(a, b) == \E n \in 1..Depth : a[n] < b[n] /\ Agree(a, b, n - 1)

LEMMA SequenceOf ==
  ASSUME NEW q \in IndexSeqs
  PROVE  /\ Len(q) \in 0..(Depth - 1) /\ q \in [1..Len(q) -> Index]
         /\ \A k \in 1..Len(q) : q[k] \in Nat
         /\ Key(q) \in [1..Depth -> Nat]
  <1>1. PICK n \in 0..(Depth - 1) : q \in [1..n -> Index]
    BY DEF IndexSeqs
  <1>2. n \in Nat /\ q \in Seq(Index) /\ Len(q) = n
    BY <1>1, DepthAssumption
  <1>3. \A k \in 1..Len(q) : q[k] \in Nat
    BY <1>1, <1>2, IndexAssumption
  <1>4. Key(q) \in [1..Depth -> Nat]
    BY <1>2, <1>3, DepthAssumption DEF Key
  <1> QED
    BY <1>1, <1>2, <1>3, <1>4

LEMMA BeforeIsLess ==
  ASSUME NEW q \in IndexSeqs, NEW r \in IndexSeqs
  PROVE  Before(q, r) <=> Less(Key(q), Key(r))
  <1> DEFINE a == Key(q)
             b == Key(r)
  <1>1. /\ Len(q) \in 0..(Depth - 1) /\ q \in [1..Len(q) -> Index]
        /\ Len(r) \in 0..(Depth - 1) /\ r \in [1..Len(r) -> Index]
        /\ \A k \in 1..Len(q) : q[k] \in Nat
        /\ \A k \in 1..Len(r) : r[k] \in Nat
    BY SequenceOf
  <1>2. \A k \in 1..Depth : /\ a[k] = IF k <= Len(q) THEN q[k] + 1 ELSE 0
                            /\ b[k] = IF k <= Len(r) THEN r[k] + 1 ELSE 0
    BY DEF Key
  <1> HIDE DEF a, b
  <1>3. ASSUME Len(q) < Len(r), q = SubSeq(r, 1, Len(q)) PROVE Less(a, b)
    <2>1. \A k \in 1..Len(q) : q[k] = r[k]
      BY <1>1, <1>3
    <2>2. PICK n \in 1..Depth : n = Len(q) + 1
      BY <1>1, <1>3, DepthAssumption
    <2>3. a[n] = 0 /\ b[n] = r[n] + 1 /\ n \in 1..Len(r)
      BY <1>1, <1>2, <1>3, <2>2
    <2>4. a[n] < b[n]
      BY <1>1, <2>3
    <2>5. Agree(a, b, n - 1)
      <3>1. ASSUME NEW k \in 1..(n - 1) PROVE a[k] = b[k]
        <4>1. k \in 1..Len(q) /\ k \in 1..Depth /\ k <= Len(r) /\ k <= Len(q)
          BY <1>1, <1>3, <2>2, DepthAssumption
        <4> QED
          BY <1>2, <2>1, <4>1
      <3> QED
        BY <3>1 DEF Agree
    <2> QED
      BY <2>4, <2>5 DEF Less
  <1>4. ASSUME NEW n \in 1..Len(q), n <= Len(r), q[n] < r[n], \A m \in 1..(n - 1) : q[m] = r[m]
        PROVE  Less(a, b)
    <2>1. n \in 1..Depth /\ n <= Len(q) /\ n \in 1..Len(r)
      BY <1>1, <1>4, DepthAssumption
    <2>2. a[n] = q[n] + 1 /\ b[n] = r[n] + 1
      BY <1>2, <1>4, <2>1
    <2>3. a[n] < b[n]
      BY <1>1, <1>4, <2>1, <2>2
    <2>4. ASSUME NEW k \in 1..(n - 1) PROVE a[k] = b[k]
      <3>1. k \in 1..Depth /\ k <= Len(r) /\ k <= Len(q)
        BY <1>1, <1>4, <2>1, DepthAssumption
      <3> QED
        BY <1>2, <1>4, <3>1
    <2> QED
      BY <2>1, <2>3, <2>4 DEF Less, Agree
  <1>5. ASSUME NEW n \in 1..Depth, a[n] < b[n], Agree(a, b, n - 1)
        PROVE  Before(q, r)
    <2>1. n <= Len(r)
      <3> SUFFICES ASSUME ~(n <= Len(r)) PROVE FALSE
        OBVIOUS
      <3>1. b[n] = 0
        BY <1>2
      <3>2. a[n] \in Nat
        <4>1. n <= Len(q) => q[n] \in Nat
          BY <1>1
        <4> QED
          BY <1>2, <4>1
      <3> QED
        BY <1>5, <3>1, <3>2
    <2>2. \A k \in 1..(n - 1) : k \in 1..Depth /\ k <= Len(r) /\ a[k] = b[k]
      BY <1>1, <1>5, <2>1, DepthAssumption DEF Agree
    <2>3. ASSUME NEW k \in 1..(n - 1) PROVE k <= Len(q) /\ q[k] = r[k]
      <3>1. b[k] = r[k] + 1 /\ r[k] \in Nat
        BY <1>1, <1>2, <2>2
      <3>2. k <= Len(q)
        <4> SUFFICES ASSUME ~(k <= Len(q)) PROVE FALSE
          OBVIOUS
        <4>1. a[k] = 0
          BY <1>2, <2>2
        <4> QED
          BY <2>2, <3>1, <4>1
      <3>3. a[k] = q[k] + 1 /\ q[k] \in Nat
        BY <1>1, <1>2, <2>2, <3>2
      <3> QED
        BY <2>2, <3>1, <3>2, <3>3
    <2>4. CASE n <= Len(q)
      <3>1. a[n] = q[n] + 1 /\ b[n] = r[n] + 1 /\ q[n] \in Nat /\ r[n] \in Nat
        BY <1>1, <1>2, <2>1, <2>4
      <3>2. q[n] < r[n] /\ n \in 1..Len(q)
        BY <1>1, <1>5, <2>4, <3>1
      <3> QED
        BY <2>1, <2>3, <3>2 DEF Before
    <2>5. CASE ~(n <= Len(q))
      <3>1. Len(q) = n - 1
        <4> SUFFICES ASSUME Len(q) # n - 1 PROVE FALSE
          OBVIOUS
        <4>1. n - 1 \in 1..(n - 1) /\ ~(n - 1 <= Len(q))
          BY <1>1, <2>5
        <4> QED
          BY <2>3, <4>1
      <3>2. Len(q) < Len(r)
        BY <1>1, <2>1, <3>1
      <3>3. q = SubSeq(r, 1, Len(q))
        <4>1. r \in Seq(Index) /\ 1..Len(q) \subseteq 1..Len(r) /\ Len(q) \in Nat
          BY <1>1, <3>2
        <4>2. SubSeq(r, 1, Len(q)) = [k \in 1..Len(q) |-> r[k]]
          BY <4>1
        <4>3. \A k \in 1..Len(q) : q[k] = r[k]
          BY <2>3, <3>1
        <4> QED
          BY <1>1, <4>2, <4>3
      <3> QED
        BY <3>2, <3>3 DEF Before
    <2> QED
      BY <2>4, <2>5
  <1>6. Before(q, r) => Less(a, b)
    BY <1>3, <1>4 DEF Before
  <1>7. Less(a, b) => Before(q, r)
    BY <1>5 DEF Less
  <1> QED
    BY <1>6, <1>7 DEF a, b

LEMMA LessOrder ==
  /\ \A a \in [1..Depth -> Nat] : ~Less(a, a)
  /\ \A a, b, c \in [1..Depth -> Nat] : Less(a, b) /\ Less(b, c) => Less(a, c)
  /\ \A a, b \in [1..Depth -> Nat] : a # b => Less(a, b) \/ Less(b, a)
  <1>1. \A a \in [1..Depth -> Nat] : ~Less(a, a)
    BY DEF Less
  <1>2. ASSUME NEW a \in [1..Depth -> Nat], NEW b \in [1..Depth -> Nat], NEW c \in [1..Depth -> Nat],
               Less(a, b), Less(b, c)
        PROVE  Less(a, c)
    <2>1. PICK n \in 1..Depth : a[n] < b[n] /\ Agree(a, b, n - 1)
      BY <1>2 DEF Less
    <2>2. PICK k \in 1..Depth : b[k] < c[k] /\ Agree(b, c, k - 1)
      BY <1>2 DEF Less
    <2>3. CASE n < k
      <3>1. n \in 1..(k - 1) /\ \A j \in 1..(n - 1) : j \in 1..(k - 1)
        BY <2>3, DepthAssumption
      <3>2. a[n] < c[n] /\ Agree(a, c, n - 1)
        BY <2>1, <2>2, <3>1 DEF Agree
      <3> QED
        BY <3>2 DEF Less
    <2>4. CASE k < n
      <3>1. k \in 1..(n - 1) /\ \A j \in 1..(k - 1) : j \in 1..(n - 1)
        BY <2>4, DepthAssumption
      <3>2. a[k] < c[k] /\ Agree(a, c, k - 1)
        BY <2>1, <2>2, <3>1 DEF Agree
      <3> QED
        BY <3>2 DEF Less
    <2>5. CASE k = n
      <3>1. a[n] < c[n]
        BY <2>1, <2>2, <2>5
      <3>2. Agree(a, c, n - 1)
        BY <2>1, <2>2, <2>5 DEF Agree
      <3> QED
        BY <3>1, <3>2 DEF Less
    <2> QED
      BY <2>3, <2>4, <2>5, DepthAssumption
  <1>3. ASSUME NEW a \in [1..Depth -> Nat], NEW b \in [1..Depth -> Nat], ~Less(a, b), ~Less(b, a)
        PROVE  a = b
    <2> DEFINE T == {n \in 0..Depth : Agree(a, b, n)}
    <2>1. 0 \in T
      BY DepthAssumption DEF Agree
    <2>2. ASSUME NEW n \in T, n < Depth PROVE n + 1 \in T
      <3>1. n \in Nat /\ n + 1 \in 1..Depth /\ n + 1 - 1 = n /\ Agree(a, b, n) /\ Agree(b, a, n)
        BY <2>2, DepthAssumption DEF Agree
      <3>2. a[n + 1] = b[n + 1]
        <4>1. ~(a[n + 1] < b[n + 1]) /\ ~(b[n + 1] < a[n + 1])
          BY <1>3, <3>1 DEF Less
        <4>2. a[n + 1] \in Nat /\ b[n + 1] \in Nat
          BY <3>1
        <4> QED
          BY <4>1, <4>2
      <3>3. \A j \in 1..(n + 1) : j = n + 1 \/ j \in 1..n
        BY <3>1
      <3>4. Agree(a, b, n + 1)
        BY <3>1, <3>2, <3>3 DEF Agree
      <3> QED
        BY <3>1, <3>4
    <2>3. T \subseteq 0..Depth
      OBVIOUS
    <2>4. Depth \in T
      <3> HIDE DEF T
      <3>1. T = 0..Depth
        BY <2>1, <2>2, <2>3, DepthAssumption, Counting
      <3> QED
        BY <3>1, DepthAssumption
    <2> QED
      BY <2>4 DEF Agree
  <1> QED
    BY <1>1, <1>2, <1>3

LEMMA BeforeOrder ==
  ASSUME NEW q \in IndexSeqs, NEW r \in IndexSeqs
  PROVE  /\ ~Before(q, q)
         /\ q # r => Before(q, r) \/ Before(r, q)
         /\ \A p \in IndexSeqs : Before(p, q) /\ Before(q, r) => Before(p, r)
  <1>1. \A s \in IndexSeqs : Key(s) \in [1..Depth -> Nat]
    BY SequenceOf
  <1>2. ~Before(q, q)
    BY <1>1, LessOrder, BeforeIsLess
  <1>3. \A p \in IndexSeqs : Before(p, q) /\ Before(q, r) => Before(p, r)
    BY <1>1, LessOrder, BeforeIsLess
  <1>4. ASSUME Key(q) = Key(r) PROVE q = r
    <2>1. /\ Len(q) \in 0..(Depth - 1) /\ q \in [1..Len(q) -> Index]
          /\ Len(r) \in 0..(Depth - 1) /\ r \in [1..Len(r) -> Index]
          /\ \A k \in 1..Len(q) : q[k] \in Nat
          /\ \A k \in 1..Len(r) : r[k] \in Nat
      BY SequenceOf
    <2>2. \A k \in 1..Depth : (IF k <= Len(q) THEN q[k] + 1 ELSE 0) = (IF k <= Len(r) THEN r[k] + 1 ELSE 0)
      <3>1. \A k \in 1..Depth : Key(q)[k] = Key(r)[k]
        BY <1>4
      <3> QED
        BY <3>1 DEF Key
    <2>3. ASSUME NEW k \in 1..Depth, k <= Len(q) PROVE k <= Len(r) /\ q[k] = r[k]
      <3>1. k \in 1..Len(q) /\ q[k] \in Nat
        BY <2>1, <2>3, DepthAssumption
      <3>2. q[k] + 1 = IF k <= Len(r) THEN r[k] + 1 ELSE 0
        BY <2>2, <2>3
      <3>3. k <= Len(r)
        BY <3>1, <3>2
      <3>4. r[k] \in Nat
        BY <2>1, <3>1, <3>3
      <3> QED
        BY <3>1, <3>2, <3>3, <3>4
    <2>4. ASSUME NEW k \in 1..Depth, k <= Len(r) PROVE k <= Len(q)
      <3>1. k \in 1..Len(r) /\ r[k] \in Nat
        BY <2>1, <2>4, DepthAssumption
      <3>2. (IF k <= Len(q) THEN q[k] + 1 ELSE 0) = r[k] + 1
        BY <2>2, <2>4
      <3> QED
        BY <3>1, <3>2
    <2>5. Len(q) = Len(r)
      <3>1. Len(q) # 0 => Len(q) \in 1..Depth /\ Len(q) <= Len(q)
        BY <2>1, DepthAssumption
      <3>2. Len(r) # 0 => Len(r) \in 1..Depth /\ Len(r) <= Len(r)
        BY <2>1, DepthAssumption
      <3>3. Len(q) # 0 => Len(q) <= Len(r)
        BY <2>3, <3>1
      <3>4. Len(r) # 0 => Len(r) <= Len(q)
        BY <2>4, <3>2
      <3>5. Len(q) \in Nat /\ Len(r) \in Nat
        BY <2>1, DepthAssumption
      <3> QED
        BY <3>3, <3>4, <3>5
    <2>6. \A k \in 1..Len(q) : q[k] = r[k]
      BY <2>1, <2>3, DepthAssumption
    <2> QED
      BY <2>1, <2>5, <2>6
  <1>5. q # r => Before(q, r) \/ Before(r, q)
    BY <1>1, <1>4, LessOrder, BeforeIsLess
  <1> QED
    BY <1>2, <1>3, <1>5

\* The tables of a directory get numbers of their own, from 0.
LEMMA Ranked ==
  ASSUME NEW P, P \subseteq IndexSeqs, IsFiniteSet(P), NEW q \in P
  PROVE  /\ Rank(P, q) \in 0..(Cardinality(P) - 1)
         /\ \A r \in P : q # r => Rank(P, q) # Rank(P, r)
         /\ Rank(P, <<>>) = 0
  <1> DEFINE Ahead(r) == {p \in P : Before(p, r)}
  <1>1. \A r \in P : r \in IndexSeqs /\ r \notin Ahead(r) /\ Ahead(r) \subseteq P
    BY BeforeOrder
  <1>2. \A r \in P : IsFiniteSet(Ahead(r)) /\ Cardinality(Ahead(r)) \in Nat
    BY <1>1, FS_Subset, FS_CardinalityType
  <1>3. Cardinality(P) \in Nat
    BY FS_CardinalityType
  <1>4. Cardinality(Ahead(q)) < Cardinality(P)
    <2>1. Cardinality(Ahead(q)) <= Cardinality(P) /\ (Cardinality(P) = Cardinality(Ahead(q)) => P = Ahead(q))
      BY <1>1, FS_Subset
    <2> QED
      BY <1>1, <1>2, <1>3, <2>1
  <1>5. ASSUME NEW r \in P, NEW s \in P, Before(r, s)
        PROVE  Cardinality(Ahead(r)) # Cardinality(Ahead(s))
    <2>1. Ahead(r) \subseteq Ahead(s)
      BY <1>1, <1>5, BeforeOrder
    <2>2. r \in Ahead(s)
      BY <1>5
    <2>3. Ahead(r) # Ahead(s)
      BY <1>1, <2>2
    <2> HIDE DEF Ahead
    <2> QED
      BY <1>2, <2>1, <2>3, FS_Subset
  <1>6. \A r \in P : q # r => Cardinality(Ahead(q)) # Cardinality(Ahead(r))
    <2> SUFFICES ASSUME NEW r \in P, q # r PROVE Cardinality(Ahead(q)) # Cardinality(Ahead(r))
      OBVIOUS
    <2>1. Before(q, r) \/ Before(r, q)
      BY BeforeOrder
    <2> HIDE DEF Ahead
    <2> QED
      BY <1>5, <2>1
  <1>7. Cardinality(Ahead(<<>>)) = 0
    <2>1. ASSUME NEW p \in P PROVE ~Before(p, <<>>)
      <3>1. Len(p) \in Nat
        BY SequenceOf, DepthAssumption
      <3>2. Len(<<>>) = 0 /\ ~(Len(p) < 0)
        BY <3>1
      <3>3. \A n \in 1..Len(p) : ~(n <= 0)
        BY <3>1
      <3> QED
        BY <3>2, <3>3 DEF Before
    <2>2. Ahead(<<>>) = {}
      BY <2>1
    <2> HIDE DEF Ahead
    <2> QED
      BY <2>2, FS_EmptySet
  <1>8. \A r : Rank(P, r) = Cardinality(Ahead(r))
    BY DEF Rank
  <1> HIDE DEF Ahead
  <1>9. Cardinality(Ahead(q)) \in 0..(Cardinality(P) - 1)
    BY <1>2, <1>3, <1>4
  <1> QED
    BY <1>6, <1>7, <1>8, <1>9

LEMMA PathsFinite ==
  ASSUME NEW P, P \subseteq IndexSeqs
  PROVE  IsFiniteSet(P)
  <1>1. ASSUME NEW n \in 0..(Depth - 1) PROVE IsFiniteSet([1..n -> Index])
    <2> DEFINE S == [1..n -> Index]
               T == SUBSET ((1..n) \X Index)
               g == [f \in S |-> {<<k, f[k]>> : k \in 1..n}]
    <2>1. IsFiniteSet(T)
      <3>1. IsFiniteSet(1..n)
        BY FS_Interval, DepthAssumption
      <3>2. IsFiniteSet((1..n) \X Index)
        BY <3>1, FS_Product, IndexAssumption
      <3> QED
        BY <3>2, FS_SUBSET
    <2>2. ASSUME NEW f \in S PROVE g[f] \in T
      <3>1. \A k \in 1..n : f[k] \in Index
        OBVIOUS
      <3> QED
        BY <3>1
    <2>3. ASSUME NEW f \in S, NEW h \in S, g[f] = g[h] PROVE f = h
      <3>1. ASSUME NEW k \in 1..n PROVE f[k] = h[k]
        <4>1. <<k, f[k]>> \in g[f]
          OBVIOUS
        <4>2. PICK j \in 1..n : <<k, f[k]>> = <<j, h[j]>>
          BY <2>3, <4>1
        <4> QED
          BY <4>2
      <3> QED
        BY <3>1
    <2>4. g \in [S -> T]
      BY <2>2
    <2>5. g \in Injection(S, T)
      <3> HIDE DEF g, S, T
      <3> QED
        BY <2>3, <2>4 DEF Injection, IsInjective
    <2> HIDE DEF g, T
    <2> QED
      BY <2>1, <2>5, FS_Injection
  <1>2. IsFiniteSet(IndexSeqs)
    <2> DEFINE S == 0..(Depth - 1)
               T == {[1..n -> Index] : n \in S}
               g == [n \in S |-> [1..n -> Index]]
    <2>1. g \in Surjection(S, T)
      BY DEF Surjection
    <2>2. IsFiniteSet(S)
      BY FS_Interval, DepthAssumption
    <2>3. IsFiniteSet(T)
      <3> HIDE DEF g, S, T
      <3> QED
        BY <2>1, <2>2, FS_Surjection
    <2>4. \A s \in T : IsFiniteSet(s)
      BY <1>1
    <2>5. IsFiniteSet(UNION T)
      <3> HIDE DEF T
      <3> QED
        BY <2>3, <2>4, FS_UNION
    <2> QED
      BY <2>5 DEF IndexSeqs
  <1> QED
    BY <1>2, FS_Subset

-----------------------------------------------------------------------------
(* What clone makes.                                                       *)

\* m2 holds a copy, from page new on, of the tables that d leads to in m.
Cloned(m, m2, d, new) ==
  LET P == PathsIn(m, d) IN
  \A q \in P, i \in Index :
    LET e == m[WalkIn(m, d, q, Len(q))][i] IN
    m2[new + Rank(P, q)][i] =
      IF Len(q) = Depth - 1 THEN e
      ELSE IF e.present
           THEN [present |-> TRUE, addr |-> new + Rank(P, Append(q, i)), writable |-> TRUE]
           ELSE Zero

LEMMA PresentStep ==
  ASSUME NEW m, NEW d, NEW v, NEW n \in Nat
  PROVE  /\ PresentIn(m, d, v, 0)
         /\ PresentIn(m, d, v, n + 1) <=> PresentIn(m, d, v, n) /\ m[WalkIn(m, d, v, n)][v[n + 1]].present
  <1>1. \A k \in 1..(n + 1) : k = n + 1 \/ k \in 1..n
    OBVIOUS
  <1>2. n + 1 \in 1..(n + 1) /\ n + 1 - 1 = n /\ 1..n \subseteq 1..(n + 1)
    OBVIOUS
  <1>3. PresentIn(m, d, v, 0)
    BY DEF PresentIn
  <1>4. PresentIn(m, d, v, n + 1) => PresentIn(m, d, v, n) /\ m[WalkIn(m, d, v, n)][v[n + 1]].present
    BY <1>2 DEF PresentIn
  <1>5. ASSUME PresentIn(m, d, v, n), m[WalkIn(m, d, v, n)][v[n + 1]].present
        PROVE  PresentIn(m, d, v, n + 1)
    <2>1. ASSUME NEW k \in 1..(n + 1) PROVE m[WalkIn(m, d, v, k - 1)][v[k]].present
      <3>1. CASE k = n + 1
        BY <1>2, <1>5, <3>1
      <3>2. CASE k \in 1..n
        BY <1>5, <3>2 DEF PresentIn
      <3> QED
        BY <1>1, <3>1, <3>2
    <2> QED
      BY <2>1 DEF PresentIn
  <1> QED
    BY <1>3, <1>4, <1>5

LEMMA PathsAreSeqs ==
  ASSUME NEW m, NEW d
  PROVE  PathsIn(m, d) \subseteq IndexSeqs /\ <<>> \in PathsIn(m, d)
  <1>1. PathsIn(m, d) \subseteq IndexSeqs
    BY DEF PathsIn, IndexSeqs
  <1>2. 0 \in 0..(Depth - 1) /\ <<>> \in [1..0 -> Index] /\ Len(<<>>) = 0
    BY DepthAssumption
  <1>3. PresentIn(m, d, <<>>, 0)
    BY PresentStep
  <1> QED
    BY <1>1, <1>2, <1>3, PathsOf

LEMMA ClonedWalks ==
  ASSUME NEW m, NEW m2, NEW d, NEW new \in Nat, Cloned(m, m2, d, new),
         NEW N \in Nat, NEW v \in [1..N -> Index], NEW n \in 0..(Depth - 1), n <= N
  PROVE  /\ PresentIn(m2, new, v, n) <=> PresentIn(m, d, v, n)
         /\ PresentIn(m, d, v, n) => WalkIn(m2, new, v, n) = new + Rank(PathsIn(m, d), Prefix(v, n))
  <1>0. \A j \in Nat : WalkIn(m2, new, v, j + 1) = m2[WalkIn(m2, new, v, j)][v[j + 1]].addr
    <2>1. \A b, w : \A j \in Nat : WalkIn(m2, b, w, j + 1) = m2[WalkIn(m2, b, w, j)][w[j + 1]].addr
      BY WalkStep
    <2> QED
      BY <2>1
  <1> DEFINE P == PathsIn(m, d)
             Same(k) == PresentIn(m2, new, v, k) <=> PresentIn(m, d, v, k)
             There(k) == PresentIn(m, d, v, k) => WalkIn(m2, new, v, k) = new + Rank(P, Prefix(v, k))
             T == {k \in 0..n : Same(k) /\ There(k)}
  <1>1. n \in Nat
    BY DepthAssumption
  <1>2. P \subseteq IndexSeqs /\ <<>> \in P
    BY PathsAreSeqs
  <1>3. Rank(P, <<>>) = 0
    <2> HIDE DEF P
    <2>1. IsFiniteSet(P)
      BY <1>2, PathsFinite
    <2> QED
      BY <1>2, <2>1, Ranked
  <1>4. 0 \in T
    <2>1. Prefix(v, 0) = <<>>
      BY DEF Prefix
    <2>2. Same(0)
      BY PresentStep
    <2>3. WalkIn(m2, new, v, 0) = new
      BY WalkStep
    <2>4. There(0)
      BY <1>3, <2>1, <2>3
    <2> QED
      BY <1>1, <2>2, <2>4
  <1>5. ASSUME NEW k \in T, k < n PROVE k + 1 \in T
    <2>1. /\ k \in Nat /\ k \in 0..(Depth - 1) /\ k < Depth - 1 /\ k <= N /\ k + 1 \in 1..N
          /\ k + 1 \in 0..n /\ v[k + 1] \in Index
      BY <1>1, <1>5, DepthAssumption
    <2>2. Same(k) /\ There(k)
      BY <1>5
    <2>3. /\ PresentIn(m, d, v, k + 1) <=> PresentIn(m, d, v, k) /\ m[WalkIn(m, d, v, k)][v[k + 1]].present
          /\ PresentIn(m2, new, v, k + 1) <=> PresentIn(m2, new, v, k) /\ m2[WalkIn(m2, new, v, k)][v[k + 1]].present
      BY <2>1, PresentStep
    <2>4. CASE ~PresentIn(m, d, v, k)
      BY <2>1, <2>2, <2>3, <2>4
    <2>5. CASE PresentIn(m, d, v, k)
      <3> DEFINE q == Prefix(v, k)
                 i == v[k + 1]
      <3>1. q \in P /\ Len(q) = k /\ WalkIn(m, d, q, k) = WalkIn(m, d, v, k)
        BY <2>1, <2>5, PrefixIsPath
      <3>2. Append(q, i) = Prefix(v, k + 1)
        <4>1. q \in [1..k -> Index] /\ k + 1 \in Nat /\ \A j \in 1..(k + 1) : j = k + 1 \/ j \in 1..k
          BY <2>1, <2>5, PrefixIsPath
        <4>2. q \in Seq(Index)
          BY <2>1, <4>1
        <4>3. Append(q, i) = [j \in 1..(k + 1) |-> IF j = k + 1 THEN i ELSE q[j]]
          BY <2>1, <3>1, <4>2
        <4>4. ASSUME NEW j \in 1..(k + 1) PROVE (IF j = k + 1 THEN i ELSE q[j]) = v[j]
          <5>1. j \in 1..k => q[j] = v[j]
            BY DEF Prefix
          <5> QED
            BY <4>1, <5>1
        <4>5. Prefix(v, k + 1) = [j \in 1..(k + 1) |-> v[j]]
          BY DEF Prefix
        <4> HIDE DEF q, i
        <4> QED
          BY <4>3, <4>4, <4>5
      <3>3. WalkIn(m2, new, v, k) = new + Rank(P, q)
        BY <2>2, <2>5
      <3>4. WalkIn(m2, new, v, k + 1) = m2[WalkIn(m2, new, v, k)][i].addr
        <4>1. k \in Nat
          BY <2>1
        <4> HIDE DEF T, q
        <4> QED
          BY <1>0, <4>1
      <3> HIDE DEF q, i
      <3>5. m2[new + Rank(P, q)][i] =
              IF m[WalkIn(m, d, v, k)][i].present
              THEN [present |-> TRUE, addr |-> new + Rank(P, Append(q, i)), writable |-> TRUE]
              ELSE Zero
        BY <2>1, <3>1 DEF Cloned, i
      <3>6. m2[new + Rank(P, q)][i].present <=> m[WalkIn(m, d, v, k)][i].present
        BY <3>5 DEF Zero
      <3>7. m[WalkIn(m, d, v, k)][i].present => m2[new + Rank(P, q)][i].addr = new + Rank(P, Append(q, i))
        BY <3>5
      <3>8. Same(k + 1)
        BY <2>2, <2>3, <2>5, <3>3, <3>6 DEF i
      <3>9. There(k + 1)
        BY <2>3, <3>2, <3>3, <3>4, <3>7 DEF i
      <3> QED
        BY <2>1, <3>8, <3>9
    <2> QED
      BY <2>4, <2>5
  <1>6. T \subseteq 0..n
    OBVIOUS
  <1>7. n \in T
    <2> HIDE DEF T
    <2>1. T = 0..n
      BY <1>1, <1>4, <1>5, <1>6, Counting
    <2> QED
      BY <1>1, <2>1
  <1> QED
    BY <1>7

LEMMA ClonedPaths ==
  ASSUME NEW m, NEW m2, NEW d, NEW new \in Nat, Cloned(m, m2, d, new)
  PROVE  /\ PathsIn(m2, new) = PathsIn(m, d)
         /\ \A q \in PathsIn(m, d) : WalkIn(m2, new, q, Len(q)) = new + Rank(PathsIn(m, d), q)
  <1>1. ASSUME NEW q, NEW n \in 0..(Depth - 1), q \in [1..n -> Index]
        PROVE  /\ PresentIn(m2, new, q, n) <=> PresentIn(m, d, q, n)
               /\ PresentIn(m, d, q, n) => WalkIn(m2, new, q, n) = new + Rank(PathsIn(m, d), q)
    <2>1. n \in Nat /\ n <= n
      BY DepthAssumption
    <2>2. Prefix(q, n) = q
      BY <1>1 DEF Prefix
    <2> QED
      BY <1>1, <2>1, <2>2, ClonedWalks
  <1>2. \A q : q \in PathsIn(m2, new) <=> q \in PathsIn(m, d)
    BY <1>1, PathsOf
  <1>3. ASSUME NEW q \in PathsIn(m, d) PROVE WalkIn(m2, new, q, Len(q)) = new + Rank(PathsIn(m, d), q)
    BY <1>1, PathsOf
  <1> QED
    BY <1>2, <1>3

LEMMA ClonedApart ==
  ASSUME NEW m, NEW m2, NEW D, NEW d \in D, NEW new \in Nat, new \notin D,
         Cloned(m, m2, d, new), Steady(m, m2, D), ApartIn(m, D, new),
         Inside(m, D, Nat)
  PROVE  ApartIn(m2, D \cup {new}, new + Cardinality(PathsIn(m, d)))
  <1> DEFINE P == PathsIn(m, d)
             bound == new + Cardinality(P)
             At(e, q) == WalkIn(m2, e, q, Len(q))
  <1>1. P \subseteq IndexSeqs /\ IsFiniteSet(P) /\ Cardinality(P) \in Nat
    BY PathsAreSeqs, PathsFinite, FS_CardinalityType
  <1>2. ApartIn(m2, D, new)
    BY SteadyApart
  <1>3. \A e \in D : \A q \in PathsIn(m2, e) : At(e, q) \in Nat /\ At(e, q) < new
    BY <1>2, SteadyPaths DEF ApartIn, Inside
  <1>4. PathsIn(m2, new) = P /\ \A q \in P : At(new, q) = new + Rank(P, q)
    BY ClonedPaths
  <1>5. \A q \in P : Rank(P, q) \in 0..(Cardinality(P) - 1) /\ \A r \in P : q # r => Rank(P, q) # Rank(P, r)
    <2> HIDE DEF P
    <2> QED
      BY <1>1, Ranked
  <1>6. \A q \in P : At(new, q) \in Nat /\ new <= At(new, q) /\ At(new, q) < bound
    <2> HIDE DEF P
    <2> QED
      BY <1>1, <1>4, <1>5
  <1>7. ASSUME NEW q \in P, NEW r \in P, q # r PROVE At(new, q) # At(new, r)
    <2>1. Rank(P, q) \in Nat /\ Rank(P, r) \in Nat /\ Rank(P, q) # Rank(P, r)
      BY <1>1, <1>5, <1>7
    <2> HIDE DEF P
    <2> QED
      BY <1>4, <2>1
  <1>8. new <= bound /\ bound \in Nat
    BY <1>1
  <1>9. ASSUME NEW a \in D \cup {new}, NEW e \in D \cup {new}, NEW q \in PathsIn(m2, a), NEW r \in PathsIn(m2, e)
        PROVE  /\ At(a, q) < bound
               /\ <<a, q>> # <<e, r>> => At(a, q) # At(e, r)
    <2> HIDE DEF At, bound, P
    <2>1. CASE a \in D /\ e \in D
      <3>1. <<a, q>> # <<e, r>> => At(a, q) # At(e, r)
        BY <1>2, <2>1 DEF ApartIn, At
      <3> QED
        BY <1>3, <1>8, <2>1, <3>1
    <2>2. CASE a = new /\ e \in D
      BY <1>3, <1>4, <1>6, <2>2
    <2>3. CASE a \in D /\ e = new
      <3>1. At(a, q) \in Nat /\ At(a, q) < new
        BY <1>3, <2>3
      <3>2. At(e, r) \in Nat /\ new <= At(e, r)
        BY <1>4, <1>6, <2>3
      <3> QED
        BY <1>8, <3>1, <3>2
    <2>4. CASE a = new /\ e = new
      BY <1>4, <1>6, <1>7, <2>4
    <2> QED
      BY <2>1, <2>2, <2>3, <2>4
  <1> QED
    BY <1>9 DEF ApartIn

-----------------------------------------------------------------------------
(* What the processor finds, every table and every page being writable.    *)

Seen(m, e, w) ==
  IF PresentIn(m, e, w, Depth) THEN [frame |-> WalkIn(m, e, w, Depth), writable |-> TRUE] ELSE Unmapped

\* Every entry in use of every table is writable.
WritableIn(m, D) ==
  \A e \in D : \A q \in PathsIn(m, e), i \in Index :
    m[WalkIn(m, e, q, Len(q))][i].present => m[WalkIn(m, e, q, Len(q))][i].writable

\* m2 has the pages of m that were handed out.
Below(m, m2, bound) == \A p \in 0..(bound - 1) : m2[p] = m[p]

\* m2 is m but for the entry that the last of v's indices finds: it has the
\* frame f and the right w to write.
Stores(m, m2, S, d, v, f, w) ==
  LET at == WalkIn(m, d, v, Depth - 1)
      entry == [present |-> TRUE, addr |-> f, writable |-> w]
  IN
  /\ PresentIn(m, d, v, Depth - 1) /\ at \in S
  /\ \A p \in S, i \in Index : m2[p][i] = IF p = at /\ i = v[Depth] THEN entry ELSE m[p][i]

LEMMA LastLevel == /\ Depth - 1 \in Nat /\ Depth - 1 + 1 = Depth /\ Depth - 1 \in 0..(Depth - 1)
                   /\ Depth - 1 <= Depth /\ Depth \in Nat /\ Depth \in 1..Depth
  BY DepthAssumption

LEMMA SeenLast ==
  ASSUME NEW m, NEW e, NEW w
  PROVE  /\ PresentIn(m, e, w, Depth) <=>
              PresentIn(m, e, w, Depth - 1) /\ m[WalkIn(m, e, w, Depth - 1)][w[Depth]].present
         /\ WalkIn(m, e, w, Depth) = m[WalkIn(m, e, w, Depth - 1)][w[Depth]].addr
  <1>1. PICK n \in Nat : n = Depth - 1 /\ n + 1 = Depth
    BY LastLevel
  <1>2. /\ PresentIn(m, e, w, n + 1) <=> PresentIn(m, e, w, n) /\ m[WalkIn(m, e, w, n)][w[n + 1]].present
        /\ WalkIn(m, e, w, n + 1) = m[WalkIn(m, e, w, n)][w[n + 1]].addr
    BY PresentStep, WalkStep
  <1> QED
    BY <1>1, <1>2

\* Above the last entry, what is steady is the way to it.
LEMMA SteadySeen ==
  ASSUME NEW m, NEW m2, NEW D, Steady(m, m2, D), NEW e \in D, NEW w \in [1..Depth -> Index]
  PROVE  /\ PresentIn(m2, e, w, Depth) <=>
              PresentIn(m, e, w, Depth - 1) /\ m2[WalkIn(m, e, w, Depth - 1)][w[Depth]].present
         /\ PresentIn(m, e, w, Depth - 1) =>
              WalkIn(m2, e, w, Depth) = m2[WalkIn(m, e, w, Depth - 1)][w[Depth]].addr
  <1>1. PICK n \in 0..(Depth - 1) : n = Depth - 1 /\ n <= Depth /\ n \in 0..n
    BY LastLevel
  <1>2. /\ PresentIn(m2, e, w, n) <=> PresentIn(m, e, w, n)
        /\ PresentIn(m, e, w, n) => WalkIn(m2, e, w, n) = WalkIn(m, e, w, n)
    BY <1>1, LastLevel, SteadyWalks
  <1> QED
    BY <1>1, <1>2, SeenLast

\* A walk comes to a page of S.
LEMMA LastInside ==
  ASSUME NEW m, NEW D, NEW S, Inside(m, D, S), NEW e \in D, NEW w \in [1..Depth -> Index],
         PresentIn(m, e, w, Depth - 1)
  PROVE  WalkIn(m, e, w, Depth - 1) \in S /\ w[Depth] \in Index
  <1>1. PICK n \in 0..(Depth - 1) : n = Depth - 1 /\ n <= Depth
    BY LastLevel
  <1>2. /\ Prefix(w, n) \in PathsIn(m, e) /\ Len(Prefix(w, n)) = n
        /\ WalkIn(m, e, Prefix(w, n), n) = WalkIn(m, e, w, n)
    <2>1. PresentIn(m, e, w, n) /\ Depth \in Nat
      BY <1>1, LastLevel
    <2> QED
      BY <1>1, <2>1, PrefixIsPath, Zenon
  <1>3. w[Depth] \in Index
    BY LastLevel
  <1> QED
    BY <1>1, <1>2, <1>3 DEF Inside

LEMMA BelowSteady ==
  ASSUME NEW m, NEW m2, NEW D, NEW bound, Inside(m, D, 0..(bound - 1)), Below(m, m2, bound)
  PROVE  /\ Steady(m, m2, D)
         /\ \A e \in D, w \in [1..Depth -> Index] : Seen(m2, e, w) = Seen(m, e, w)
         /\ WritableIn(m, D) => WritableIn(m2, D)
  <1>1. Steady(m, m2, D)
    BY DEF Inside, Below, Steady
  <1>2. ASSUME NEW e \in D, NEW w \in [1..Depth -> Index] PROVE Seen(m2, e, w) = Seen(m, e, w)
    <2>1. PresentIn(m, e, w, Depth - 1) => m2[WalkIn(m, e, w, Depth - 1)] = m[WalkIn(m, e, w, Depth - 1)]
      BY LastInside DEF Below
    <2>2. PresentIn(m2, e, w, Depth) <=> PresentIn(m, e, w, Depth)
      BY <1>1, <2>1, SteadySeen, SeenLast
    <2>3. PresentIn(m, e, w, Depth) => WalkIn(m2, e, w, Depth) = WalkIn(m, e, w, Depth)
      BY <1>1, <2>1, SteadySeen, SeenLast
    <2> QED
      BY <2>2, <2>3 DEF Seen
  <1>3. ASSUME WritableIn(m, D) PROVE WritableIn(m2, D)
    <2>1. ASSUME NEW e \in D, NEW q \in PathsIn(m2, e)
          PROVE  /\ q \in PathsIn(m, e)
                 /\ m2[WalkIn(m2, e, q, Len(q))] = m[WalkIn(m, e, q, Len(q))]
      BY <1>1, SteadyPaths DEF Inside, Below
    <2> QED
      BY <1>3, <2>1 DEF WritableIn
  <1> QED
    BY <1>1, <1>2, <1>3

\* The translation of v in d, and no other, is what was stored.
StoreSeen(m, m2, D, d, v, f) ==
  /\ Seen(m2, d, v) = [frame |-> f, writable |-> TRUE]
  /\ \A e \in D, w \in [1..Depth -> Index] : e # d \/ w # v => Seen(m2, e, w) = Seen(m, e, w)

\* The last entry is one page of one directory.
LEMMA Stored ==
  ASSUME NEW m, NEW m2, NEW D, NEW bound, NEW S, ApartIn(m, D, bound), Inside(m, D, S),
         NEW d \in D, NEW v \in [1..Depth -> Index], NEW f, NEW r, Stores(m, m2, S, d, v, f, r)
  PROVE  /\ Steady(m, m2, D)
         /\ StoreSeen(m, m2, D, d, v, f)
         /\ WritableIn(m, D) /\ r = TRUE => WritableIn(m2, D)
  <1> DEFINE at == WalkIn(m, d, v, Depth - 1)
             entry == [present |-> TRUE, addr |-> f, writable |-> r]
  <1>0. /\ PresentIn(m, d, v, Depth - 1) /\ at \in S
        /\ \A p \in S, i \in Index : m2[p][i] = IF p = at /\ i = v[Depth] THEN entry ELSE m[p][i]
    BY DEF Stores
  <1>1. entry.present /\ entry.addr = f /\ (r = TRUE => entry.writable)
    OBVIOUS
  <1> HIDE DEF entry
  <1>2. PICK n \in 0..(Depth - 1) : n = Depth - 1 /\ n <= Depth /\ n \in Nat
    BY LastLevel
  <1>3. ASSUME NEW e \in D, NEW M \in Nat, NEW w \in [1..M -> Index], NEW k \in 0..(Depth - 1), k <= M,
               PresentIn(m, e, w, k), WalkIn(m, e, w, k) = at
        PROVE  e = d /\ k = n /\ Agree(v, w, n)
    <2>1. WalkIn(m, d, v, n) = WalkIn(m, e, w, k) /\ PresentIn(m, d, v, n)
      BY <1>0, <1>2, <1>3
    <2> QED
      BY <1>2, <1>3, <2>1, LastLevel, OneWay
  <1>4. Steady(m, m2, D)
    <2>1. ASSUME NEW e \in D, NEW q \in PathsIn(m, e), Len(q) < Depth - 1
          PROVE  WalkIn(m, e, q, Len(q)) # at
      <3>1. PICK k \in 0..(Depth - 1) : q \in [1..k -> Index] /\ Len(q) = k /\ PresentIn(m, e, q, k)
        BY PathsOf
      <3>2. k \in Nat /\ k <= k /\ k # n
        BY <1>2, <2>1, <3>1
      <3> HIDE DEF at
      <3> QED
        BY <1>3, <3>1, <3>2
    <2> QED
      BY <1>0, <2>1 DEF Steady, Inside
  <1>5. ASSUME NEW e \in D, NEW w \in [1..Depth -> Index], PresentIn(m, e, w, n)
        PROVE  /\ w[Depth] \in Index /\ WalkIn(m, e, w, n) \in S
               /\ WalkIn(m, e, w, n) = at /\ w[Depth] = v[Depth] => e = d /\ w = v
    <2>1. w[Depth] \in Index /\ WalkIn(m, e, w, n) \in S
      BY <1>2, <1>5, LastInside
    <2>2. ASSUME WalkIn(m, e, w, n) = at, w[Depth] = v[Depth] PROVE e = d /\ w = v
      <3>1. e = d /\ Agree(v, w, n)
        <4> HIDE DEF at
        <4> QED
          BY <1>2, <1>3, <1>5, <2>2, LastLevel
      <3>2. \A k \in 1..Depth : k = Depth \/ k \in 1..n
        BY <1>2, LastLevel
      <3>3. \A k \in 1..Depth : w[k] = v[k]
        BY <2>2, <3>1, <3>2 DEF Agree
      <3>4. w = v
        <4> HIDE DEF at
        <4>1. w = [k \in 1..Depth |-> w[k]] /\ v = [k \in 1..Depth |-> v[k]]
          OBVIOUS
        <4>2. [k \in 1..Depth |-> w[k]] = [k \in 1..Depth |-> v[k]]
          BY <3>3
        <4> QED
          BY <4>1, <4>2
      <3> QED
        BY <3>1, <3>4
    <2> QED
      BY <2>1, <2>2
  <1>6. Seen(m2, d, v) = [frame |-> f, writable |-> TRUE]
    <2>1. m2[WalkIn(m, d, v, Depth - 1)][v[Depth]] = entry
      BY <1>0, LastLevel
    <2>2. PresentIn(m2, d, v, Depth)
      BY <1>0, <1>4, <1>1, <2>1, SteadySeen
    <2>3. WalkIn(m2, d, v, Depth) = f
      <3>1. PresentIn(m, d, v, Depth - 1) =>
              WalkIn(m2, d, v, Depth) = m2[WalkIn(m, d, v, Depth - 1)][v[Depth]].addr
        BY <1>4, SteadySeen
      <3> HIDE DEF at
      <3> QED
        BY <1>0, <1>1, <2>1, <3>1
    <2> QED
      BY <2>2, <2>3 DEF Seen
  <1>7. ASSUME NEW e \in D, NEW w \in [1..Depth -> Index], e # d \/ w # v PROVE Seen(m2, e, w) = Seen(m, e, w)
    <2>1. PresentIn(m, e, w, Depth - 1) =>
            m2[WalkIn(m, e, w, Depth - 1)][w[Depth]] = m[WalkIn(m, e, w, Depth - 1)][w[Depth]]
      <3> SUFFICES ASSUME PresentIn(m, e, w, Depth - 1)
                   PROVE  m2[WalkIn(m, e, w, Depth - 1)][w[Depth]] = m[WalkIn(m, e, w, Depth - 1)][w[Depth]]
        OBVIOUS
      <3>1. /\ w[Depth] \in Index /\ WalkIn(m, e, w, Depth - 1) \in S
            /\ ~(WalkIn(m, e, w, Depth - 1) = at /\ w[Depth] = v[Depth])
        BY <1>2, <1>5, <1>7
      <3> HIDE DEF at
      <3> QED
        BY <1>0, <3>1
    <2>2. PresentIn(m2, e, w, Depth) <=> PresentIn(m, e, w, Depth)
      <3>1. PresentIn(m2, e, w, Depth) <=>
              PresentIn(m, e, w, Depth - 1) /\ m2[WalkIn(m, e, w, Depth - 1)][w[Depth]].present
        BY <1>4, SteadySeen, Zenon
      <3>2. PresentIn(m, e, w, Depth) <=>
              PresentIn(m, e, w, Depth - 1) /\ m[WalkIn(m, e, w, Depth - 1)][w[Depth]].present
        BY SeenLast, Zenon
      <3> QED
        BY <2>1, <3>1, <3>2, Zenon
    <2>3. PresentIn(m, e, w, Depth) => WalkIn(m2, e, w, Depth) = WalkIn(m, e, w, Depth)
      <3>1. PresentIn(m, e, w, Depth) => PresentIn(m, e, w, Depth - 1)
        BY SeenLast
      <3>2. WalkIn(m, e, w, Depth) = m[WalkIn(m, e, w, Depth - 1)][w[Depth]].addr
        BY SeenLast
      <3>3. PresentIn(m, e, w, Depth - 1) => WalkIn(m2, e, w, Depth) = m2[WalkIn(m, e, w, Depth - 1)][w[Depth]].addr
        BY <1>4, SteadySeen
      <3> HIDE DEF at
      <3> QED
        BY <2>1, <3>1, <3>2, <3>3
    <2> QED
      BY <2>2, <2>3 DEF Seen
  <1>8. ASSUME WritableIn(m, D), r = TRUE PROVE WritableIn(m2, D)
    <2>1. ASSUME NEW e \in D, NEW q \in PathsIn(m2, e), NEW i \in Index
          PROVE  /\ q \in PathsIn(m, e) /\ WalkIn(m2, e, q, Len(q)) = WalkIn(m, e, q, Len(q))
                 /\ \/ m2[WalkIn(m, e, q, Len(q))][i] = entry
                    \/ m2[WalkIn(m, e, q, Len(q))][i] = m[WalkIn(m, e, q, Len(q))][i]
      <3>1. q \in PathsIn(m, e) /\ WalkIn(m2, e, q, Len(q)) = WalkIn(m, e, q, Len(q))
        BY <1>4, SteadyPaths
      <3>2. WalkIn(m, e, q, Len(q)) \in S
        BY <3>1 DEF Inside
      <3> HIDE DEF at
      <3> QED
        BY <1>0, <3>1, <3>2
    <2> QED
      BY <1>8, <1>1, <2>1 DEF WritableIn
  <1> QED
    BY <1>4, <1>6, <1>7, <1>8 DEF StoreSeen

\* A link makes no translation and breaks none.
LEMMA LinkedSeen ==
  ASSUME NEW m, NEW m2, NEW D, NEW bound, NEW S, NEW new,
         NEW d \in D, NEW v \in [1..Depth -> Index], NEW n \in 1..(Depth - 1),
         Links(m, m2, D, bound, S, d, v, n, new)
  PROVE  \A e \in D, w \in [1..Depth -> Index] : Seen(m2, e, w) = Seen(m, e, w)
  <1>1. ASSUME NEW e \in D, NEW w \in [1..Depth -> Index] PROVE Seen(m2, e, w) = Seen(m, e, w)
    <2>1. Depth \in Nat /\ Depth \in 0..Depth /\ Depth <= Depth /\ Depth # n
      BY LastLevel
    <2>2. LinkSeen(m, m2, d, v, n, new, e, w, Depth)
      BY <2>1, Linked
    <2>3. PresentIn(m2, e, w, Depth) <=> PresentIn(m, e, w, Depth)
      BY <2>1, <2>2 DEF LinkSeen
    <2>4. PresentIn(m, e, w, Depth) => WalkIn(m2, e, w, Depth) = WalkIn(m, e, w, Depth)
      BY <2>1, <2>2 DEF LinkSeen
    <2> QED
      BY <2>3, <2>4 DEF Seen
  <1> QED
    BY <1>1

\* A clone translates as the original does.
LEMMA ClonedSeen ==
  ASSUME NEW m, NEW m2, NEW d, NEW new \in Nat, Cloned(m, m2, d, new), NEW w \in [1..Depth -> Index]
  PROVE  Seen(m2, new, w) = Seen(m, d, w)
  <1>1. PICK n \in 0..(Depth - 1) : n = Depth - 1 /\ n <= Depth /\ n \in Nat
    BY LastLevel
  <1>2. /\ PresentIn(m2, new, w, n) <=> PresentIn(m, d, w, n)
        /\ PresentIn(m, d, w, n) => WalkIn(m2, new, w, n) = new + Rank(PathsIn(m, d), Prefix(w, n))
    BY <1>1, LastLevel, ClonedWalks
  <1>3. PresentIn(m, d, w, n) => m2[WalkIn(m2, new, w, n)][w[Depth]] = m[WalkIn(m, d, w, n)][w[Depth]]
    <2> SUFFICES ASSUME PresentIn(m, d, w, n)
                 PROVE  m2[WalkIn(m2, new, w, n)][w[Depth]] = m[WalkIn(m, d, w, n)][w[Depth]]
      OBVIOUS
    <2>1. /\ Prefix(w, n) \in PathsIn(m, d) /\ Len(Prefix(w, n)) = n
          /\ WalkIn(m, d, Prefix(w, n), n) = WalkIn(m, d, w, n)
      BY <1>1, LastLevel, PrefixIsPath
    <2>2. w[Depth] \in Index
      BY LastLevel
    <2>3. m2[new + Rank(PathsIn(m, d), Prefix(w, n))][w[Depth]] = m[WalkIn(m, d, w, n)][w[Depth]]
      <3>1. \A q \in PathsIn(m, d), i \in Index :
              Len(q) = Depth - 1 =>
                m2[new + Rank(PathsIn(m, d), q)][i] = m[WalkIn(m, d, q, Len(q))][i]
        BY Zenon DEF Cloned
      <3>2. PICK q \in PathsIn(m, d) : q = Prefix(w, n)
        BY <2>1
      <3>3. Len(q) = n /\ WalkIn(m, d, q, n) = WalkIn(m, d, w, n)
        BY <2>1, <3>2
      <3>4. m2[new + Rank(PathsIn(m, d), q)][w[Depth]] = m[WalkIn(m, d, q, Len(q))][w[Depth]]
        BY <1>1, <2>2, <3>1, <3>3
      <3> QED
        BY <3>2, <3>3, <3>4, Zenon
    <2> QED
      BY <1>2, <2>3
  <1>4. PresentIn(m2, new, w, Depth) <=> PresentIn(m, d, w, Depth)
    BY <1>1, <1>2, <1>3, SeenLast
  <1>5. PresentIn(m, d, w, Depth) => WalkIn(m2, new, w, Depth) = WalkIn(m, d, w, Depth)
    BY <1>1, <1>2, <1>3, SeenLast
  <1> QED
    BY <1>4, <1>5 DEF Seen

LEMMA ClonedWritable ==
  ASSUME NEW m, NEW m2, NEW D, NEW d \in D, NEW new \in Nat, Cloned(m, m2, d, new), WritableIn(m, D)
  PROVE  WritableIn(m2, {new})
  <1>1. ASSUME NEW q \in PathsIn(m2, new), NEW i \in Index, m2[WalkIn(m2, new, q, Len(q))][i].present
        PROVE  m2[WalkIn(m2, new, q, Len(q))][i].writable
    <2>1. q \in PathsIn(m, d) /\ WalkIn(m2, new, q, Len(q)) = new + Rank(PathsIn(m, d), q)
      BY ClonedPaths
    <2> DEFINE e == m[WalkIn(m, d, q, Len(q))][i]
               x == m2[WalkIn(m2, new, q, Len(q))][i]
               a == new + Rank(PathsIn(m, d), Append(q, i))
    <2>2. x = IF Len(q) = Depth - 1 THEN e
              ELSE IF e.present THEN [present |-> TRUE, addr |-> a, writable |-> TRUE] ELSE Zero
      BY <2>1 DEF Cloned
    <2>3. e.present => e.writable
      BY <2>1 DEF WritableIn
    <2>4. x.present
      BY <1>1
    <2> HIDE DEF x, e, a
    <2>5. x.writable
      BY <2>2, <2>3, <2>4 DEF Zero
    <2> QED
      BY <2>5 DEF x
  <1> QED
    BY <1>1 DEF WritableIn

\* The entry that was stored is writable.
WritableLink(m, m2, d, v, n) == m2[WalkIn(m, d, v, n - 1)][v[n]].writable

\* The table that a link adds is empty, and the entry that leads to it is writable.
LEMMA LinkedWritable ==
  ASSUME NEW m, NEW m2, NEW D, NEW bound, NEW S, NEW new,
         NEW d \in D, NEW v \in [1..Depth -> Index], NEW n \in 1..(Depth - 1),
         Links(m, m2, D, bound, S, d, v, n, new), WritableIn(m, D), WritableLink(m, m2, d, v, n)
  PROVE  WritableIn(m2, D)
  <1> DEFINE at == WalkIn(m, d, v, n - 1)
  <1>0. /\ Inside(m, D, S) /\ new \in S /\ new # at /\ \A i \in Index : ~m[new][i].present
        /\ \A p \in S, i \in Index : ~(p = at /\ i = v[n]) => m2[p][i] = m[p][i]
    BY DEF Links
  <1>2. m2[at][v[n]].writable
    BY DEF WritableLink
  <1>1. ASSUME NEW e \in D, NEW q \in PathsIn(m2, e), NEW i \in Index,
               m2[WalkIn(m2, e, q, Len(q))][i].present
        PROVE  m2[WalkIn(m2, e, q, Len(q))][i].writable
    <2>1. PICK k \in 0..(Depth - 1) : q \in [1..k -> Index] /\ Len(q) = k /\ PresentIn(m2, e, q, k)
      BY PathsOf
    <2>2. k \in Nat /\ k \in 0..Depth /\ k <= k /\ k \in 0..k
      BY DepthAssumption
    <2>3. LinkSeen(m, m2, d, v, n, new, e, q, k)
      BY <2>1, <2>2, Linked
    <2>4. CASE PresentIn(m, e, q, k)
      <3>1. WalkIn(m2, e, q, k) = WalkIn(m, e, q, k) /\ q \in PathsIn(m, e)
        BY <2>1, <2>2, <2>3, <2>4, PathsOf DEF LinkSeen
      <3>2. WalkIn(m, e, q, k) \in S
        BY <1>0, <2>1, <3>1 DEF Inside
      <3>3. CASE WalkIn(m, e, q, k) = at /\ i = v[n]
        BY <1>2, <2>1, <3>1, <3>3
      <3>4. CASE ~(WalkIn(m, e, q, k) = at /\ i = v[n])
        <4> HIDE DEF at
        <4>1. m2[WalkIn(m, e, q, k)][i] = m[WalkIn(m, e, q, k)][i]
          BY <1>0, <3>2, <3>4
        <4> QED
          BY <1>1, <2>1, <3>1, <4>1 DEF WritableIn
      <3> QED
        BY <3>3, <3>4
    <2>5. CASE ~PresentIn(m, e, q, k)
      <3>1. WalkIn(m2, e, q, k) = new
        BY <2>1, <2>3, <2>5 DEF LinkSeen
      <3> HIDE DEF at
      <3>2. ~m2[new][i].present
        BY <1>0
      <3> QED
        BY <1>1, <2>1, <3>1, <3>2
    <2> QED
      BY <2>4, <2>5
  <1> QED
    BY <1>1 DEF WritableIn

-----------------------------------------------------------------------------
(* The inductive invariant.                                                *)

TypeOK ==
  /\ mem \in [Pages -> [Index -> Entry]]
  /\ free \in 1..(LastPage + 1)
  /\ dirs \subseteq 0..(free - 1)
  /\ \/ call = Idle
     \/ call \in [busy : {TRUE}, virt : Virt, frame : Frames, writable : Rights,
                  level : 1..Depth, at : 0..(free - 1), new : 0..(free - 1)]

\* The page is a table that is allocated and that nothing leads to.
Unreached(p) == \A d \in dirs : \A q \in Paths(d) : Table(d, q, Len(q)) # p

\* mapPage has come to where the processor would come on the same way, there
\* is room for the tables it has yet to make, and the one it has made is empty.
CallOn(d) ==
  /\ Present(d, call.virt, call.level - 1)
  /\ call.at = Table(d, call.virt, call.level - 1)
  /\ IF call.new = 0
     THEN \A n \in call.level..(Depth - 1) :
            Present(d, call.virt, n - 1) /\ ~EntryAt(d, call.virt, n).present
              => free + (Depth - n) <= LastPage + 1
     ELSE /\ call.level < Depth /\ ~Current.present
          /\ mem[call.new] = [i \in Index |-> Zero] /\ Unreached(call.new)
          /\ free + (Depth - call.level) <= LastPage + 2

CallOK == call # Idle => \E d \in dirs : CallOn(d)

IInv == TypeOK /\ CallOK /\ NoSharing

-----------------------------------------------------------------------------
(* What it says in terms of memories.                                      *)

LEMMA NoSharingIs ==
  /\ NoSharing <=> ApartIn(mem, dirs, free)
  /\ NoSharing' <=> ApartIn(mem', dirs', free')
  <1>1. NoSharing <=> ApartIn(mem, dirs, free)
    BY InMemory DEF NoSharing, ApartIn
  <1>2. NoSharing' <=> ApartIn(mem', dirs', free')
    BY InMemory DEF NoSharing, ApartIn
  <1> QED
    BY <1>1, <1>2

\* Tables that are apart are pages.
LEMMA TablesArePages ==
  ASSUME NEW m \in [Pages -> [Index -> Entry]], NEW bound \in 1..(LastPage + 1), NEW D, D \subseteq 0..(bound - 1),
         ApartIn(m, D, bound), NEW e \in D,
         NEW N \in Nat, NEW v \in [1..N -> Index], NEW n \in 0..(Depth - 1), n <= N, PresentIn(m, e, v, n)
  PROVE  WalkIn(m, e, v, n) \in 0..(bound - 1)
  <1> DEFINE T == {k \in 0..n : WalkIn(m, e, v, k) \in Nat}
  <1>0. \A k \in Nat : WalkIn(m, e, v, k + 1) = m[WalkIn(m, e, v, k)][v[k + 1]].addr
    <2>1. \A a, b, w : \A k \in Nat : WalkIn(a, b, w, k + 1) = a[WalkIn(a, b, w, k)][w[k + 1]].addr
      BY WalkStep
    <2> QED
      BY <2>1
  <1>1. n \in Nat /\ bound \in Nat
    BY DepthAssumption, PageAssumption
  <1>2. \A k \in 0..n : PresentIn(m, e, v, k) /\ k \in 0..(Depth - 1) /\ k <= N
    BY <1>1, DepthAssumption DEF PresentIn
  <1>3. \A k \in 0..n : WalkIn(m, e, v, k) < bound
    BY <1>2, OneWay
  <1>4. 0 \in T
    <2>1. WalkIn(m, e, v, 0) = e
      BY WalkStep
    <2>2. e \in Nat
      BY <1>1
    <2> QED
      BY <1>1, <2>1, <2>2
  <1>5. ASSUME NEW k \in T, k < n PROVE k + 1 \in T
    <2>1. k \in 0..n /\ k \in Nat /\ k + 1 \in 0..n /\ k + 1 \in 1..N
      BY <1>1, <1>5
    <2>2. WalkIn(m, e, v, k) \in Pages
      <3>1. WalkIn(m, e, v, k) \in Nat /\ WalkIn(m, e, v, k) < bound
        BY <1>3, <2>1
      <3> QED
        BY <1>1, <3>1, PageAssumption DEF Pages
    <2>3. m[WalkIn(m, e, v, k)][v[k + 1]].addr \in Nat
      <3>1. v[k + 1] \in Index
        BY <2>1
      <3>2. PICK x \in Entry : x = m[WalkIn(m, e, v, k)][v[k + 1]]
        BY <2>2, <3>1
      <3>3. Pages \cup Frames \subseteq Nat
        BY PageAssumption DEF Pages
      <3>4. x.addr \in Pages \cup Frames
        BY DEF Entry
      <3> QED
        BY <3>2, <3>3, <3>4
    <2>4. WalkIn(m, e, v, k + 1) = m[WalkIn(m, e, v, k)][v[k + 1]].addr
      BY <1>0, <2>1
    <2> QED
      BY <2>1, <2>3, <2>4
  <1>6. n \in T
    <2>1. T \subseteq 0..n
      OBVIOUS
    <2> HIDE DEF T
    <2>2. T = 0..n
      BY <1>1, <1>4, <1>5, <2>1, Counting
    <2> QED
      BY <1>1, <2>2
  <1> QED
    BY <1>1, <1>3, <1>6

LEMMA PathsInside ==
  ASSUME TypeOK, NoSharing
  PROVE  /\ Inside(mem, dirs, 0..(free - 1)) /\ Inside(mem, dirs, Pages) /\ Inside(mem, dirs, Nat)
  <1>1. ASSUME NEW e \in dirs, NEW q \in PathsIn(mem, e) PROVE WalkIn(mem, e, q, Len(q)) \in 0..(free - 1)
    <2>1. PICK n \in 0..(Depth - 1) : q \in [1..n -> Index] /\ Len(q) = n /\ PresentIn(mem, e, q, n)
      BY PathsOf
    <2>2. n \in Nat /\ n <= n
      BY DepthAssumption
    <2> QED
      BY <2>1, <2>2, TablesArePages, NoSharingIs DEF TypeOK
  <1>2. 0..(free - 1) \subseteq Pages /\ Pages \subseteq Nat
    BY PageAssumption DEF TypeOK, Pages
  <1> QED
    BY <1>1, <1>2 DEF Inside

LEMMA Levels ==
  \A l \in 1..Depth :
    /\ l \in Nat /\ l # 0 /\ l - 1 \in Nat /\ l - 1 + 1 = l /\ l + 1 - 1 = l
    /\ l - 1 \in 0..(Depth - 1) /\ l - 1 <= Depth /\ l <= Depth
    /\ l < Depth => l \in 1..(Depth - 1) /\ l \in 0..(Depth - 1)
  BY DepthAssumption

\* The call under way.
LEMMA Busy ==
  ASSUME TypeOK, CallOK, call.busy
  PROVE  /\ call.virt \in Virt /\ call.frame \in Frames /\ call.writable \in Rights
         /\ call.level \in 1..Depth /\ call.at \in 0..(free - 1) /\ call.new \in 0..(free - 1)
         /\ call \in [busy : {TRUE}, virt : Virt, frame : Frames, writable : Rights,
                      level : 1..Depth, at : 0..(free - 1), new : 0..(free - 1)]
         /\ \E d \in dirs : CallOn(d)
  <1>1. call # Idle
    BY DEF Idle
  <1> QED
    BY <1>1 DEF TypeOK, CallOK

-----------------------------------------------------------------------------
(* Every step keeps it.                                                    *)

\* At first there is one table, and it is empty.
LEMMA InitPaths ==
  ASSUME Init
  PROVE  /\ dirs = {0} /\ free = 1 /\ \A i \in Index : ~mem[0][i].present
         /\ \A q \in PathsIn(mem, 0) : q = <<>> /\ WalkIn(mem, 0, q, Len(q)) = 0
  <1>1. PICK f \in Fill : mem = [p \in Pages |-> [i \in Index |-> IF p = kernelDirectory THEN Zero ELSE f]]
    BY DEF Init
  <1>2. Zero \in Entry /\ f \in Entry /\ 0 \in Pages
    BY FillAssumption, PageAssumption DEF Zero, Entry, Pages
  <1>3. dirs = {0} /\ free = 1
    BY DEF Init, kernelDirectory
  <1>4. \A i \in Index : ~mem[0][i].present
    BY <1>1, <1>2 DEF kernelDirectory, Zero
  <1>5. ASSUME NEW q \in PathsIn(mem, 0) PROVE q = <<>> /\ WalkIn(mem, 0, q, Len(q)) = 0
    <2>1. PICK n \in 0..(Depth - 1) : q \in [1..n -> Index] /\ Len(q) = n /\ PresentIn(mem, 0, q, n)
      BY PathsOf
    <2>2. n = 0
      <3> SUFFICES ASSUME n # 0 PROVE FALSE
        OBVIOUS
      <3>1. 1 \in 1..n /\ 1 - 1 = 0 /\ q[1] \in Index
        BY <2>1, DepthAssumption
      <3>2. mem[WalkIn(mem, 0, q, 0)][q[1]].present
        BY <2>1, <3>1 DEF PresentIn
      <3>3. WalkIn(mem, 0, q, 0) = 0
        BY WalkStep
      <3> QED
        BY <1>4, <3>1, <3>2, <3>3
    <2>3. q = <<>>
      BY <2>1, <2>2
    <2>4. WalkIn(mem, 0, q, 0) = 0
      BY WalkStep
    <2> QED
      BY <2>1, <2>2, <2>3, <2>4
  <1> QED
    BY <1>3, <1>4, <1>5

LEMMA InitIInv == Init => IInv
  <1> SUFFICES ASSUME Init PROVE IInv
    OBVIOUS
  <1>1. PICK f \in Fill : mem = [p \in Pages |-> [i \in Index |-> IF p = kernelDirectory THEN Zero ELSE f]]
    BY DEF Init
  <1>2. Zero \in Entry /\ f \in Entry /\ 0 \in Pages
    BY FillAssumption, PageAssumption DEF Zero, Entry, Pages
  <1>3. TypeOK
    <2>1. mem \in [Pages -> [Index -> Entry]]
      BY <1>1, <1>2
    <2>2. free = 1 /\ dirs = {0} /\ call = Idle
      BY DEF Init, kernelDirectory
    <2> QED
      BY <2>1, <2>2, PageAssumption DEF TypeOK
  <1>4. CallOK
    BY DEF Init, CallOK
  <1>5. NoSharing
    <2>1. ApartIn(mem, dirs, free)
      BY InitPaths DEF ApartIn
    <2> QED
      BY <2>1, NoSharingIs
  <1> QED
    BY <1>3, <1>4, <1>5 DEF IInv

LEMMA CallMapPageStep ==
  ASSUME IInv, NEW d \in dirs, NEW v \in Virt, NEW f \in Frames, NEW w \in Rights, CallMapPage(d, v, f, w)
  PROVE  IInv'
  <1>1. /\ mem' = mem /\ free' = free /\ dirs' = dirs
        /\ call' = [busy |-> TRUE, virt |-> v, frame |-> f, writable |-> w, level |-> 1, at |-> d, new |-> 0]
        /\ free + Missing(d, v) <= LastPage + 1
    BY DEF CallMapPage
  <1>2. TypeOK'
    <2>1. d \in 0..(free - 1) /\ free \in Nat /\ 0 \in 0..(free - 1) /\ 1 \in 1..Depth
      BY DepthAssumption, PageAssumption DEF IInv, TypeOK
    <2>2. call' \in [busy : {TRUE}, virt : Virt, frame : Frames, writable : Rights,
                     level : 1..Depth, at : 0..(free - 1), new : 0..(free - 1)]
      BY <1>1, <2>1
    <2> QED
      BY <1>1, <2>2 DEF IInv, TypeOK
  <1>3. CallOn(d)'
    <2>1. call'.virt = v /\ call'.level = 1 /\ call'.at = d /\ call'.new = 0 /\ call'.level - 1 = 0
      BY <1>1
    <2>2. PresentIn(mem', d, v, 0) /\ WalkIn(mem', d, v, 0) = d
      BY PresentStep, WalkStep
    <2>3. ASSUME NEW n \in 1..(Depth - 1), ~EntryAt(d, v, n).present
          PROVE  free + (Depth - n) <= LastPage + 1
      <3> DEFINE Absent == {k \in 1..(Depth - 1) : ~Present(d, v, k)}
      <3>1. \A k \in n..(Depth - 1) : k \in Absent
        <4>1. \A k \in n..(Depth - 1) : n \in 1..k /\ k \in 1..(Depth - 1)
          BY DepthAssumption
        <4> QED
          BY <2>3, <4>1 DEF Present
      <3>2. IsFiniteSet(1..(Depth - 1)) /\ Absent \subseteq 1..(Depth - 1)
        BY FS_Interval, DepthAssumption
      <3>3. IsFiniteSet(Absent) /\ Cardinality(Absent) \in Nat
        BY <3>2, FS_Subset, FS_CardinalityType
      <3>4. Cardinality(n..(Depth - 1)) = Depth - n
        <4>1. n \in Int /\ Depth - 1 \in Int /\ ~(n > Depth - 1) /\ Depth - 1 - n + 1 = Depth - n
          BY DepthAssumption
        <4> QED
          BY <4>1, FS_Interval
      <3>5. Cardinality(n..(Depth - 1)) <= Cardinality(Absent)
        <4>1. n..(Depth - 1) \in SUBSET Absent
          BY <3>1
        <4> HIDE DEF Absent
        <4> QED
          BY <3>3, <4>1, FS_Subset
      <3>6. Missing(d, v) = Cardinality(Absent)
        BY DEF Missing
      <3>7. free \in Nat /\ Depth \in Nat /\ n \in Nat /\ LastPage \in Nat
        BY DepthAssumption, PageAssumption DEF IInv, TypeOK
      <3> HIDE DEF Absent
      <3> QED
        BY <1>1, <3>3, <3>4, <3>5, <3>6, <3>7
    <2>4. \A n : EntryAt(d, v, n)' = EntryAt(d, v, n)
      BY <1>1, InMemory DEF EntryAt
    <2> QED
      BY <1>1, <2>1, <2>2, <2>3, <2>4, InMemory DEF CallOn
  <1>4. CallOK'
    BY <1>1, <1>3 DEF CallOK
  <1>5. NoSharing'
    BY <1>1, NoSharingIs DEF IInv
  <1> QED
    BY <1>2, <1>4, <1>5 DEF IInv

\* A new table is none of those that are in use.
LEMMA NewTableChange == ASSUME IInv, NewTable PROVE Below(mem, mem', free) /\ dirs' = dirs
  <1>1. mem' = [mem EXCEPT ![free] = [i \in Index |-> Zero]] /\ dirs' = dirs
    BY DEF NewTable
  <1>2. mem \in [Pages -> [Index -> Entry]] /\ free \in 1..(LastPage + 1)
    BY DEF IInv, TypeOK
  <1>3. \A p \in 0..(free - 1) : p \in Pages /\ p # free
    BY <1>2, PageAssumption DEF Pages
  <1> QED
    BY <1>1, <1>2, <1>3 DEF Below

LEMMA NewTableStep == ASSUME IInv, NewTable PROVE IInv'
  <1> DEFINE v == call.virt
             L == call.level
             empty == [i \in Index |-> Zero]
  <1>1. /\ call.busy /\ call.level < Depth /\ ~Current.present /\ call.new = 0
        /\ free' = free + 1 /\ mem' = [mem EXCEPT ![free] = empty]
        /\ call' = [call EXCEPT !.new = free] /\ dirs' = dirs
    BY DEF NewTable
  <1>2. PICK d \in dirs : CallOn(d)
    BY <1>1, Busy DEF IInv
  <1>3. /\ v \in [1..Depth -> Index] /\ L \in 1..Depth /\ L < Depth /\ L - 1 \in 0..(Depth - 1) /\ L - 1 <= Depth
        /\ call.at \in 0..(free - 1) /\ free \in Nat \ {0} /\ Depth \in Nat /\ LastPage \in Nat
        /\ call \in [busy : {TRUE}, virt : Virt, frame : Frames, writable : Rights,
                     level : 1..Depth, at : 0..(free - 1), new : 0..(free - 1)]
    <2>1. v \in [1..Depth -> Index]
      BY <1>1, Busy, VirtAssumption DEF IInv
    <2>2. /\ L \in 1..Depth /\ L < Depth /\ free \in 1..(LastPage + 1) /\ call.at \in 0..(free - 1)
          /\ call \in [busy : {TRUE}, virt : Virt, frame : Frames, writable : Rights,
                       level : 1..Depth, at : 0..(free - 1), new : 0..(free - 1)]
      BY <1>1, Busy DEF IInv, TypeOK
    <2>3. free \in Nat \ {0} /\ Depth \in Nat /\ LastPage \in Nat
      BY <2>2, DepthAssumption, PageAssumption
    <2> HIDE DEF v, L
    <2>4. PICK l \in 1..Depth : l = L
      BY <2>2
    <2> QED
      BY <2>1, <2>2, <2>3, <2>4, Levels
  <1>4. /\ PresentIn(mem, d, v, L - 1) /\ call.at = WalkIn(mem, d, v, L - 1)
        /\ free + (Depth - L) <= LastPage + 1
    <2>1. PresentIn(mem, d, v, L - 1) /\ call.at = WalkIn(mem, d, v, L - 1)
      BY <1>2, InMemory DEF CallOn
    <2>2. ~EntryAt(d, v, L).present
      BY <1>1, <1>2 DEF CallOn, EntryAt, Current
    <2>3. L \in L..(Depth - 1)
      BY <1>3
    <2> QED
      BY <1>1, <1>2, <2>1, <2>2, <2>3 DEF CallOn
  <1>5. free \in Pages /\ free <= LastPage /\ call.at \in Pages /\ call.at # free /\ free # 0
    BY <1>3, <1>4 DEF Pages
  <1>6. /\ mem \in [Pages -> [Index -> Entry]] /\ empty \in [Index -> Entry]
        /\ mem'[free] = empty /\ \A p \in Pages \ {free} : mem'[p] = mem[p]
    <2>1. Zero \in Entry
      BY PageAssumption DEF Zero, Entry, Pages
    <2> QED
      BY <1>1, <1>5, <2>1 DEF IInv, TypeOK
  <1>7. Inside(mem, dirs, 0..(free - 1)) /\ Inside(mem, dirs, Nat) /\ ApartIn(mem, dirs, free)
    BY PathsInside, NoSharingIs DEF IInv
  <1>8. Steady(mem, mem', dirs)
    <2> HIDE DEF v, L, empty
    <2> QED
      BY <1>7, NewTableChange, BelowSteady
  <1>9. TypeOK'
    <2>1. mem' \in [Pages -> [Index -> Entry]]
      BY <1>1, <1>6
    <2>2. free' \in 1..(LastPage + 1) /\ 0..(free - 1) \subseteq 0..(free' - 1) /\ free \in 0..(free' - 1)
      BY <1>1, <1>3, <1>5
    <2>3. dirs' \subseteq 0..(free' - 1)
      BY <1>1, <2>2 DEF IInv, TypeOK
    <2>4. call' \in [busy : {TRUE}, virt : Virt, frame : Frames, writable : Rights,
                     level : 1..Depth, at : 0..(free' - 1), new : 0..(free' - 1)]
      BY <1>1, <1>3, <2>2
    <2> QED
      BY <2>1, <2>2, <2>3, <2>4 DEF TypeOK
  <1>10. NoSharing'
    <2>1. free <= free + 1 /\ free + 1 \in Nat
      BY <1>3
    <2>2. ApartIn(mem', dirs, free + 1)
      BY <1>3, <1>7, <1>8, <2>1, SteadyApart
    <2> QED
      BY <1>1, <2>2, NoSharingIs
  <1>11. CallOn(d)'
    <2>1. call'.virt = v /\ call'.level = L /\ call'.at = call.at /\ call'.new = free
      BY <1>1, <1>3
    <2>2. PresentIn(mem', d, v, L - 1) /\ WalkIn(mem', d, v, L - 1) = call.at
      <3>1. L - 1 \in 0..(L - 1)
        BY <1>3
      <3> QED
        BY <1>3, <1>4, <1>8, <3>1, SteadyWalks
    <2>3. ~Current.present'
      <3>1. Current' = Current
        BY <1>3, <1>5, <1>6, <2>1 DEF Current
      <3> QED
        BY <1>1, <3>1
    <2>4. Unreached(call.new)'
      <3>1. ASSUME NEW e \in dirs, NEW q \in PathsIn(mem', e) PROVE WalkIn(mem', e, q, Len(q)) # free
        <4>1. WalkIn(mem', e, q, Len(q)) \in 0..(free - 1)
          BY <1>7, <1>8, SteadyPaths DEF Inside
        <4> QED
          BY <1>3, <4>1
      <3> QED
        BY <1>1, <2>1, <3>1, InMemory DEF Unreached
    <2>5. free' + (Depth - L) <= LastPage + 2
      BY <1>1, <1>3, <1>4
    <2>6. mem'[call'.new] = empty
      BY <1>6, <2>1
    <2> HIDE DEF v, L
    <2>7. Present(d, call.virt, call.level - 1)' /\ (call.at = Table(d, call.virt, call.level - 1))'
      BY <2>1, <2>2, InMemory
    <2>8. call.new' # 0 /\ call.level' < Depth /\ free' + (Depth - call.level') <= LastPage + 2
      BY <1>3, <1>5, <2>1, <2>5
    <2> QED
      BY <2>3, <2>4, <2>6, <2>7, <2>8 DEF CallOn
  <1>12. CallOK'
    BY <1>1, <1>11 DEF CallOK
  <1> QED
    BY <1>9, <1>10, <1>12 DEF IInv

LEMMA DescendStep == ASSUME IInv, Descend PROVE IInv'
  <1> DEFINE v == call.virt
             L == call.level
  <1>1. /\ call.busy /\ call.level < Depth /\ Current.present
        /\ call' = [call EXCEPT !.level = @ + 1, !.at = Current.addr]
        /\ mem' = mem /\ free' = free /\ dirs' = dirs
    BY DEF Descend
  <1>2. PICK d \in dirs : CallOn(d)
    BY <1>1, Busy DEF IInv
  <1>3. /\ v \in [1..Depth -> Index] /\ L \in 1..(Depth - 1) /\ L \in Nat /\ L # 0
        /\ L - 1 \in Nat /\ L - 1 + 1 = L /\ L \in 0..(Depth - 1) /\ L <= Depth
        /\ free \in Nat \ {0} /\ Depth \in Nat /\ LastPage \in Nat
        /\ call \in [busy : {TRUE}, virt : Virt, frame : Frames, writable : Rights,
                     level : 1..Depth, at : 0..(free - 1), new : 0..(free - 1)]
    <2>1. v \in [1..Depth -> Index]
      BY <1>1, Busy, VirtAssumption DEF IInv
    <2>2. /\ L \in 1..Depth /\ L < Depth /\ free \in 1..(LastPage + 1) /\ call.at \in 0..(free - 1)
          /\ call \in [busy : {TRUE}, virt : Virt, frame : Frames, writable : Rights,
                       level : 1..Depth, at : 0..(free - 1), new : 0..(free - 1)]
      BY <1>1, Busy DEF IInv, TypeOK
    <2>3. free \in Nat \ {0} /\ Depth \in Nat /\ LastPage \in Nat
      BY <2>2, DepthAssumption, PageAssumption
    <2> HIDE DEF v, L
    <2>4. PICK l \in 1..Depth : l = L
      BY <2>2
    <2> QED
      BY <2>1, <2>2, <2>3, <2>4, Levels
  <1>4. /\ PresentIn(mem, d, v, L - 1) /\ call.at = WalkIn(mem, d, v, L - 1)
        /\ call.new = 0
    BY <1>1, <1>2, InMemory DEF CallOn
  <1>5. Current = mem[WalkIn(mem, d, v, L - 1)][v[L]]
    BY <1>4 DEF Current
  <1>6. PresentIn(mem, d, v, L) /\ WalkIn(mem, d, v, L) = Current.addr
    <2>1. WalkIn(mem, d, v, L) = Current.addr
      BY <1>3, <1>5, WalkLast
    <2>2. PresentIn(mem, d, v, L)
      <3>1. PICK k \in Nat : k = L - 1 /\ k + 1 = L
        BY <1>3
      <3>2. PresentIn(mem, d, v, k) /\ mem[WalkIn(mem, d, v, k)][v[k + 1]].present
        BY <1>1, <1>4, <1>5, <3>1
      <3>3. PresentIn(mem, d, v, k + 1)
        BY <3>2, PresentStep
      <3> QED
        BY <3>1, <3>3
    <2> QED
      BY <2>1, <2>2
  <1>7. Current.addr \in 0..(free - 1)
    <2>1. /\ mem \in [Pages -> [Index -> Entry]] /\ free \in 1..(LastPage + 1) /\ dirs \subseteq 0..(free - 1)
          /\ ApartIn(mem, dirs, free)
      BY NoSharingIs DEF IInv, TypeOK
    <2> HIDE DEF v, L
    <2>2. WalkIn(mem, d, v, L) \in 0..(free - 1)
      BY <1>3, <1>6, <2>1, TablesArePages
    <2> QED
      BY <1>6, <2>2
  <1>8. call'.virt = v /\ call'.level = L + 1 /\ call'.at = Current.addr /\ call'.new = 0
    BY <1>1, <1>3, <1>4
  <1>9. TypeOK'
    <2>1. L + 1 \in 1..Depth
      BY <1>3
    <2>2. call' \in [busy : {TRUE}, virt : Virt, frame : Frames, writable : Rights,
                     level : 1..Depth, at : 0..(free - 1), new : 0..(free - 1)]
      BY <1>1, <1>3, <1>7, <2>1
    <2> QED
      BY <1>1, <2>2 DEF IInv, TypeOK
  <1>10. NoSharing'
    BY <1>1, NoSharingIs DEF IInv
  <1>11. CallOn(d)'
    <2>1. \A n : EntryAt(d, v, n)' = EntryAt(d, v, n)
      BY <1>1, InMemory DEF EntryAt
    <2>2. ASSUME NEW n \in (L + 1)..(Depth - 1), Present(d, v, n - 1), ~EntryAt(d, v, n).present
          PROVE  free + (Depth - n) <= LastPage + 1
      <3>1. n \in L..(Depth - 1)
        BY <1>3
      <3> QED
        BY <1>2, <1>4, <2>2, <3>1 DEF CallOn
    <2>3. L + 1 - 1 = L
      BY <1>3
    <2>4. Present(d, call.virt, call.level - 1)' /\ (call.at = Table(d, call.virt, call.level - 1))'
      <3> HIDE DEF v, L
      <3>0. call'.level - 1 = L
        BY <1>3, <1>8, Levels
      <3>1. PresentIn(mem', d, call'.virt, call'.level - 1) /\ call'.at = WalkIn(mem', d, call'.virt, call'.level - 1)
        BY <1>1, <1>6, <1>8, <3>0
      <3> QED
        BY <3>1, InMemory
    <2>5. \A n \in (L + 1)..(Depth - 1) : Present(d, v, n)' = Present(d, v, n)
      BY <1>1, InMemory
    <2>6. ASSUME NEW n \in call'.level..(Depth - 1),
                 Present(d, call.virt, n - 1)', ~EntryAt(d, call.virt, n).present'
          PROVE  free' + (Depth - n) <= LastPage + 1
      <3>1. n \in (L + 1)..(Depth - 1)
        BY <1>8, <2>6
      <3>2. Present(d, v, n - 1)
        BY <1>1, <1>8, <2>6, InMemory
      <3>3. ~EntryAt(d, v, n).present
        BY <1>1, <1>8, <2>6, InMemory DEF EntryAt
      <3> QED
        BY <1>1, <2>2, <3>1, <3>2, <3>3
    <2> QED
      BY <1>8, <2>4, <2>6 DEF CallOn
  <1>12. CallOK'
    BY <1>1, <1>11 DEF CallOK
  <1> QED
    BY <1>9, <1>10, <1>12 DEF IInv

\* mapPage's last store.
LEMMA StoreEntryChange ==
  ASSUME IInv, StoreEntry
  PROVE  /\ mem' \in [Pages -> [Index -> Entry]] /\ free' = free /\ dirs' = dirs /\ call' = Idle
         /\ \E d \in dirs : /\ Stores(mem, mem', Pages, d, call.virt, call.frame, call.writable)
                           /\ call.virt \in Virt /\ call.frame \in Frames /\ call.writable \in Rights
  <1> DEFINE v == call.virt
             e0 == [present |-> TRUE, addr |-> call.frame, writable |-> call.writable]
  <1>1. /\ call.busy /\ call.level = Depth
        /\ mem' = [mem EXCEPT ![call.at][v[Depth]] = e0]
        /\ call' = Idle /\ free' = free /\ dirs' = dirs
    BY DEF StoreEntry
  <1>2. PICK d \in dirs : CallOn(d)
    BY <1>1, Busy DEF IInv
  <1>3. /\ v \in [1..Depth -> Index] /\ v[Depth] \in Index
        /\ Depth - 1 \in 0..(Depth - 1) /\ Depth - 1 <= Depth /\ Depth \in Nat
        /\ free \in Nat /\ call.at \in Pages /\ e0 \in Entry
    <2>1. v \in [1..Depth -> Index]
      BY <1>1, Busy, VirtAssumption DEF IInv
    <2>2. call.at \in 0..(free - 1) /\ free \in 1..(LastPage + 1)
      BY <1>1, Busy DEF IInv, TypeOK
    <2>3. call.at \in Pages /\ free \in Nat
      BY <2>2, PageAssumption DEF Pages
    <2>4. e0 \in Entry
      BY <1>1, Busy, RightsAssumption DEF IInv, Entry
    <2> HIDE DEF v, e0
    <2> QED
      BY <2>1, <2>3, <2>4, DepthAssumption
  <1>4. PresentIn(mem, d, v, Depth - 1) /\ call.at = WalkIn(mem, d, v, Depth - 1)
    BY <1>1, <1>2, InMemory DEF CallOn
  <1>5. mem \in [Pages -> [Index -> Entry]]
    BY DEF IInv, TypeOK
  <1>6. Stores(mem, mem', Pages, d, v, call.frame, call.writable)
    <2> HIDE DEF v, e0
    <2>1. \A p \in Pages, i \in Index : mem'[p][i] = IF p = call.at /\ i = v[Depth] THEN e0 ELSE mem[p][i]
      BY <1>1, <1>3, <1>5
    <2> QED
      BY <1>3, <1>4, <2>1 DEF Stores, e0
  <1>7. mem' \in [Pages -> [Index -> Entry]]
    <2> HIDE DEF v, e0
    <2> QED
      BY <1>1, <1>3, <1>5
  <1>8. call.virt \in Virt /\ call.frame \in Frames /\ call.writable \in Rights
    BY <1>1, Busy DEF IInv
  <1> QED
    BY <1>1, <1>6, <1>7, <1>8

LEMMA StoreEntryStep == ASSUME IInv, StoreEntry PROVE IInv'
  <1>1. mem' \in [Pages -> [Index -> Entry]] /\ free' = free /\ dirs' = dirs /\ call' = Idle
    BY StoreEntryChange
  <1>2. PICK d \in dirs : Stores(mem, mem', Pages, d, call.virt, call.frame, call.writable) /\ call.virt \in [1..Depth -> Index]
    BY StoreEntryChange, VirtAssumption
  <1>3. Inside(mem, dirs, Pages) /\ Inside(mem, dirs, Nat) /\ ApartIn(mem, dirs, free)
    BY PathsInside, NoSharingIs DEF IInv
  <1>4. Steady(mem, mem', dirs)
    BY <1>2, <1>3, Stored
  <1>5. TypeOK'
    BY <1>1 DEF IInv, TypeOK
  <1>6. NoSharing'
    <2>1. free \in Nat /\ free <= free
      BY PageAssumption DEF IInv, TypeOK
    <2>2. ApartIn(mem', dirs, free)
      BY <1>3, <1>4, <2>1, SteadyApart
    <2> QED
      BY <1>1, <2>2, NoSharingIs
  <1>7. CallOK'
    BY <1>1 DEF CallOK
  <1> QED
    BY <1>5, <1>6, <1>7 DEF IInv

\* mapPage's store of a table's address.
LEMMA LinkTableChange ==
  ASSUME IInv, LinkTable
  PROVE  \E d \in dirs :
           /\ CallOn(d)
           /\ call.virt \in [1..Depth -> Index] /\ call.level \in 1..(Depth - 1)
           /\ Links(mem, mem', dirs, free, Pages, d, call.virt, call.level, call.new)
           /\ call.writable = TRUE => WritableLink(mem, mem', d, call.virt, call.level)
           /\ mem' \in [Pages -> [Index -> Entry]]
  <1> DEFINE v == call.virt
             L == call.level
             e0 == [present |-> TRUE, addr |-> call.new, writable |-> call.writable]
  <1>1. /\ call.busy /\ call.new # 0
        /\ mem' = [mem EXCEPT ![call.at][v[L]] = e0]
        /\ call' = [call EXCEPT !.new = 0] /\ free' = free /\ dirs' = dirs
    BY DEF LinkTable
  <1>2. PICK d \in dirs : CallOn(d)
    BY <1>1, Busy DEF IInv
  <1>3. /\ v \in [1..Depth -> Index] /\ L \in 1..(Depth - 1) /\ v[L] \in Index /\ L <= Depth
        /\ L - 1 \in 0..(Depth - 1) /\ L - 1 <= Depth /\ Depth \in Nat /\ LastPage \in Nat
        /\ free \in Nat \ {0} /\ call.at \in 0..(free - 1) /\ call.new \in 0..(free - 1)
        /\ call.at \in Pages /\ call.new \in Pages /\ e0 \in Entry
        /\ call \in [busy : {TRUE}, virt : Virt, frame : Frames, writable : Rights,
                     level : 1..Depth, at : 0..(free - 1), new : 0..(free - 1)]
    <2>1. v \in [1..Depth -> Index]
      BY <1>1, Busy, VirtAssumption DEF IInv
    <2>2. /\ L \in 1..Depth /\ L < Depth
          /\ call.at \in 0..(free - 1) /\ call.new \in 0..(free - 1) /\ free \in 1..(LastPage + 1)
      BY <1>1, <1>2, Busy DEF IInv, TypeOK, CallOn
    <2>3. call.at \in Pages /\ call.new \in Pages /\ free \in Nat \ {0}
      BY <2>2, PageAssumption DEF Pages
    <2>4. e0 \in Entry
      BY <1>1, <2>3, Busy, RightsAssumption DEF IInv, Entry
    <2>5. call \in [busy : {TRUE}, virt : Virt, frame : Frames, writable : Rights,
                    level : 1..Depth, at : 0..(free - 1), new : 0..(free - 1)]
      BY <1>1, Busy DEF IInv
    <2> HIDE DEF v, e0, L
    <2>6. PICK l \in 1..Depth : l = L
      BY <2>2
    <2> QED
      BY <2>1, <2>2, <2>3, <2>4, <2>5, <2>6, Levels, DepthAssumption, PageAssumption
  <1>4. /\ PresentIn(mem, d, v, L - 1) /\ call.at = WalkIn(mem, d, v, L - 1)
        /\ ~mem[WalkIn(mem, d, v, L - 1)][v[L]].present
        /\ mem[call.new] = [i \in Index |-> Zero] /\ Unreached(call.new)
        /\ free + (Depth - L) <= LastPage + 2
    BY <1>1, <1>2, InMemory DEF CallOn, Current
  <1>5. Inside(mem, dirs, Pages) /\ ApartIn(mem, dirs, free)
    BY PathsInside, NoSharingIs DEF IInv
  <1>6. \A p \in Pages, i \in Index :
          mem'[p][i] = IF p = WalkIn(mem, d, v, L - 1) /\ i = v[L] THEN e0 ELSE mem[p][i]
    <2>1. mem \in [Pages -> [Index -> Entry]]
      BY DEF IInv, TypeOK
    <2> HIDE DEF v, e0, L
    <2> QED
      BY <1>1, <1>3, <1>4, <2>1
  <1>7. /\ e0.present /\ e0.addr = call.new /\ call.new < free
        /\ \A i \in Index : ~mem[call.new][i].present
        /\ \A e \in dirs : \A q \in PathsIn(mem, e) : WalkIn(mem, e, q, Len(q)) # call.new
    <2>1. call.new < free
      BY <1>3
    <2>2. \A e \in dirs : \A q \in PathsIn(mem, e) : WalkIn(mem, e, q, Len(q)) # call.new
      BY <1>4, InMemory DEF Unreached
    <2> QED
      BY <1>4, <2>1, <2>2 DEF Zero
  <1>8. call.new # WalkIn(mem, d, v, L - 1)
    <2> HIDE DEF v, L
    <2>0. PICK l \in 0..(Depth - 1) : l = L - 1 /\ l <= Depth /\ PresentIn(mem, d, v, l)
      BY <1>3, <1>4
    <2>1. v \in [1..Depth -> Index] /\ Depth \in Nat
      BY <1>3
    <2>2. /\ Prefix(v, l) \in PathsIn(mem, d) /\ Len(Prefix(v, l)) = l
          /\ WalkIn(mem, d, Prefix(v, l), l) = WalkIn(mem, d, v, l)
      BY <2>0, <2>1, PrefixIsPath
    <2> QED
      BY <1>7, <2>0, <2>2
  <1>9. Links(mem, mem', dirs, free, Pages, d, v, L, call.new)
    <2> HIDE DEF v, L, e0
    <2> QED
      BY <1>3, <1>4, <1>5, <1>6, <1>7, <1>8 DEF Links
  <1>10. call.writable = TRUE => WritableLink(mem, mem', d, v, L)
    <2>1. e0.writable = call.writable
      OBVIOUS
    <2> HIDE DEF v, L, e0
    <2> QED
      BY <1>3, <1>4, <1>6, <2>1 DEF WritableLink
  <1>11. mem' \in [Pages -> [Index -> Entry]]
    <2>1. mem \in [Pages -> [Index -> Entry]]
      BY DEF IInv, TypeOK
    <2> HIDE DEF v, e0, L
    <2> QED
      BY <1>1, <1>3, <2>1
  <1> QED
    BY <1>2, <1>3, <1>9, <1>10, <1>11

LEMMA LinkTableStep == ASSUME IInv, LinkTable PROVE IInv'
  <1> DEFINE v == call.virt
             L == call.level
  <1>1. /\ call.busy /\ call.new # 0
        /\ call' = [call EXCEPT !.new = 0] /\ free' = free /\ dirs' = dirs
    BY DEF LinkTable
  <1>2. PICK d \in dirs :
          /\ CallOn(d) /\ v \in [1..Depth -> Index] /\ L \in 1..(Depth - 1)
          /\ Links(mem, mem', dirs, free, Pages, d, v, L, call.new)
          /\ mem' \in [Pages -> [Index -> Entry]]
    BY LinkTableChange
  <1>3. /\ v \in [1..Depth -> Index] /\ L \in 1..(Depth - 1) /\ L <= Depth
        /\ L - 1 \in 0..(Depth - 1) /\ L - 1 <= Depth /\ Depth \in Nat /\ LastPage \in Nat
        /\ free \in Nat \ {0} /\ call.new \in 0..(free - 1)
        /\ call \in [busy : {TRUE}, virt : Virt, frame : Frames, writable : Rights,
                     level : 1..Depth, at : 0..(free - 1), new : 0..(free - 1)]
    <2>1. call.new \in 0..(free - 1) /\ free \in 1..(LastPage + 1)
      BY <1>1, Busy DEF IInv, TypeOK
    <2>2. call \in [busy : {TRUE}, virt : Virt, frame : Frames, writable : Rights,
                    level : 1..Depth, at : 0..(free - 1), new : 0..(free - 1)]
      BY <1>1, Busy DEF IInv
    <2> HIDE DEF v, L
    <2>3. PICK l \in 1..(Depth - 1) : l = L
      BY <1>2
    <2>4. l <= Depth /\ l - 1 \in 0..(Depth - 1) /\ l - 1 <= Depth /\ Depth \in Nat
      BY DepthAssumption
    <2>5. free \in Nat \ {0} /\ LastPage \in Nat
      BY <2>1, PageAssumption
    <2> QED
      BY <1>2, <2>1, <2>2, <2>3, <2>4, <2>5
  <1>4. /\ PresentIn(mem, d, v, L - 1) /\ call.at = WalkIn(mem, d, v, L - 1)
        /\ Unreached(call.new) /\ free + (Depth - L) <= LastPage + 2
    BY <1>1, <1>2, InMemory DEF CallOn
  <1>5. ApartIn(mem, dirs, free)
    BY NoSharingIs DEF IInv
  <1>6. mem'[WalkIn(mem, d, v, L - 1)][v[L]].present
    BY <1>2 DEF Links
  <1>7. call.new < free /\ \A e \in dirs : \A q \in PathsIn(mem, e) : WalkIn(mem, e, q, Len(q)) # call.new
    <2>1. call.new < free
      BY <1>3
    <2> QED
      BY <1>4, <2>1, InMemory DEF Unreached
  <1>9. ASSUME NEW e \in dirs, NEW M \in Nat, NEW w \in [1..M -> Index], NEW k \in 0..Depth, k <= M
        PROVE  LinkSeen(mem, mem', d, v, L, call.new, e, w, k)
    <2> HIDE DEF v, L
    <2>1. Links(mem, mem', dirs, free, Pages, d, v, L, call.new)
      BY <1>2
    <2>2. v \in [1..Depth -> Index] /\ L \in 1..(Depth - 1)
      BY <1>3
    <2>3. \A m, m2, D, b, S, x, u, a, l :
            a \in D /\ u \in [1..Depth -> Index] /\ l \in 1..(Depth - 1) /\ Links(m, m2, D, b, S, a, u, l, x) =>
            \A f \in D, K \in Nat : \A r \in [1..K -> Index], h \in 0..Depth :
              h <= K => LinkSeen(m, m2, a, u, l, x, f, r, h)
      BY Linked
    <2>4. \A f \in dirs, K \in Nat : \A r \in [1..K -> Index], h \in 0..Depth :
              h <= K => LinkSeen(mem, mem', d, v, L, call.new, f, r, h)
      BY <2>1, <2>2, <2>3
    <2> QED
      BY <1>9, <2>4
  <1>10. TypeOK'
    <2>2. 0 \in 0..(free - 1)
      BY <1>3
    <2>3. call' \in [busy : {TRUE}, virt : Virt, frame : Frames, writable : Rights,
                     level : 1..Depth, at : 0..(free - 1), new : 0..(free - 1)]
      BY <1>1, <1>3, <2>2
    <2> QED
      BY <1>1, <1>2, <2>3 DEF IInv, TypeOK
  <1>11. NoSharing'
    <2> DEFINE New(e, q) == e = d /\ Len(q) = L /\ q \in [1..L -> Index] /\ Agree(v, q, L)
    <2>1. ASSUME NEW e \in dirs, NEW q \in PathsIn(mem', e)
          PROVE  \/ q \in PathsIn(mem, e) /\ WalkIn(mem', e, q, Len(q)) = WalkIn(mem, e, q, Len(q))
                 \/ New(e, q) /\ WalkIn(mem', e, q, Len(q)) = call.new
      <3>1. PICK n \in 0..(Depth - 1) : q \in [1..n -> Index] /\ Len(q) = n /\ PresentIn(mem', e, q, n)
        BY PathsOf
      <3>2. n \in Nat /\ n <= n /\ n \in 0..Depth /\ n \in 0..n
        BY <1>3
      <3>3. CASE PresentIn(mem, e, q, n)
        <4>1. WalkIn(mem', e, q, n) = WalkIn(mem, e, q, n)
          BY <1>9, <3>1, <3>2, <3>3 DEF LinkSeen
        <4>2. q \in PathsIn(mem, e)
          BY <3>1, <3>3, PathsOf
        <4> QED
          BY <3>1, <4>1, <4>2
      <3>4. CASE ~PresentIn(mem, e, q, n)
        <4>1. e = d /\ n = L /\ Agree(v, q, L) /\ WalkIn(mem', e, q, n) = call.new
          <5> HIDE DEF v, L
          <5> QED
            BY <1>9, <3>1, <3>2, <3>4 DEF LinkSeen
        <4> QED
          BY <3>1, <4>1
      <3> QED
        BY <3>3, <3>4
    <2>2. ASSUME NEW a, NEW e, NEW q, NEW r, New(a, q), New(e, r) PROVE <<a, q>> = <<e, r>>
      <3>1. a = e /\ q \in [1..L -> Index] /\ r \in [1..L -> Index] /\ \A k \in 1..L : q[k] = r[k]
        BY <2>2 DEF Agree
      <3> HIDE DEF v, L
      <3>2. q = r
        BY <1>3, <3>1
      <3> QED
        BY <3>1, <3>2
    <2> HIDE DEF New
    <2>3. ASSUME NEW a \in dirs, NEW e \in dirs, NEW q \in PathsIn(mem', a), NEW r \in PathsIn(mem', e)
          PROVE  /\ WalkIn(mem', a, q, Len(q)) < free
                 /\ <<a, q>> # <<e, r>> => WalkIn(mem', a, q, Len(q)) # WalkIn(mem', e, r, Len(r))
      <3>1. WalkIn(mem', a, q, Len(q)) < free
        BY <1>5, <1>7, <2>1 DEF ApartIn
      <3>2. <<a, q>> # <<e, r>> => WalkIn(mem', a, q, Len(q)) # WalkIn(mem', e, r, Len(r))
        BY <1>5, <1>7, <2>1, <2>2 DEF ApartIn
      <3> QED
        BY <3>1, <3>2
    <2>4. ApartIn(mem', dirs, free)
      BY <2>3 DEF ApartIn
    <2> QED
      BY <1>1, <2>4, NoSharingIs
  <1>12. CallOn(d)'
    <2>1. call'.virt = v /\ call'.level = L /\ call'.at = call.at /\ call'.new = 0
      BY <1>1, <1>3
    <2>2. PresentIn(mem', d, v, L - 1) /\ WalkIn(mem', d, v, L - 1) = call.at
      <3>1. L - 1 \in 0..Depth /\ L - 1 \in 0..(L - 1)
        BY <1>3
      <3> HIDE DEF v, L
      <3> QED
        BY <1>3, <1>4, <1>9, <3>1 DEF LinkSeen
    <2>4. ASSUME NEW n \in L..(Depth - 1), PresentIn(mem', d, v, n - 1),
                 ~mem'[WalkIn(mem', d, v, n - 1)][v[n]].present
          PROVE  free + (Depth - n) <= LastPage + 1
      <3>1. n # L
        BY <1>6, <2>2, <2>4, <1>4
      <3> HIDE DEF v, L
      <3>2. PICK l \in Nat : l = L
        BY <1>3
      <3> QED
        BY <1>3, <1>4, <2>4, <3>1, <3>2
    <2>5. Present(d, call.virt, call.level - 1)' /\ (call.at = Table(d, call.virt, call.level - 1))'
      <3> HIDE DEF v, L
      <3>1. PresentIn(mem', d, call'.virt, call'.level - 1) /\ call'.at = WalkIn(mem', d, call'.virt, call'.level - 1)
        BY <2>1, <2>2
      <3> QED
        BY <3>1, InMemory
    <2>6. ASSUME NEW n \in call'.level..(Depth - 1),
                 Present(d, call.virt, n - 1)', ~EntryAt(d, call.virt, n).present'
          PROVE  free' + (Depth - n) <= LastPage + 1
      <3>1. n \in L..(Depth - 1)
        BY <2>1
      <3>2. PresentIn(mem', d, v, n - 1)
        BY <2>1, <2>6, InMemory
      <3>3. ~mem'[WalkIn(mem', d, v, n - 1)][v[n]].present
        BY <2>1, <2>6, InMemory DEF EntryAt
      <3> QED
        BY <1>1, <2>4, <3>1, <3>2, <3>3
    <2> QED
      BY <2>1, <2>5, <2>6 DEF CallOn
  <1>13. CallOK'
    BY <1>1, <1>12 DEF CallOK
  <1> QED
    BY <1>10, <1>11, <1>13 DEF IInv

LEMMA OneMore ==
  ASSUME NEW n \in Nat, NEW q \in [1..n -> Index], NEW i \in Index
  PROVE  /\ Append(q, i) \in [1..(n + 1) -> Index] /\ Len(Append(q, i)) = n + 1
         /\ Agree(q, Append(q, i), n) /\ Append(q, i)[n + 1] = i
  <1>1. q \in Seq(Index) /\ Len(q) = n
    <2>1. q = [j \in 1..n |-> q[j]] /\ \A j \in 1..n : q[j] \in Index
      OBVIOUS
    <2> QED
      BY <2>1
  <1>2. /\ Append(q, i) \in Seq(Index) /\ Len(Append(q, i)) = n + 1
        /\ \A j \in 1..n : Append(q, i)[j] = q[j]
        /\ Append(q, i)[n + 1] = i
    BY <1>1, AppendProperties
  <1>3. Append(q, i) \in [1..(n + 1) -> Index]
    <2>1. \A s \in Seq(Index) : s \in [1..Len(s) -> Index]
      OBVIOUS
    <2> QED
      BY <1>2, <2>1
  <1> QED
    BY <1>2, <1>3 DEF Agree

\* clone leaves what is in use alone and copies every table of the original.
LEMMA CloneChange ==
  ASSUME IInv, NEW d \in dirs, Clone(d)
  PROVE  /\ mem' \in [Pages -> [Index -> Entry]]
         /\ Below(mem, mem', free) /\ Cloned(mem, mem', d, free)
         /\ free + Cardinality(PathsIn(mem, d)) <= LastPage + 1 /\ free < free + Cardinality(PathsIn(mem, d))
  <1> DEFINE P == PathsIn(mem, d)
             Place(q) == free + Rank(P, q)
             copy(q) == [i \in Index |-> CopyEntry(d, q, i)]
  <1>1. /\ call = Idle /\ call' = call /\ dirs' = dirs \cup {free}
        /\ free' = free + Cardinality(P) /\ free + Cardinality(P) <= LastPage + 1
        /\ \A q : Copy(d, q) = Place(q)
        /\ mem' = [p \in Pages |->
                     IF p \in {Place(q) : q \in P} THEN copy(CHOOSE q \in P : Place(q) = p) ELSE mem[p]]
    <2>1. \A q : Copy(d, q) = Place(q)
      BY InMemory DEF Copy, Rank
    <2>2. Paths(d) = P
      BY InMemory
    <2> HIDE DEF Place, P
    <2> QED
      BY <2>1, <2>2 DEF Clone
  <1>2. P \subseteq IndexSeqs /\ <<>> \in P /\ IsFiniteSet(P) /\ Cardinality(P) \in Nat
    BY PathsAreSeqs, PathsFinite, FS_CardinalityType
  <1>3. free \in Nat \ {0} /\ LastPage \in Nat /\ free \in 1..(LastPage + 1) /\ dirs \subseteq 0..(free - 1)
    BY PageAssumption DEF IInv, TypeOK
  <1>4. /\ \A q \in P : Place(q) \in Nat /\ free <= Place(q) /\ Place(q) < free + Cardinality(P)
        /\ \A q, r \in P : Place(q) = Place(r) => q = r
        /\ Place(<<>>) = free
    <2> HIDE DEF P
    <2>1. \A q \in P : Rank(P, q) \in 0..(Cardinality(P) - 1)
      BY <1>2, Ranked
    <2>2. \A q, r \in P : q # r => Rank(P, q) # Rank(P, r)
      BY <1>2, Ranked
    <2>3. Rank(P, <<>>) = 0
      BY <1>2, Ranked
    <2>4. \A q \in P : Rank(P, q) \in Nat
      BY <1>2, <2>1
    <2>5. \A q \in P : Place(q) \in Nat /\ free <= Place(q) /\ Place(q) < free + Cardinality(P)
      BY <1>2, <1>3, <2>1
    <2>6. \A q, r \in P : Place(q) = Place(r) => q = r
      BY <1>3, <2>2, <2>4
    <2> QED
      BY <1>3, <2>3, <2>5, <2>6
  <1>5. Cardinality(P) > 0
    <2> HIDE DEF P, Place
    <2>1. Place(<<>>) < free + Cardinality(P)
      BY <1>2, <1>4
    <2> QED
      BY <1>2, <1>3, <1>4, <2>1
  <1>6. \A q \in P : Place(q) \in Pages
    <2> HIDE DEF P, Place
    <2> QED
      BY <1>1, <1>2, <1>3, <1>4 DEF Pages
  <1>7. \A q \in P : mem'[Place(q)] = copy(q)
    <2> SUFFICES ASSUME NEW q \in P PROVE mem'[Place(q)] = copy(q)
      OBVIOUS
    <2> HIDE DEF P, Place, copy
    <2>1. (CHOOSE r \in P : Place(r) = Place(q)) = q
      BY <1>4
    <2> QED
      BY <1>1, <1>6, <2>1
  <1>8. \A p \in 0..(free - 1) : p \in Pages /\ mem'[p] = mem[p]
    <2> SUFFICES ASSUME NEW p \in 0..(free - 1) PROVE p \in Pages /\ mem'[p] = mem[p]
      OBVIOUS
    <2> HIDE DEF P, Place, copy
    <2>1. p \in Pages
      BY <1>3 DEF Pages
    <2>2. p \notin {Place(q) : q \in P}
      BY <1>3, <1>4
    <2> QED
      BY <1>1, <2>1, <2>2
  <1>9. Inside(mem, dirs, 0..(free - 1)) /\ Inside(mem, dirs, Pages) /\ Inside(mem, dirs, Nat) /\ ApartIn(mem, dirs, free)
    BY PathsInside, NoSharingIs DEF IInv
  <1>10. Below(mem, mem', free)
    BY <1>8 DEF Below
  <1>11. ASSUME NEW q \in P, NEW i \in Index
         PROVE  copy(q)[i] = LET e == mem[WalkIn(mem, d, q, Len(q))][i] IN
                             IF Len(q) = Depth - 1 THEN e
                             ELSE IF e.present
                                  THEN [present |-> TRUE, addr |-> Place(Append(q, i)), writable |-> TRUE]
                                  ELSE Zero
    <2>1. copy(q)[i] = CopyEntry(d, q, i)
      OBVIOUS
    <2>2. Table(d, q, Len(q)) = WalkIn(mem, d, q, Len(q)) /\ Copy(d, Append(q, i)) = Place(Append(q, i))
      BY <1>1, InMemory
    <2> HIDE DEF Place, copy, P
    <2> QED
      BY <2>1, <2>2 DEF CopyEntry
  <1>12. Cloned(mem, mem', d, free)
    <2> SUFFICES ASSUME NEW q \in P, NEW i \in Index
                 PROVE  mem'[Place(q)][i] =
                          LET e == mem[WalkIn(mem, d, q, Len(q))][i] IN
                          IF Len(q) = Depth - 1 THEN e
                          ELSE IF e.present
                               THEN [present |-> TRUE, addr |-> Place(Append(q, i)), writable |-> TRUE]
                               ELSE Zero
      BY DEF Cloned
    <2> HIDE DEF Place, copy, P
    <2> QED
      BY <1>7, <1>11
  <1>13. mem' \in [Pages -> [Index -> Entry]]
    <2>1. Zero \in Entry /\ mem \in [Pages -> [Index -> Entry]]
      BY PageAssumption DEF Zero, Entry, Pages, IInv, TypeOK
    <2>2. ASSUME NEW q \in P, NEW i \in Index PROVE copy(q)[i] \in Entry
      <3> DEFINE e == mem[WalkIn(mem, d, q, Len(q))][i]
      <3>1. WalkIn(mem, d, q, Len(q)) \in Pages
        BY <1>9 DEF Inside
      <3>2. e \in Entry
        BY <2>1, <3>1
      <3>3. ASSUME Len(q) # Depth - 1, e.present
            PROVE  [present |-> TRUE, addr |-> Place(Append(q, i)), writable |-> TRUE] \in Entry
        <4>1. Append(q, i) \in P
          <5>1. PICK n \in 0..(Depth - 1) : q \in [1..n -> Index] /\ Len(q) = n /\ PresentIn(mem, d, q, n)
            BY PathsOf
          <5>2. n \in Nat /\ n + 1 \in 0..(Depth - 1) /\ n + 1 \in Nat
            BY <3>3, <5>1, DepthAssumption
          <5>3. /\ Append(q, i) \in [1..(n + 1) -> Index] /\ Len(Append(q, i)) = n + 1
                /\ Agree(q, Append(q, i), n) /\ Append(q, i)[n + 1] = i
            BY <5>1, <5>2, OneMore
          <5>5. n \in 0..n
            BY <5>2
          <5>6. PresentIn(mem, d, Append(q, i), n) /\ WalkIn(mem, d, Append(q, i), n) = WalkIn(mem, d, q, n)
            BY <5>1, <5>2, <5>3, <5>5, SamePrefix
          <5>7. mem[WalkIn(mem, d, Append(q, i), n)][Append(q, i)[n + 1]].present
            BY <3>3, <5>1, <5>3, <5>6
          <5>8. PresentIn(mem, d, Append(q, i), n + 1)
            BY <5>2, <5>6, <5>7, PresentStep
          <5> QED
            BY <5>2, <5>3, <5>8, PathsOf
        <4>2. Place(Append(q, i)) \in Pages
          BY <1>6, <4>1
        <4> HIDE DEF Place
        <4> QED
          BY <4>2 DEF Entry
      <3> HIDE DEF Place, copy, P
      <3> QED
        BY <1>11, <2>1, <3>2, <3>3
    <2>3. \A q \in P : copy(q) \in [Index -> Entry]
      BY <2>2
    <2>4. ASSUME NEW p \in Pages, p \in {Place(q) : q \in P} PROVE (CHOOSE q \in P : Place(q) = p) \in P
      <3>1. \E q \in P : Place(q) = p
        BY <2>4
      <3> HIDE DEF P, Place
      <3> QED
        BY <3>1
    <2> HIDE DEF P, Place, copy
    <2> QED
      BY <1>1, <2>1, <2>3, <2>4
  <1>14. free < free + Cardinality(P)
    <2> HIDE DEF P
    <2> QED
      BY <1>2, <1>3, <1>5
  <1> QED
    BY <1>1, <1>10, <1>12, <1>13, <1>14

LEMMA CloneStep == ASSUME IInv, NEW d \in dirs, Clone(d) PROVE IInv'
  <1> DEFINE P == PathsIn(mem, d)
  <1>1. /\ call = Idle /\ call' = call /\ dirs' = dirs \cup {free} /\ free' = free + Cardinality(P)
    BY InMemory DEF Clone
  <1>2. /\ mem' \in [Pages -> [Index -> Entry]] /\ Below(mem, mem', free) /\ Cloned(mem, mem', d, free)
        /\ free + Cardinality(P) <= LastPage + 1 /\ free < free + Cardinality(P)
    BY CloneChange
  <1>3. free \in Nat \ {0} /\ LastPage \in Nat /\ dirs \subseteq 0..(free - 1) /\ Cardinality(P) \in Nat
    BY PathsAreSeqs, PathsFinite, FS_CardinalityType, PageAssumption DEF IInv, TypeOK
  <1>4. Inside(mem, dirs, 0..(free - 1)) /\ Inside(mem, dirs, Nat) /\ ApartIn(mem, dirs, free)
    BY PathsInside, NoSharingIs DEF IInv
  <1>5. Steady(mem, mem', dirs)
    BY <1>2, <1>4, BelowSteady
  <1>6. NoSharing'
    <2>1. free \notin dirs
      BY <1>3
    <2>2. ApartIn(mem', dirs \cup {free}, free + Cardinality(P))
      BY <1>2, <1>3, <1>4, <1>5, <2>1, ClonedApart
    <2> QED
      BY <1>1, <2>2, NoSharingIs
  <1>7. TypeOK'
    <2>1. free' \in 1..(LastPage + 1) /\ 0..(free - 1) \subseteq 0..(free' - 1) /\ free \in 0..(free' - 1)
      <3> HIDE DEF P
      <3> QED
        BY <1>1, <1>2, <1>3
    <2> QED
      BY <1>1, <1>2, <1>3, <2>1 DEF TypeOK, Idle
  <1>8. CallOK'
    BY <1>1 DEF CallOK
  <1> QED
    BY <1>6, <1>7, <1>8 DEF IInv

LEMMA StutterStep == ASSUME IInv, UNCHANGED vars PROVE IInv'
  <1>1. mem' = mem /\ free' = free /\ dirs' = dirs /\ call' = call
    BY DEF vars
  <1>2. TypeOK'
    BY <1>1 DEF IInv, TypeOK
  <1>3. NoSharing'
    BY <1>1, NoSharingIs DEF IInv
  <1>4. CallOK'
    BY <1>1, InMemory DEF IInv, CallOK, CallOn, Current, EntryAt, Unreached
  <1> QED
    BY <1>2, <1>3, <1>4 DEF IInv

LEMMA NextIInv == IInv /\ [Next]_vars => IInv'
  BY CallMapPageStep, NewTableStep, LinkTableStep, DescendStep, StoreEntryStep, CloneStep, StutterStep DEF Next

-----------------------------------------------------------------------------
\* The invariant holds of every state that mapPage and clone lead to.
THEOREM Invariance == Spec => []IInv
  BY InitIInv, NextIInv, PTL DEF Spec

\* No walk comes to a table that another walk comes to, nor to memory that
\* is not allocated: kmalloc_a moves on, and clone copies every level.
THEOREM TablesApart == Spec => []NoSharing
  <1>1. IInv => NoSharing
    BY DEF IInv
  <1> QED
    BY <1>1, Invariance, PTL

-----------------------------------------------------------------------------
(* Directories are maps of their own (AddressSpaces), if every flags value *)
(* has RW, as those of all callers have.                                   *)

\* A page that is not writable would come with a table that is not, or the
\* other way round.
AllWritable == WritableIn(mem, dirs)

MapInv == IInv /\ AllWritable

LEMMA WritableWalk ==
  ASSUME NEW m, NEW D, WritableIn(m, D), NEW e \in D, NEW w \in [1..Depth -> Index], PresentIn(m, e, w, Depth)
  PROVE  \A k \in 1..Depth : m[WalkIn(m, e, w, k - 1)][w[k]].writable
  <1>1. ASSUME NEW k \in 1..Depth PROVE m[WalkIn(m, e, w, k - 1)][w[k]].writable
    <2>1. PICK n \in 0..(Depth - 1) : n = k - 1 /\ n <= Depth /\ PresentIn(m, e, w, n)
      <3>1. k - 1 \in 0..(Depth - 1) /\ k - 1 <= Depth /\ 1..(k - 1) \subseteq 1..Depth
        BY DepthAssumption
      <3> QED
        BY <3>1 DEF PresentIn
    <2>2. /\ Prefix(w, n) \in PathsIn(m, e) /\ Len(Prefix(w, n)) = n
          /\ WalkIn(m, e, Prefix(w, n), n) = WalkIn(m, e, w, n)
      <3>1. Depth \in Nat /\ n <= Depth /\ PresentIn(m, e, w, n)
        BY <2>1, LastLevel
      <3> QED
        BY <3>1, PrefixIsPath
    <2>3. w[k] \in Index /\ m[WalkIn(m, e, w, n)][w[k]].present
      BY <2>1 DEF PresentIn
    <2> QED
      BY <2>1, <2>2, <2>3 DEF WritableIn
  <1> QED
    BY <1>1

\* What the processor finds, if all is writable.
LEMMA TranslateIs ==
  /\ AllWritable => \A d \in dirs, v \in Virt : Translate(d, v) = Seen(mem, d, v)
  /\ AllWritable' => \A d \in dirs', v \in Virt : Translate(d, v)' = Seen(mem', d, v)
  <1>1. ASSUME NEW m, NEW D, WritableIn(m, D), NEW d \in D, NEW v \in Virt, PresentIn(m, d, v, Depth)
        PROVE  /\ m[WalkIn(m, d, v, Depth - 1)][v[Depth]].addr = WalkIn(m, d, v, Depth)
               /\ (\A k \in 1..Depth : m[WalkIn(m, d, v, k - 1)][v[k]].writable) = TRUE
    <2>1. v \in [1..Depth -> Index]
      BY VirtAssumption
    <2> QED
      BY <1>1, <2>1, WritableWalk, SeenLast
  <1>2. /\ \A d, v, n : EntryAt(d, v, n) = mem[WalkIn(mem, d, v, n - 1)][v[n]]
        /\ \A d, v, n : EntryAt(d, v, n)' = mem'[WalkIn(mem', d, v, n - 1)][v[n]]
    BY InMemory DEF EntryAt
  <1>3. ASSUME AllWritable, NEW d \in dirs, NEW v \in Virt PROVE Translate(d, v) = Seen(mem, d, v)
    <2>1. CASE PresentIn(mem, d, v, Depth)
      <3>1. /\ EntryAt(d, v, Depth).addr = WalkIn(mem, d, v, Depth)
            /\ (\A k \in 1..Depth : EntryAt(d, v, k).writable) = TRUE
        BY <1>1, <1>2, <1>3, <2>1 DEF AllWritable
      <3> QED
        BY <2>1, <3>1, InMemory DEF Translate, Seen
    <2>2. CASE ~PresentIn(mem, d, v, Depth)
      BY <2>2, InMemory DEF Translate, Seen
    <2> QED
      BY <2>1, <2>2
  <1>4. ASSUME AllWritable', NEW d \in dirs', NEW v \in Virt PROVE Translate(d, v)' = Seen(mem', d, v)
    <2>1. CASE PresentIn(mem', d, v, Depth)
      <3>1. /\ EntryAt(d, v, Depth).addr' = WalkIn(mem', d, v, Depth)
            /\ (\A k \in 1..Depth : EntryAt(d, v, k).writable') = TRUE
        BY <1>1, <1>2, <1>4, <2>1 DEF AllWritable
      <3> QED
        BY <2>1, <3>1, InMemory DEF Translate, Seen
    <2>2. CASE ~PresentIn(mem', d, v, Depth)
      BY <2>2, InMemory DEF Translate, Seen
    <2> QED
      BY <2>1, <2>2
  <1> QED
    BY <1>3, <1>4

\* The maps as AddressSpaces sees them.
space == [d \in dirs |-> [v \in Virt |-> Translate(d, v)]]

LEMMA SpaceIs ==
  /\ AllWritable => space = [d \in dirs |-> [v \in Virt |-> Seen(mem, d, v)]]
  /\ AllWritable' => space' = [d \in dirs' |-> [v \in Virt |-> Seen(mem', d, v)]]
  <1>1. space = [d \in dirs |-> [v \in Virt |-> Translate(d, v)]]
    BY DEF space
  <1>2. space' = [d \in dirs' |-> [v \in Virt |-> Translate(d, v)']]
    BY DEF space
  <1>3. AllWritable => space = [d \in dirs |-> [v \in Virt |-> Seen(mem, d, v)]]
    BY <1>1, TranslateIs
  <1>4. AllWritable' => space' = [d \in dirs' |-> [v \in Virt |-> Seen(mem', d, v)]]
    BY <1>2, TranslateIs
  <1> QED
    BY <1>3, <1>4

LEMMA SameSpace ==
  ASSUME AllWritable, AllWritable', dirs' = dirs, \A d \in dirs, v \in Virt : Seen(mem', d, v) = Seen(mem, d, v)
  PROVE  space' = space
  BY SpaceIs

LEMMA InitMap ==
  ASSUME Init
  PROVE  AllWritable /\ A!Init
  <1>1. /\ dirs = {0} /\ \A i \in Index : ~mem[0][i].present
        /\ \A q \in PathsIn(mem, 0) : WalkIn(mem, 0, q, Len(q)) = 0
    BY InitPaths
  <1>2. AllWritable
    BY <1>1 DEF AllWritable, WritableIn
  <1>3. ASSUME NEW v \in Virt PROVE Seen(mem, 0, v) = Unmapped
    <2>1. 1 \in 1..Depth /\ 1 - 1 = 0 /\ v[1] \in Index
      BY DepthAssumption, VirtAssumption
    <2>2. WalkIn(mem, 0, v, 0) = 0
      BY WalkStep
    <2>3. ~PresentIn(mem, 0, v, Depth)
      BY <1>1, <2>1, <2>2 DEF PresentIn
    <2> QED
      BY <2>3 DEF Seen
  <1>4. space = [d \in {0} |-> [v \in Virt |-> Unmapped]]
    BY <1>1, <1>2, <1>3, SpaceIs
  <1>5. 0 \in DOMAIN space
    BY <1>4
  <1>6. \E d \in DOMAIN space : space = [e \in {d} |-> [v \in Virt |-> Unmapped]]
    BY <1>4, <1>5
  <1>7. A!Init
    BY <1>6 DEF A!Init, space
  <1> QED
    BY <1>2, <1>7

\* mapPage's steps above the last are seen by nobody.
LEMMA QuietMap ==
  ASSUME Rights = {TRUE}, MapInv,
         \/ \E d \in dirs, v \in Virt, f \in Frames, w \in Rights : CallMapPage(d, v, f, w)
         \/ NewTable \/ LinkTable \/ Descend \/ UNCHANGED vars
  PROVE  AllWritable' /\ space' = space
  <1>1. IInv /\ AllWritable
    BY DEF MapInv
  <1>2. Virt \subseteq [1..Depth -> Index]
    BY VirtAssumption
  <1>3. CASE mem' = mem /\ dirs' = dirs
    <2>1. AllWritable'
      BY <1>1, <1>3 DEF AllWritable
    <2> QED
      BY <1>1, <1>3, <2>1, SameSpace
  <1>4. CASE NewTable
    <2>1. Below(mem, mem', free) /\ dirs' = dirs
      BY <1>1, <1>4, NewTableChange
    <2>2. Inside(mem, dirs, 0..(free - 1))
      BY <1>1, PathsInside DEF IInv
    <2>3. /\ \A d \in dirs, v \in [1..Depth -> Index] : Seen(mem', d, v) = Seen(mem, d, v)
          /\ WritableIn(mem, dirs) => WritableIn(mem', dirs)
      BY <2>1, <2>2, BelowSteady
    <2>4. AllWritable'
      BY <1>1, <2>1, <2>3 DEF AllWritable
    <2> QED
      BY <1>1, <1>2, <2>1, <2>3, <2>4, SameSpace
  <1>5. CASE LinkTable
    <2> DEFINE v == call.virt
               L == call.level
    <2>1. PICK d \in dirs :
            /\ v \in [1..Depth -> Index] /\ L \in 1..(Depth - 1)
            /\ Links(mem, mem', dirs, free, Pages, d, v, L, call.new)
            /\ call.writable = TRUE => WritableLink(mem, mem', d, v, L)
      BY <1>1, <1>5, LinkTableChange
    <2>2. call.writable = TRUE /\ dirs' = dirs
      <3>1. call.busy /\ dirs' = dirs
        BY <1>5 DEF LinkTable
      <3> QED
        BY <1>1, <3>1, Busy DEF IInv
    <2> HIDE DEF v, L
    <2>3. \A m, m2, D, b, S, x, u, a, l :
            a \in D /\ u \in [1..Depth -> Index] /\ l \in 1..(Depth - 1) /\ Links(m, m2, D, b, S, a, u, l, x) =>
            \A e \in D, w \in [1..Depth -> Index] : Seen(m2, e, w) = Seen(m, e, w)
      BY LinkedSeen
    <2>4. \A e \in dirs, w \in [1..Depth -> Index] : Seen(mem', e, w) = Seen(mem, e, w)
      BY <2>1, <2>3
    <2>5. \A m, m2, D, b, S, x, u, a, l :
            /\ a \in D /\ u \in [1..Depth -> Index] /\ l \in 1..(Depth - 1) /\ Links(m, m2, D, b, S, a, u, l, x)
            /\ WritableIn(m, D) /\ WritableLink(m, m2, a, u, l)
            => WritableIn(m2, D)
      BY LinkedWritable
    <2>6. WritableIn(mem', dirs)
      BY <1>1, <2>1, <2>2, <2>5 DEF AllWritable
    <2>7. AllWritable'
      BY <2>2, <2>6 DEF AllWritable
    <2> QED
      BY <1>1, <1>2, <2>2, <2>4, <2>7, SameSpace
  <1>6. ASSUME \/ \E d \in dirs, v \in Virt, f \in Frames, w \in Rights : CallMapPage(d, v, f, w)
               \/ Descend \/ UNCHANGED vars
        PROVE  mem' = mem /\ dirs' = dirs
    BY <1>6 DEF CallMapPage, Descend, vars
  <1> QED
    BY <1>3, <1>4, <1>5, <1>6

\* Its last store is the change of one page of one map.
LEMMA StoreMap ==
  ASSUME Rights = {TRUE}, MapInv, StoreEntry
  PROVE  AllWritable' /\ A!Next
  <1>1. IInv /\ AllWritable
    BY DEF MapInv
  <1> DEFINE new == [frame |-> call.frame, writable |-> TRUE]
  <1>2. PICK d \in dirs, u \in Virt, f \in Frames :
          u = call.virt /\ f = call.frame /\ Stores(mem, mem', Pages, d, u, f, TRUE)
    <2>1. \E d \in dirs : /\ Stores(mem, mem', Pages, d, call.virt, call.frame, call.writable)
                        /\ call.virt \in Virt /\ call.frame \in Frames /\ call.writable = TRUE
      BY <1>1, StoreEntryChange
    <2> QED
      BY <2>1
  <1>3. dirs' = dirs /\ u \in [1..Depth -> Index]
    BY <1>1, StoreEntryChange, VirtAssumption
  <1>4. Inside(mem, dirs, Pages) /\ ApartIn(mem, dirs, free)
    BY <1>1, PathsInside, NoSharingIs DEF IInv
  <1>5. WritableIn(mem, dirs)
    BY <1>1 DEF AllWritable
  <1>6. /\ Seen(mem', d, u) = [frame |-> f, writable |-> TRUE]
        /\ \A e \in dirs, w \in [1..Depth -> Index] : e # d \/ w # u => Seen(mem', e, w) = Seen(mem, e, w)
        /\ WritableIn(mem', dirs)
    <2> HIDE DEF new
    <2>1. StoreSeen(mem, mem', dirs, d, u, f)
      BY <1>2, <1>3, <1>4, Stored
    <2>2. WritableIn(mem', dirs)
      BY <1>2, <1>3, <1>4, <1>5, Stored
    <2> QED
      BY <2>1, <2>2 DEF StoreSeen
  <1>7. AllWritable'
    BY <1>3, <1>6 DEF AllWritable
  <1>9. space' = [space EXCEPT ![d][u] = new]
    <2>1. /\ space = [a \in dirs |-> [w \in Virt |-> Seen(mem, a, w)]]
          /\ space' = [a \in dirs |-> [w \in Virt |-> Seen(mem', a, w)]]
      BY <1>1, <1>3, <1>7, SpaceIs
    <2>2. Seen(mem', d, u) = new
      BY <1>2, <1>6
    <2>3. \A a \in dirs, w \in Virt : a # d \/ w # u => Seen(mem', a, w) = Seen(mem, a, w)
      BY <1>6, VirtAssumption
    <2> HIDE DEF new
    <2>4. \A a \in dirs : [w \in Virt |-> Seen(mem', a, w)]
                            = IF a = d THEN [[w \in Virt |-> Seen(mem, a, w)] EXCEPT ![u] = new]
                              ELSE [w \in Virt |-> Seen(mem, a, w)]
      BY <2>2, <2>3
    <2> QED
      BY <2>1, <2>4
  <1>10. d \in DOMAIN space /\ new \in [frame : Frames, writable : Rights]
    BY <1>2 DEF space
  <1>11. A!MapPage(d, u, new)
    BY <1>9 DEF A!MapPage, space
  <1>12. A!Next
    BY <1>10, <1>11 DEF A!Next, space
  <1> QED
    BY <1>7, <1>12

\* A clone is a new map that begins as the original.
LEMMA CloneMap ==
  ASSUME MapInv, NEW d \in dirs, Clone(d)
  PROVE  AllWritable' /\ A!Next
  <1>1. IInv /\ AllWritable
    BY DEF MapInv
  <1>2. Below(mem, mem', free) /\ Cloned(mem, mem', d, free)
    BY <1>1, CloneChange
  <1>3. dirs' = dirs \cup {free} /\ free \notin dirs /\ free \in Nat
    <2>1. free \in 1..(LastPage + 1) /\ dirs \subseteq 0..(free - 1)
      BY <1>1 DEF IInv, TypeOK
    <2> QED
      BY <2>1, PageAssumption DEF Clone
  <1>4. Inside(mem, dirs, 0..(free - 1))
    BY <1>1, PathsInside DEF IInv
  <1>5. /\ \A e \in dirs, w \in [1..Depth -> Index] : Seen(mem', e, w) = Seen(mem, e, w)
        /\ WritableIn(mem', dirs)
    BY <1>1, <1>2, <1>4, BelowSteady DEF AllWritable
  <1>6. \A w \in [1..Depth -> Index] : Seen(mem', free, w) = Seen(mem, d, w)
    BY <1>2, <1>3, ClonedSeen
  <1>7. AllWritable'
    <2>1. WritableIn(mem', {free})
      BY <1>1, <1>2, <1>3, ClonedWritable DEF AllWritable
    <2>2. WritableIn(mem', dirs \cup {free})
      BY <1>5, <2>1 DEF WritableIn
    <2> QED
      BY <1>3, <2>2 DEF AllWritable
  <1>8. /\ space = [a \in dirs |-> [w \in Virt |-> Seen(mem, a, w)]]
        /\ space' = [a \in dirs \cup {free} |-> [w \in Virt |-> Seen(mem', a, w)]]
    BY <1>1, <1>3, <1>7, SpaceIs
  <1>9. space' = [e \in DOMAIN space \cup {free} |-> IF e = free THEN space[d] ELSE space[e]]
    <2>1. \A a \in dirs : [w \in Virt |-> Seen(mem', a, w)] = [w \in Virt |-> Seen(mem, a, w)]
      BY <1>5, VirtAssumption
    <2>2. [w \in Virt |-> Seen(mem', free, w)] = [w \in Virt |-> Seen(mem, d, w)]
      BY <1>6, VirtAssumption
    <2> QED
      BY <1>3, <1>8, <2>1, <2>2
  <1>10. d \in DOMAIN space /\ free \in DOMAIN space' /\ free \notin DOMAIN space
    BY <1>3, <1>8
  <1>11. PICK new : new = free
    OBVIOUS
  <1>12. A!Clone(d, new)
    BY <1>9, <1>10, <1>11 DEF A!Clone, space
  <1>13. A!Next
    BY <1>10, <1>11, <1>12 DEF A!Next, space
  <1> QED
    BY <1>7, <1>13

\* Every step is one of AddressSpaces, or changes no map.
LEMMA NextMap ==
  ASSUME Rights = {TRUE}
  PROVE  MapInv /\ [Next]_vars => AllWritable' /\ (A!Next \/ space' = space)
  BY QuietMap, StoreMap, CloneMap DEF Next

\* A directory is a map of its own: mapPage changes one page of one map, at
\* its last store, a clone begins as the original, and nothing else is seen
\* of either.  All callers of mapPage pass MMU_RW; were there one that does
\* not, a table it makes would take the right to write from pages that others
\* map below it.
THEOREM MapsAreIsolated ==
  ASSUME Rights = {TRUE}
  PROVE  Spec => IsolatedSpaces
  <1>1. Init => MapInv /\ A!Init
    BY InitIInv, InitMap DEF MapInv
  <1>2. MapInv /\ [Next]_vars => MapInv'
    BY NextIInv, NextMap DEF MapInv
  <1>3. MapInv /\ [Next]_vars => [A!Next]_(space)
    BY NextMap
  <1>4. MapInv /\ [Next]_vars => [A!Next]_([d \in dirs |-> [v \in Virt |-> Translate(d, v)]])
    BY <1>3 DEF space
  <1> QED
    BY <1>1, <1>2, <1>4, PTL DEF Spec, IsolatedSpaces, A!Spec
=============================================================================

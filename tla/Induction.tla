------------------------------- MODULE Induction ------------------------------
(* Facts that the proofs of several components rest on: counting up to a    *)
(* number, and functions that are computed from their last value.           *)
EXTENDS Integers, SequencesExt, FiniteSetTheorems, SequenceTheorems, TLAPS

\* What holds at 0 and of each number after one it holds of, holds of all:
\* else, of the sets 0..n for the n it does not hold of, none is the least.
LEMMA Counting ==
  ASSUME NEW N \in Nat, NEW T, T \subseteq 0..N, 0 \in T, \A n \in T : n < N => n + 1 \in T
  PROVE  T = 0..N
  <1> DEFINE Bad == (0..N) \ T
             I == {0..x : x \in Bad}
  <1> SUFFICES ASSUME Bad # {} PROVE FALSE
    OBVIOUS
  <1>1. I \subseteq FiniteSubsetsOf(Nat) /\ I # {}
    <2>1. ASSUME NEW x \in Bad PROVE 0..x \in FiniteSubsetsOf(Nat)
      <3>1. IsFiniteSet(0..x) /\ 0..x \subseteq Nat
        BY FS_Interval
      <3> QED
        BY <3>1 DEF FiniteSubsetsOf
    <2> QED
      BY <2>1
  <1> HIDE DEF I
  <1>2. PICK t \in I : \A u \in I : <<u, t>> \notin StrictSubsetOrdering(Nat)
    BY <1>1, FS_StrictSubsetOrderingWellFounded, WFMin
  <1>3. PICK x \in Bad : t = 0..x
    BY DEF I
  <1>4. x \in 1..N /\ x - 1 \in 0..N
    BY <1>3
  <1>5. x - 1 \in Bad
    <2>1. x - 1 \in T => x \in T
      BY <1>4
    <2> QED
      BY <1>3, <1>4, <2>1
  <1>6. 0..(x - 1) \in I
    BY <1>5 DEF I
  <1>7. /\ 0..(x - 1) \subseteq 0..x /\ 0..x \subseteq Nat /\ 0..(x - 1) \subseteq Nat
        /\ x \in 0..x /\ x \notin 0..(x - 1)
    BY <1>4
  <1>8. <<0..(x - 1), 0..x>> \in StrictSubsetOrdering(Nat)
    BY <1>7 DEF StrictSubsetOrdering
  <1> QED
    BY <1>2, <1>3, <1>6, <1>8

\* f[n] is what n steps lead to from s0.
Iterates(f, S, s0, step, N) ==
  f \in [0..N -> S] /\ f[0] = s0 /\ \A n \in 1..N : f[n] = step[<<n, f[n - 1]>>]

\* Steps can be taken one after another.
LEMMA Iteration ==
  ASSUME NEW S, NEW s0 \in S, NEW N \in Nat, NEW step \in [(1..N) \X S -> S]
  PROVE  \E f : Iterates(f, S, s0, step, N)
  <1> DEFINE Defined(k) == \E f \in [0..k -> S] :
                             f[0] = s0 /\ \A n \in 1..k : f[n] = step[<<n, f[n - 1]>>]
             T == {k \in 0..N : Defined(k)}
  <1>1. Defined(0)
    <2> DEFINE f == [n \in 0..0 |-> s0]
    <2>1. f \in [0..0 -> S] /\ f[0] = s0 /\ \A n \in 1..0 : FALSE
      OBVIOUS
    <2> HIDE DEF f
    <2> QED
      BY <2>1
  <1>2. ASSUME NEW k \in T, k < N PROVE Defined(k + 1)
    <2>1. PICK f \in [0..k -> S] : f[0] = s0 /\ \A n \in 1..k : f[n] = step[<<n, f[n - 1]>>]
      OBVIOUS
    <2> DEFINE g == [n \in 0..(k + 1) |-> IF n = k + 1 THEN step[<<k + 1, f[k]>>] ELSE f[n]]
    <2>2. k \in Nat /\ k \in 0..k /\ k + 1 \in 1..N
      <3>1. k \in 0..N
        OBVIOUS
      <3> QED
        BY <1>2, <3>1
    <2>3. <<k + 1, f[k]>> \in (1..N) \X S
      BY <2>2
    <2>4. g \in [0..(k + 1) -> S]
      BY <2>2, <2>3
    <2>5. ASSUME NEW n \in 1..(k + 1) PROVE g[n] = step[<<n, g[n - 1]>>]
      <3>1. n - 1 \in 0..k /\ n - 1 \in 0..(k + 1) /\ n - 1 # k + 1
        BY <2>2
      <3>2. g[n - 1] = f[n - 1]
        BY <3>1
      <3>3. CASE n = k + 1
        <4>1. n - 1 = k /\ n \in 0..(k + 1)
          BY <2>2, <3>3
        <4>2. g[n] = step[<<n, f[k]>>]
          BY <3>3, <4>1
        <4> HIDE DEF g
        <4> QED
          BY <3>2, <4>1, <4>2
      <3>4. CASE n # k + 1
        <4>1. n \in 1..k
          BY <2>2, <3>4
        <4> QED
          BY <2>1, <3>2, <3>4, <4>1
      <3> QED
        BY <3>3, <3>4
    <2>6. g[0] = s0
      BY <2>1, <2>2
    <2> HIDE DEF g
    <2> QED
      BY <2>4, <2>5, <2>6
  <1> HIDE DEF Defined
  <1>3. 0 \in T /\ \A k \in T : k < N => k + 1 \in T
    BY <1>1, <1>2
  <1>4. T = 0..N
    BY <1>3, Counting
  <1>5. Defined(N)
    BY <1>4
  <1> QED
    BY <1>5 DEF Defined, Iterates

-----------------------------------------------------------------------------
(* Sequences that FlattenSeq puts together.                                 *)

\* flat[i] is what the first i of n sequences are together.
Flattens(flat, S, n, seqs) ==
  /\ flat \in [0..n -> Seq(S)] /\ flat[0] = << >> /\ flat[n] = FlattenSeq(seqs)
  /\ \A i \in 1..n : flat[i] = flat[i - 1] \o seqs[i]

\* FlattenSeq puts one sequence after another.
LEMMA FlattenIs ==
  ASSUME NEW S, NEW n \in Nat, NEW seqs \in [1..n -> Seq(S)]
  PROVE  \E flat : Flattens(flat, S, n, seqs)
  <1> DEFINE step == [is \in (1..n) \X Seq(S) |-> is[2] \o seqs[is[1]]]
             Rec(f) == f = [i \in 1..n |-> IF i = 1 THEN seqs[i] ELSE f[i - 1] \o seqs[i]]
             flatten == CHOOSE f : Rec(f)
  <1>1. << >> \in Seq(S) /\ \A i \in 1..n, s \in Seq(S) : s \o seqs[i] \in Seq(S) /\ << >> \o seqs[i] = seqs[i]
    BY ConcatProperties, ConcatEmptySeq, EmptySeq
  <1>2. step \in [(1..n) \X Seq(S) -> Seq(S)]
    BY <1>1
  <1>3. \A i \in 1..n, s \in Seq(S) : step[<<i, s>>] = s \o seqs[i]
    OBVIOUS
  <1> HIDE DEF step
  <1>4. PICK flat : Iterates(flat, Seq(S), << >>, step, n)
    BY <1>1, <1>2, Iteration
  <1>5. /\ flat \in [0..n -> Seq(S)] /\ flat[0] = << >>
        /\ \A i \in 1..n : flat[i] = flat[i - 1] \o seqs[i]
    <2>1. flat \in [0..n -> Seq(S)] /\ flat[0] = << >> /\ \A i \in 1..n : flat[i] = step[<<i, flat[i - 1]>>]
      BY <1>4 DEF Iterates
    <2>2. \A i \in 1..n : flat[i - 1] \in Seq(S)
      <3>1. \A i \in 1..n : i - 1 \in 0..n
        OBVIOUS
      <3> QED
        BY <2>1, <3>1
    <2> QED
      BY <1>3, <2>1, <2>2
  <1>6. flat[n] = FlattenSeq(seqs)
    <2>1. Len(seqs) = n /\ DOMAIN seqs = 1..n
      OBVIOUS
    <2>2. CASE n = 0
      <3>1. seqs = << >>
        BY <2>2
      <3> QED
        BY <1>5, <2>1, <2>2, <3>1 DEF FlattenSeq
    <2>3. CASE n # 0
      <3>1. FlattenSeq(seqs) = flatten[n]
        BY <2>1, <2>3 DEF FlattenSeq
      <3> DEFINE made == [i \in 1..n |-> flat[i]]
      <3>2. Rec(made)
        <4>1. ASSUME NEW i \in 1..n PROVE made[i] = IF i = 1 THEN seqs[i] ELSE made[i - 1] \o seqs[i]
          <5>1. CASE i = 1
            <6>1. flat[i] = flat[i - 1] \o seqs[i]
              BY <1>5
            <6>2. i - 1 = 0
              BY <5>1
            <6>3. flat[i] = << >> \o seqs[i]
              BY <1>5, <6>1, <6>2
            <6> QED
              BY <1>1, <5>1, <6>3
          <5>2. CASE i # 1
            <6>1. i - 1 \in 1..n
              BY <5>2
            <6> QED
              BY <1>5, <5>2, <6>1
          <5> QED
            BY <5>1, <5>2
        <4> HIDE DEF made
        <4>2. made = [i \in 1..n |-> made[i]]
          BY DEF made
        <4> QED
          BY <4>1, <4>2
      <3> HIDE DEF Rec, made
      <3>3. Rec(flatten)
        BY <3>2
      <3> HIDE DEF flatten
      <3>4. \A i \in 1..n : flatten[i] = IF i = 1 THEN seqs[i] ELSE flatten[i - 1] \o seqs[i]
        BY <3>3 DEF Rec
      <3> DEFINE T == {i \in 0..n : i = 0 \/ flatten[i] = flat[i]}
      <3>5. ASSUME NEW i \in T, i < n PROVE i + 1 \in T
        <4>1. PICK m \in 1..n : m = i + 1 /\ m - 1 = i /\ m \in 0..n
          BY <3>5
        <4>2. flat[m] = flat[i] \o seqs[m]
          BY <1>5, <4>1
        <4>3. CASE i = 0
          <5>1. flat[m] = seqs[m]
            BY <1>1, <1>5, <4>2, <4>3
          <5> QED
            BY <3>4, <4>1, <4>3, <5>1
        <4>4. CASE i # 0
          <5>1. m # 1 /\ flatten[i] = flat[i]
            BY <4>1, <4>4
          <5>2. flatten[m] = flatten[i] \o seqs[m]
            BY <3>4, <4>1, <5>1
          <5> QED
            BY <4>1, <4>2, <5>1, <5>2
        <4> QED
          BY <4>3, <4>4
      <3>6. T = 0..n
        <4>1. T \subseteq 0..n /\ 0 \in T
          OBVIOUS
        <4> HIDE DEF T
        <4> QED
          BY <3>5, <4>1, Counting
      <3>7. n \in T
        BY <3>6
      <3> QED
        BY <2>3, <3>1, <3>7
    <2> QED
      BY <2>2, <2>3
  <1> QED
    BY <1>5, <1>6 DEF Flattens

Ranks(S) == [S -> Int]

\* All of s is below all of t.
Beneath(s, t, rank) == \A x \in Range(s), y \in Range(t) : rank[x] < rank[y]

\* The elements of s are in the order of their ranks.
Ascending(s, rank) == \A i, j \in DOMAIN s : i < j => rank[s[i]] < rank[s[j]]

\* Two sequences in order, the second behind the first.
LEMMA ConcatAscending ==
  ASSUME NEW S, NEW rank \in Ranks(S), NEW s \in Seq(S), NEW t \in Seq(S),
         Ascending(s, rank), Ascending(t, rank), Beneath(s, t, rank)
  PROVE  s \o t \in Seq(S) /\ Ascending(s \o t, rank) /\ Range(s \o t) = Range(s) \cup Range(t)
  <1>1. /\ DOMAIN s = 1..Len(s) /\ DOMAIN t = 1..Len(t) /\ DOMAIN (s \o t) = 1..(Len(s) + Len(t))
        /\ Len(s) \in Nat /\ Len(t) \in Nat /\ s \o t \in Seq(S)
    BY ConcatProperties, LenProperties
  <1>2. /\ \A i \in 1..Len(s) : i \in 1..(Len(s) + Len(t)) /\ (s \o t)[i] = s[i]
        /\ \A i \in 1..Len(t) : Len(s) + i \in 1..(Len(s) + Len(t)) /\ (s \o t)[Len(s) + i] = t[i]
    <2>1. \A i \in 1..Len(s) + Len(t) : (s \o t)[i] = IF i <= Len(s) THEN s[i] ELSE t[i - Len(s)]
      BY ConcatProperties
    <2>2. PICK n \in Nat, m \in Nat : n = Len(s) /\ m = Len(t)
      BY <1>1
    <2>3. ASSUME NEW i \in 1..n PROVE i \in 1..(n + m) /\ (s \o t)[i] = s[i]
      BY <2>1, <2>2
    <2>4. ASSUME NEW i \in 1..m PROVE n + i \in 1..(n + m) /\ (s \o t)[n + i] = t[i]
      <3>1. n + i \in 1..(n + m) /\ ~(n + i <= n) /\ n + i - n = i
        OBVIOUS
      <3> QED
        BY <2>1, <2>2, <3>1
    <2> QED
      BY <2>2, <2>3, <2>4
  <1>3. \A i \in 1..(Len(s) + Len(t)) : \/ i \in 1..Len(s)
                                        \/ \E k \in 1..Len(t) : i = Len(s) + k
    <2>1. PICK n \in Nat, m \in Nat : n = Len(s) /\ m = Len(t)
      BY <1>1
    <2>2. ASSUME NEW i \in 1..(n + m), i \notin 1..n PROVE \E k \in 1..m : i = n + k
      <3>1. i - n \in 1..m /\ i = n + (i - n)
        BY <2>2
      <3> QED
        BY <3>1
    <2> QED
      BY <2>1, <2>2
  <1>4. Range(s \o t) = Range(s) \cup Range(t)
    <2>1. ASSUME NEW x \in Range(s \o t) PROVE x \in Range(s) \cup Range(t)
      <3>1. PICK i \in 1..(Len(s) + Len(t)) : x = (s \o t)[i]
        BY <1>1 DEF Range
      <3> QED
        BY <1>1, <1>2, <1>3, <3>1 DEF Range
    <2>2. ASSUME NEW x \in Range(s) PROVE x \in Range(s \o t)
      BY <1>1, <1>2 DEF Range
    <2>3. ASSUME NEW x \in Range(t) PROVE x \in Range(s \o t)
      BY <1>1, <1>2 DEF Range
    <2> QED
      BY <2>1, <2>2, <2>3
  <1>5. ASSUME NEW i \in DOMAIN (s \o t), NEW j \in DOMAIN (s \o t), i < j
        PROVE  rank[(s \o t)[i]] < rank[(s \o t)[j]]
    <2>1. CASE i \in 1..Len(s) /\ j \in 1..Len(s)
      BY <1>1, <1>2, <1>5, <2>1 DEF Ascending
    <2>2. CASE i \in 1..Len(s) /\ j \notin 1..Len(s)
      <3>1. PICK k \in 1..Len(t) : j = Len(s) + k
        BY <1>1, <1>3, <2>2
      <3>2. (s \o t)[i] \in Range(s) /\ (s \o t)[j] \in Range(t)
        BY <1>1, <1>2, <2>2, <3>1 DEF Range
      <3> QED
        BY <3>2 DEF Beneath
    <2>3. CASE i \notin 1..Len(s)
      <3>1. PICK k \in 1..Len(t) : i = Len(s) + k
        BY <1>1, <1>3, <2>3
      <3>2. j \notin 1..Len(s)
        BY <1>1, <1>5, <2>3
      <3>3. PICK l \in 1..Len(t) : j = Len(s) + l
        BY <1>1, <1>3, <3>2
      <3>4. k < l
        BY <1>1, <1>5, <3>1, <3>3
      <3>5. rank[t[k]] < rank[t[l]]
        BY <1>1, <3>4 DEF Ascending
      <3> QED
        BY <1>2, <3>1, <3>3, <3>5
    <2> QED
      BY <2>1, <2>2, <2>3
  <1> QED
    BY <1>1, <1>4, <1>5 DEF Ascending

\* n sequences in order, each behind those before it.
Orderly(seqs, n, S, rank) ==
  /\ seqs \in [1..n -> Seq(S)]
  /\ \A i \in 1..n : Ascending(seqs[i], rank)
  /\ \A i, j \in 1..n : i < j => Beneath(seqs[i], seqs[j], rank)

\* Put together, they are in order.
LEMMA FlattenAscending ==
  ASSUME NEW S, NEW rank \in Ranks(S), NEW n \in Nat, NEW seqs, Orderly(seqs, n, S, rank)
  PROVE  /\ FlattenSeq(seqs) \in Seq(S) /\ Ascending(FlattenSeq(seqs), rank)
         /\ Range(FlattenSeq(seqs)) = UNION {Range(seqs[i]) : i \in 1..n}
  <1>1. PICK flat : Flattens(flat, S, n, seqs)
    BY FlattenIs DEF Orderly
  <1>2. /\ flat \in [0..n -> Seq(S)] /\ flat[0] = << >> /\ flat[n] = FlattenSeq(seqs)
        /\ \A i \in 1..n : flat[i] = flat[i - 1] \o seqs[i]
    BY <1>1 DEF Flattens
  <1>o. /\ seqs \in [1..n -> Seq(S)]
        /\ \A i \in 1..n : Ascending(seqs[i], rank)
        /\ \A i, j \in 1..n : i < j => Beneath(seqs[i], seqs[j], rank)
    BY DEF Orderly
  <1> DEFINE Right(k) == Ascending(flat[k], rank) /\ Range(flat[k]) = UNION {Range(seqs[i]) : i \in 1..k}
             T == {k \in 0..n : Right(k)}
  <1>3. Right(0)
    <2>1. DOMAIN flat[0] = {} /\ Range(flat[0]) = {}
      BY <1>2 DEF Range
    <2>2. \A i \in 1..0 : FALSE
      OBVIOUS
    <2> QED
      BY <2>1, <2>2 DEF Ascending
  <1>4. ASSUME NEW k \in T, k < n PROVE k + 1 \in T
    <2>1. PICK m \in 1..n : m = k + 1 /\ m - 1 = k /\ m \in 0..n
      BY <1>4
    <2>2. Ascending(flat[k], rank) /\ Range(flat[k]) = UNION {Range(seqs[i]) : i \in 1..k}
      OBVIOUS
    <2>3. Beneath(flat[k], seqs[m], rank)
      <3>1. \A i \in 1..k : i \in 1..n /\ i < m
        BY <2>1
      <3> QED
        BY <1>o, <2>2, <3>1 DEF Beneath
    <2>4. PICK s \in Seq(S), t \in Seq(S) : s = flat[k] /\ t = seqs[m] /\ flat[m] = s \o t
      BY <1>2, <1>o, <2>1
    <2>5. Ascending(flat[m], rank) /\ Range(flat[m]) = Range(flat[k]) \cup Range(seqs[m])
      <3>1. Ascending(s, rank) /\ Ascending(t, rank) /\ Beneath(s, t, rank)
        BY <1>o, <2>2, <2>3, <2>4
      <3>2. Ascending(s \o t, rank) /\ Range(s \o t) = Range(s) \cup Range(t)
        BY <3>1, ConcatAscending
      <3> QED
        BY <2>4, <3>2
    <2>6. 1..m = (1..k) \cup {m}
      BY <2>1
    <2>7. Range(flat[m]) = UNION {Range(seqs[i]) : i \in 1..m}
      BY <2>2, <2>5, <2>6
    <2> QED
      BY <2>1, <2>5, <2>7
  <1> HIDE DEF Right
  <1>5. T \subseteq 0..n /\ 0 \in T
    BY <1>3
  <1> HIDE DEF T
  <1>6. T = 0..n
    BY <1>4, <1>5, Counting
  <1>7. n \in T
    BY <1>6
  <1> QED
    BY <1>2, <1>7 DEF T, Right

\* One more sequence at the end.
LEMMA FlattenLonger ==
  ASSUME NEW S, NEW n \in Nat, NEW seqs \in [1..(n + 1) -> Seq(S)]
  PROVE  FlattenSeq(seqs) = FlattenSeq([i \in 1..n |-> seqs[i]]) \o seqs[n + 1]
  <1> DEFINE short == [i \in 1..n |-> seqs[i]]
  <1>1. PICK f : Flattens(f, S, n + 1, seqs)
    <2>1. n + 1 \in Nat
      OBVIOUS
    <2> QED
      BY <2>1, FlattenIs
  <1>2. short \in [1..n -> Seq(S)]
    OBVIOUS
  <1>3. \A i \in 1..n : short[i] = seqs[i]
    OBVIOUS
  <1> HIDE DEF short
  <1>4. PICK g : Flattens(g, S, n, short)
    BY <1>2, FlattenIs
  <1>5. /\ f[0] = << >> /\ f[n + 1] = FlattenSeq(seqs) /\ g[0] = << >> /\ g[n] = FlattenSeq(short)
        /\ \A i \in 1..(n + 1) : f[i] = f[i - 1] \o seqs[i]
        /\ \A i \in 1..n : g[i] = g[i - 1] \o seqs[i]
    BY <1>1, <1>3, <1>4 DEF Flattens
  <1> DEFINE T == {i \in 0..n : f[i] = g[i]}
  <1>6. ASSUME NEW i \in T, i < n PROVE i + 1 \in T
    <2>1. PICK m \in 1..n : m = i + 1 /\ m - 1 = i /\ m \in 0..n /\ m \in 1..(n + 1)
      BY <1>6
    <2> QED
      BY <1>5, <2>1
  <1>7. T \subseteq 0..n /\ 0 \in T
    BY <1>5
  <1>8. f[n] = g[n]
    <2> HIDE DEF T
    <2>1. T = 0..n
      BY <1>6, <1>7, Counting
    <2>2. n \in T
      BY <2>1
    <2> QED
      BY <2>2 DEF T
  <1>9. f[n + 1] = f[n] \o seqs[n + 1]
    <2>1. PICK m \in 1..(n + 1) : m = n + 1 /\ m - 1 = n
      OBVIOUS
    <2> QED
      BY <1>5, <2>1
  <1> QED
    BY <1>5, <1>8, <1>9 DEF short
=============================================================================

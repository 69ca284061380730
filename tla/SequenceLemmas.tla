----------------------------- MODULE SequenceLemmas -----------------------------
(***************************************************************************)
(* What proofs about sequences of segments need: induction over the        *)
(* naturals for a set of numbers, and where FlattenSeq (community module   *)
(* SequencesExt) puts the elements of each segment.                        *)
(***************************************************************************)
EXTENDS SequencesExt, SequenceTheorems, WellFoundedInduction, TLAPS

\* A set of numbers that has 0 and with each number the next has them all.
LEMMA SetInduction ==
    ASSUME NEW S, 0 \in S, \A n \in Nat : n \in S => n + 1 \in S
    PROVE  Nat \subseteq S
<1> SUFFICES ASSUME Nat \ S # {} PROVE FALSE
    BY Zenon
<1>1. PICK m \in Nat \ S : \A k \in Nat \ S : <<k, m>> \notin OpToRel(<, Nat)
    <2>1. Nat \ S \subseteq Nat
        BY Zenon
    <2> QED BY <2>1, WFMin, NatLessThanWellFounded, Zenon
<1>2. \A k \in Nat \ S : ~(k < m)
    BY <1>1, Zenon DEF OpToRel
<1>3. m \in Nat /\ m \notin S
    BY <1>1, Zenon
<1>4. m # 0 /\ m - 1 \in Nat
    BY <1>3
<1>5. m - 1 \in S
    BY <1>2, <1>4
<1>6. (m - 1) + 1 \in S
    BY <1>4, <1>5, Zenon
<1> QED BY <1>3, <1>6

\* A set of numbers that is not empty has a least one.
LEMMA MinIsLeast ==
    ASSUME NEW S \in SUBSET Nat, S # {}
    PROVE  Min(S) \in S /\ \A k \in S : Min(S) <= k
<1>1. PICK m \in S : \A k \in S : <<k, m>> \notin OpToRel(<, Nat)
    BY WFMin, NatLessThanWellFounded, Zenon
<1>2. \A k \in S : ~(k < m)
    BY <1>1, Zenon DEF OpToRel
<1>3. \A k \in S : m <= k
    BY <1>2
<1> QED BY <1>3 DEF Min

\* It is the only one that is below all others.
LEMMA MinIs ==
    ASSUME NEW S \in SUBSET Nat, NEW m \in S, \A k \in S : m <= k
    PROVE  Min(S) = m
<1>1. Min(S) \in S /\ Min(S) <= m
    BY MinIsLeast
<1>2. m <= Min(S) /\ Min(S) \in Nat /\ m \in Nat
    BY <1>1
<1> HIDE DEF Min
<1> QED BY <1>1, <1>2

\* A part of one element.
LEMMA SubSeqOfOne ==
    ASSUME NEW T, NEW s \in Seq(T), NEW m \in 1 .. Len(s)
    PROVE  SubSeq(s, m, m) = <<s[m]>>
<1> DEFINE u == SubSeq(s, m, m)
           v == <<s[m]>>
<1>1. u = [i \in 1 .. 1 |-> s[i + m - 1]]
    OBVIOUS
<1>2. u \in Seq(T) /\ Len(u) = 1 /\ u[1] = s[m]
    BY <1>1
<1>3. v \in Seq(T) /\ Len(v) = 1 /\ v[1] = s[m]
    OBVIOUS
<1> HIDE DEF u, v
<1>4. u = v
    BY <1>2, <1>3, SeqEqual
<1> QED BY <1>4 DEF u, v

\* The beginnings of a sequence: the empty one, each with one more, and all.
LEMMA Beginnings ==
    ASSUME NEW T, NEW s \in Seq(T)
    PROVE  /\ SubSeq(s, 1, 0) = <<>>
           /\ \A i \in 0 .. Len(s) - 1 :
                 /\ SubSeq(s, 1, i) \in Seq(T)
                 /\ s[i + 1] \in T
                 /\ SubSeq(s, 1, i + 1) = Append(SubSeq(s, 1, i), s[i + 1])
           /\ SubSeq(s, 1, Len(s)) = s
<1>1. SubSeq(s, 1, 0) = <<>>
    BY SubSeqEmpty
<1>2. ASSUME NEW i \in 0 .. Len(s) - 1
      PROVE  /\ SubSeq(s, 1, i) \in Seq(T)
             /\ s[i + 1] \in T
             /\ SubSeq(s, 1, i + 1) = Append(SubSeq(s, 1, i), s[i + 1])
    <2> DEFINE k == i + 1
               x == SubSeq(s, 1, i)
    <2>1. k \in 1 .. Len(s) /\ 1 \in 1 .. Len(s) /\ k - 1 = i /\ Len(s) \in Nat
        OBVIOUS
    <2>2. s[k] \in T
        BY <2>1, ElementOfSeq
    <2>3. x \in Seq(T)
        <3>1. 1 \in Int /\ i \in Int /\ \A j \in 1 .. i : s[j] \in T
            <4> SUFFICES ASSUME NEW j \in 1 .. i PROVE s[j] \in T
                OBVIOUS
            <4>1. j \in 1 .. Len(s)
                BY <2>1
            <4> QED BY <4>1, ElementOfSeq
        <3> QED BY <3>1, SubSeqProperties
    <2> HIDE DEF k
    <2>4. SubSeq(s, 1, k) = SubSeq(s, 1, k - 1) \o <<s[k]>>
        BY <2>1, SubSeqRecursiveSecond
    <2>5. SubSeq(s, 1, k) = x \o <<s[k]>>
        BY <2>1, <2>4, Zenon
    <2> HIDE DEF x
    <2>6. x \o <<s[k]>> = Append(x, s[k])
        BY <2>2, <2>3
    <2> QED BY <2>2, <2>3, <2>5, <2>6, Zenon DEF k, x
<1>3. SubSeq(s, 1, Len(s)) = s
    BY SubSeqFull
<1> QED BY <1>1, <1>2, <1>3

\* The concatenations of the first segments, one by one.
Sums(F, ss) ==
    /\ F[0] = <<>>
    /\ \A i \in 0 .. Len(ss) - 1 : F[i + 1] = F[i] \o ss[i + 1]

\* They exist,
LEMMA SumsExist ==
    ASSUME NEW T, NEW ss \in Seq(Seq(T))
    PROVE  \E F \in [0 .. Len(ss) -> Seq(T)] : Sums(F, ss)
<1> DEFINE Summed(F, n) ==
        /\ F \in [0 .. n -> Seq(T)]
        /\ F[0] = <<>>
        /\ \A i \in 0 .. n - 1 : F[i + 1] = F[i] \o ss[i + 1]
    S == {n \in Nat : n <= Len(ss) => \E F : Summed(F, n)}
<1> HIDE DEF Summed
<1>1. 0 \in S
    <2> DEFINE G == [i \in 0 .. 0 |-> <<>>]
    <2>1. G \in [0 .. 0 -> Seq(T)] /\ G[0] = <<>>
        OBVIOUS
    <2> HIDE DEF G
    <2>2. Summed(G, 0)
        BY <2>1 DEF Summed
    <2> QED BY <2>2
<1>2. ASSUME NEW n \in Nat, n \in S PROVE n + 1 \in S
    <2> SUFFICES ASSUME n + 1 <= Len(ss) PROVE \E F : Summed(F, n + 1)
        OBVIOUS
    <2>0. n <= Len(ss)
        OBVIOUS
    <2>1. PICK F : Summed(F, n)
        BY <1>2, <2>0
    <2> DEFINE next == F[n] \o ss[n + 1]
               G == [i \in 0 .. n + 1 |-> IF i = n + 1 THEN next ELSE F[i]]
    <2>2. next \in Seq(T)
        <3>1. ss[n + 1] \in Seq(T) /\ F[n] \in Seq(T)
            BY <2>1 DEF Summed
        <3> QED BY <3>1
    <2>3. G \in [0 .. n + 1 -> Seq(T)]
        BY <2>1, <2>2 DEF Summed
    <2>4. G[0] = <<>>
        BY <2>1 DEF Summed
    <2>5. ASSUME NEW i \in 0 .. (n + 1) - 1 PROVE G[i + 1] = G[i] \o ss[i + 1]
        <3>1. CASE i = n
            <4> HIDE DEF next
            <4>1. G[n + 1] = next /\ G[n] = F[n]
                OBVIOUS
            <4> QED BY <3>1, <4>1 DEF next
        <3>2. CASE i # n
            <4>1. i \in 0 .. n - 1
                BY <3>2
            <4>2. F[i + 1] = F[i] \o ss[i + 1]
                BY <2>1, <4>1, Zenon DEF Summed
            <4>3. G[i + 1] = F[i + 1] /\ G[i] = F[i]
                BY <4>1
            <4> QED BY <4>2, <4>3, Zenon
        <3> QED BY <3>1, <3>2
    <2> HIDE DEF G
    <2>6. Summed(G, n + 1)
        BY <2>3, <2>4, <2>5 DEF Summed
    <2> QED BY <2>6
<1>3. Nat \subseteq S
    <2> HIDE DEF S
    <2> QED BY <1>1, <1>2, SetInduction, Zenon
<1>4. PICK F : Summed(F, Len(ss))
    BY <1>3
<1> QED BY <1>4 DEF Summed, Sums

\* and the last one is what FlattenSeq returns.
LEMMA FlattenIsLast ==
    ASSUME NEW T, NEW ss \in Seq(Seq(T)),
           NEW F \in [0 .. Len(ss) -> Seq(T)], Sums(F, ss)
    PROVE  FlattenSeq(ss) = F[Len(ss)]
<1>1. CASE Len(ss) = 0
    BY <1>1 DEF FlattenSeq, Sums
<1>2. CASE Len(ss) # 0
    <2> DEFINE R(g) == g = [i \in 1 .. Len(ss) |-> IF i = 1 THEN ss[i] ELSE g[i - 1] \o ss[i]]
               H == [i \in 1 .. Len(ss) |-> F[i]]
               flatten == CHOOSE g : R(g)
    <2>1. F[1] = ss[1]
        <3>1. 0 \in 0 .. Len(ss) - 1 /\ ss[1] \in Seq(T) /\ 0 + 1 = 1
            BY <1>2
        <3>2. F[0 + 1] = F[0] \o ss[0 + 1] /\ F[0] = <<>>
            BY <3>1, Zenon DEF Sums
        <3>3. <<>> \o ss[1] = ss[1]
            BY <3>1, ConcatEmptySeq
        <3> QED BY <3>1, <3>2, <3>3, Zenon
    <2>2. R(H)
        <3>1. ASSUME NEW i \in 1 .. Len(ss), i # 1 PROVE H[i] = H[i - 1] \o ss[i]
            <4>1. /\ i - 1 \in 0 .. Len(ss) - 1
                  /\ i - 1 \in 1 .. Len(ss)
                  /\ (i - 1) + 1 = i
                BY <3>1
            <4>2. F[(i - 1) + 1] = F[i - 1] \o ss[(i - 1) + 1]
                BY <4>1, Zenon DEF Sums
            <4> QED BY <4>1, <4>2
        <3>2. H[1] = ss[1]
            BY <1>2, <2>1
        <3>3. H = [i \in 1 .. Len(ss) |-> H[i]]
            OBVIOUS
        <3> HIDE DEF H
        <3> QED BY <3>1, <3>2, <3>3
    <2>3. R(flatten)
        <3> HIDE DEF R
        <3> QED BY <2>2
    <2>4. FlattenSeq(ss) = flatten[Len(ss)]
        BY <1>2 DEF FlattenSeq
    <2> HIDE DEF flatten, H
    <2> DEFINE S == {n \in Nat : n + 1 \in 1 .. Len(ss) => flatten[n + 1] = F[n + 1]}
    <2>5. 0 \in S
        <3>1. 1 \in 1 .. Len(ss)
            BY <1>2
        <3>2. flatten[1] = ss[1]
            BY <2>3, <3>1
        <3> QED BY <2>1, <3>2
    <2>6. ASSUME NEW n \in Nat, n \in S PROVE n + 1 \in S
        <3> SUFFICES ASSUME n + 2 \in 1 .. Len(ss) PROVE flatten[n + 2] = F[n + 2]
            OBVIOUS
        <3>1. flatten[n + 1] = F[n + 1]
            BY <2>6
        <3>2. flatten[n + 2] = flatten[(n + 2) - 1] \o ss[n + 2]
            <4> DEFINE k == n + 2
            <4>1. k \in 1 .. Len(ss) /\ k # 1
                OBVIOUS
            <4> HIDE DEF k
            <4>2. flatten[k] = flatten[k - 1] \o ss[k]
                BY <2>3, <4>1
            <4> QED BY <4>2 DEF k
        <3>3. F[(n + 1) + 1] = F[n + 1] \o ss[(n + 1) + 1]
            <4>1. n + 1 \in 0 .. Len(ss) - 1
                OBVIOUS
            <4> QED BY <4>1, Zenon DEF Sums
        <3>4. (n + 2) - 1 = n + 1 /\ (n + 1) + 1 = n + 2
            OBVIOUS
        <3> QED BY <3>1, <3>2, <3>3, <3>4, Zenon
    <2>7. Nat \subseteq S
        <3> HIDE DEF S
        <3> QED BY <2>5, <2>6, SetInduction, Zenon
    <2>8. Len(ss) - 1 \in Nat /\ (Len(ss) - 1) + 1 = Len(ss) /\ Len(ss) \in 1 .. Len(ss)
        BY <1>2
    <2>9. Len(ss) - 1 \in S
        BY <2>7, <2>8, Zenon
    <2> QED BY <2>4, <2>8, <2>9
<1> QED BY <1>1, <1>2

\* Where the elements of s and of t are in s \o t.
LEMMA ConcatTells ==
    ASSUME NEW T, NEW s \in Seq(T), NEW t \in Seq(T)
    PROVE  /\ s \o t \in Seq(T)
           /\ Len(s) \in Nat /\ Len(t) \in Nat
           /\ Len(s \o t) = Len(s) + Len(t)
           /\ \A k \in 1 .. Len(s) : k \in 1 .. Len(s \o t) /\ (s \o t)[k] = s[k]
           /\ \A k \in 1 .. Len(t) :
                 Len(s) + k \in 1 .. Len(s \o t) /\ (s \o t)[Len(s) + k] = t[k]
OBVIOUS

\* Where segment i of ss begins in what FlattenSeq makes of it.
Layout(at, ss) ==
    /\ at[1] = 0
    /\ \A i \in 1 .. Len(ss) :
          /\ at[i + 1] = at[i] + Len(ss[i])
          /\ \A j \in 1 .. Len(ss[i]) : FlattenSeq(ss)[at[i] + j] = ss[i][j]
    /\ Len(FlattenSeq(ss)) = at[Len(ss) + 1]

\* Segments lie one behind the other.
LEMMA FlattenLayout ==
    ASSUME NEW T, NEW ss \in Seq(Seq(T))
    PROVE  /\ FlattenSeq(ss) \in Seq(T)
           /\ \E at \in [1 .. Len(ss) + 1 -> Nat] : Layout(at, ss)
<1>1. PICK F \in [0 .. Len(ss) -> Seq(T)] : Sums(F, ss)
    BY SumsExist
<1>2. FlattenSeq(ss) = F[Len(ss)]
    BY <1>1, FlattenIsLast
<1> DEFINE n == Len(ss)
           at == [i \in 1 .. n + 1 |-> Len(F[i - 1])]
<1>3. n \in Nat
    OBVIOUS
<1>4. \A i \in 1 .. n + 1 : i - 1 \in 0 .. n /\ F[i - 1] \in Seq(T)
    BY <1>1, <1>3
<1>5. at \in [1 .. n + 1 -> Nat]
    BY <1>4
<1>6. at[1] = 0 /\ F[n] \in Seq(T) /\ at[n + 1] = Len(F[n])
    <2>1. 1 \in 1 .. n + 1 /\ n + 1 \in 1 .. n + 1 /\ 1 - 1 = 0 /\ (n + 1) - 1 = n
        BY <1>3
    <2>2. F[0] = <<>>
        BY <1>1, Zenon DEF Sums
    <2> QED BY <1>4, <2>1, <2>2
\* What a sum ends with, and that the next sums begin with it.
<1>7. ASSUME NEW i \in 1 .. n
      PROVE  /\ F[i] = F[i - 1] \o ss[i]
             /\ F[i - 1] \in Seq(T) /\ ss[i] \in Seq(T)
             /\ at[i] = Len(F[i - 1]) /\ at[i + 1] = Len(F[i])
    <2>1. i - 1 \in 0 .. n - 1 /\ (i - 1) + 1 = i /\ i \in 1 .. n + 1 /\ i + 1 \in 1 .. n + 1
          /\ (i + 1) - 1 = i
        BY <1>3
    <2>2. F[(i - 1) + 1] = F[i - 1] \o ss[(i - 1) + 1]
        BY <1>1, <2>1, Zenon DEF Sums
    <2>3. ss[i] \in Seq(T)
        OBVIOUS
    <2> QED BY <1>4, <2>1, <2>2, <2>3
<1> HIDE DEF at
<1>8. ASSUME NEW i \in 1 .. n
      PROVE  /\ at[i + 1] = at[i] + Len(ss[i])
             /\ \A j \in 1 .. Len(ss[i]) : at[i] + j \in 1 .. Len(F[i]) /\ F[i][at[i] + j] = ss[i][j]
             /\ \A k \in 1 .. Len(F[i - 1]) : k \in 1 .. Len(F[i]) /\ F[i][k] = F[i - 1][k]
    <2> DEFINE s == F[i - 1]
               t == ss[i]
    <2>1. s \in Seq(T) /\ t \in Seq(T)
        BY <1>7
    <2>2. at[i] = Len(s) /\ at[i + 1] = Len(s \o t) /\ F[i] = s \o t
        BY <1>7
    <2> HIDE DEF s, t
    <2>3. /\ Len(s \o t) = Len(s) + Len(t)
          /\ \A k \in 1 .. Len(s) : k \in 1 .. Len(s \o t) /\ (s \o t)[k] = s[k]
          /\ \A k \in 1 .. Len(t) :
                 Len(s) + k \in 1 .. Len(s \o t) /\ (s \o t)[Len(s) + k] = t[k]
        BY <2>1, ConcatTells
    <2>4. /\ at[i + 1] = at[i] + Len(t)
          /\ \A j \in 1 .. Len(t) : at[i] + j \in 1 .. Len(F[i]) /\ F[i][at[i] + j] = t[j]
          /\ \A k \in 1 .. Len(s) : k \in 1 .. Len(F[i]) /\ F[i][k] = s[k]
        BY <2>2, <2>3, Zenon
    <2> QED BY <2>4 DEF s, t
<1> DEFINE S == {m \in Nat : \A i \in 1 .. n : m \in i .. n =>
                    \A k \in 1 .. Len(F[i]) : k \in 1 .. Len(F[m]) /\ F[m][k] = F[i][k]}
<1>9. n \in S
    <2>1. 0 \in S
        OBVIOUS
    <2>2. ASSUME NEW m \in Nat, m \in S PROVE m + 1 \in S
        <3> SUFFICES ASSUME NEW i \in 1 .. n, m + 1 \in i .. n, NEW k \in 1 .. Len(F[i])
                     PROVE  k \in 1 .. Len(F[m + 1]) /\ F[m + 1][k] = F[i][k]
            OBVIOUS
        <3>1. CASE i = m + 1
            BY <3>1
        <3>2. CASE i # m + 1
            <4>1. m \in i .. n /\ m + 1 \in 1 .. n /\ (m + 1) - 1 = m
                BY <3>2
            <4>2. k \in 1 .. Len(F[m]) /\ F[m][k] = F[i][k]
                BY <2>2, <4>1
            <4>3. \A x \in 1 .. Len(F[(m + 1) - 1]) :
                    x \in 1 .. Len(F[m + 1]) /\ F[m + 1][x] = F[(m + 1) - 1][x]
                BY <1>8, <4>1, Zenon
            <4> QED BY <4>1, <4>2, <4>3, Zenon
        <3> QED BY <3>1, <3>2
    <2> HIDE DEF S
    <2> QED BY <1>3, <2>1, <2>2, SetInduction
<1>10. ASSUME NEW i \in 1 .. n, NEW j \in 1 .. Len(ss[i])
       PROVE  F[n][at[i] + j] = ss[i][j]
    <2>1. at[i] + j \in 1 .. Len(F[i])
        BY <1>8, Zenon
    <2>2. n \in i .. n
        BY <1>3
    <2>3. F[n][at[i] + j] = F[i][at[i] + j]
        BY <1>9, <2>1, <2>2
    <2> QED BY <1>8, <2>3
<1>11. Layout(at, ss)
    BY <1>2, <1>6, <1>8, <1>10 DEF Layout
<1> QED BY <1>2, <1>5, <1>6, <1>11
\* A segment begins where those before it end, so behind the ones before it.
LEMMA LayoutOrder ==
    ASSUME NEW ss, Len(ss) \in Nat, \A i \in 1 .. Len(ss) : Len(ss[i]) \in Nat,
           NEW at \in [1 .. Len(ss) + 1 -> Nat], Layout(at, ss)
    PROVE  \A i, k \in 1 .. Len(ss) + 1 : i <= k => at[i] <= at[k]
<1> DEFINE n == Len(ss)
           S == {m \in Nat : \A i \in 1 .. n + 1 : m \in i .. n + 1 => at[i] <= at[m]}
<1>1. 0 \in S
    OBVIOUS
<1>2. ASSUME NEW m \in Nat, m \in S PROVE m + 1 \in S
    <2> SUFFICES ASSUME NEW i \in 1 .. n + 1, m + 1 \in i .. n + 1 PROVE at[i] <= at[m + 1]
        OBVIOUS
    <2>1. CASE i = m + 1
        BY <2>1
    <2>2. CASE i # m + 1
        <3>1. m \in i .. n + 1 /\ m \in 1 .. n
            BY <2>2
        <3>2. at[i] <= at[m]
            BY <1>2, <3>1
        <3>3. at[m + 1] = at[m] + Len(ss[m]) /\ Len(ss[m]) \in Nat
            BY <3>1, Zenon DEF Layout
        <3> QED BY <3>1, <3>2, <3>3
    <2> QED BY <2>1, <2>2
<1>3. Nat \subseteq S
    <2> HIDE DEF S
    <2> QED BY <1>1, <1>2, SetInduction, Zenon
<1> QED BY <1>3

\* Every position lies in a segment.
LEMMA LayoutCovers ==
    ASSUME NEW T, NEW ss \in Seq(Seq(T)),
           NEW at \in [1 .. Len(ss) + 1 -> Nat], Layout(at, ss),
           NEW p \in 1 .. Len(FlattenSeq(ss))
    PROVE  \E i \in 1 .. Len(ss), j \in Nat : j \in 1 .. Len(ss[i]) /\ p = at[i] + j
<1> DEFINE n == Len(ss)
           S == {i \in 1 .. n + 1 : p <= at[i]}
<1>1. n \in Nat /\ at[n + 1] = Len(FlattenSeq(ss)) /\ n + 1 \in S
    BY DEF Layout
<1>2. S \in SUBSET Nat /\ S # {}
    BY <1>1
<1>3. Min(S) \in S /\ \A k \in S : Min(S) <= k
    BY <1>2, MinIsLeast
<1> DEFINE m == Min(S)
           i == m - 1
<1>4. m \in 1 .. n + 1 /\ p <= at[m]
    BY <1>3
<1>5. m # 1
    BY <1>4 DEF Layout
<1>6. i \in 1 .. n /\ i \notin S /\ i + 1 = m
    <2>1. m \in Nat /\ \A k \in S : m <= k
        BY <1>3, <1>4
    <2> HIDE DEF S, m
    <2>2. i \in 1 .. n /\ i + 1 = m
        BY <1>1, <1>4, <1>5
    <2>3. ~(m <= m - 1)
        BY <2>1
    <2> QED BY <2>1, <2>2, <2>3
<1> HIDE DEF m
<1>7. ~(p <= at[i])
    BY <1>6
<1>8. at[i + 1] = at[i] + Len(ss[i])
    BY <1>6, Zenon DEF Layout
<1>9. ss[i] \in Seq(T) /\ at[i] \in Nat
    BY <1>6
<1> HIDE DEF i
<1>10. Len(ss[i]) \in Nat
    BY <1>9
<1>11. p - at[i] \in 1 .. Len(ss[i]) /\ p = at[i] + (p - at[i]) /\ p - at[i] \in Nat
    BY <1>4, <1>6, <1>7, <1>8, <1>9, <1>10
<1> QED BY <1>6, <1>11

================================================================================

--------------------------- MODULE Backups_proofs ---------------------------
(***************************************************************************)
(* Application data over an upgrade: what holds of Backups for all         *)
(* ConfigMaps, owners and bounds.                                          *)
(*                                                                         *)
(* First the order in which groups of CRs are worked on, which rests on    *)
(* finite sets having a sorted sequence; then the invariant, one lemma per *)
(* action; at the end the theorems.                                        *)
(***************************************************************************)
EXTENDS Backups, FiniteSetTheorems, TLAPS

-----------------------------------------------------------------------------
(* Groups in the order of their waves. *)

\* A finite set has a sequence in any strict total order: the place of an
\* element is the number of those that come before it.
LEMMA SortExists ==
    ASSUME NEW S, IsFiniteSet(S), NEW R,
           \A x \in S : <<x, x>> \notin R,
           \A x, y, z \in S : <<x, y>> \in R /\ <<y, z>> \in R => <<x, z>> \in R,
           \A x, y \in S : x = y \/ <<x, y>> \in R \/ <<y, x>> \in R
    PROVE  \E s \in SetToSeqs(S) : \A i, j \in DOMAIN s : i < j => <<s[i], s[j]>> \in R
<1> DEFINE n == Cardinality(S)
           below(x) == {y \in S : <<y, x>> \in R}
           rank == [x \in S |-> Cardinality(below(x)) + 1]
<1>1. n \in Nat
  BY FS_CardinalityType
<1>2. \A x \in S : IsFiniteSet(below(x)) /\ Cardinality(below(x)) \in Nat
  BY FS_Subset, FS_CardinalityType
<1>3. ASSUME NEW x \in S PROVE rank[x] \in 1 .. n
  <2>1. below(x) \in SUBSET S /\ x \notin below(x)
    OBVIOUS
  <2>2. Cardinality(below(x)) <= n /\ Cardinality(below(x)) # n
    BY <2>1, FS_Subset
  <2> HIDE DEF n, below
  <2> QED
    BY <1>1, <1>2, <2>2
<1>4. ASSUME NEW x \in S, NEW y \in S, <<x, y>> \in R PROVE rank[x] < rank[y]
  <2>1. below(x) \in SUBSET below(y) /\ x \in below(y) /\ x \notin below(x)
    BY <1>4
  <2>2. Cardinality(below(x)) <= Cardinality(below(y)) /\ Cardinality(below(x)) # Cardinality(below(y))
    BY <1>2, <2>1, FS_Subset
  <2> HIDE DEF below
  <2> QED
    BY <1>2, <2>2
<1>5. rank \in [S -> 1 .. n]
  BY <1>3
<1> HIDE DEF rank
<1>6. \A x, y \in S : rank[x] = rank[y] => x = y
  <2> SUFFICES ASSUME NEW x \in S, NEW y \in S, rank[x] = rank[y], x # y PROVE FALSE
    OBVIOUS
  <2>1. rank[x] \in Nat /\ rank[y] \in Nat
    BY <1>1, <1>3
  <2>2. rank[x] < rank[y] \/ rank[y] < rank[x]
    BY <1>4
  <2> QED
    BY <2>1, <2>2
<1>7. rank \in Injection(S, 1 .. n)
  BY <1>5, <1>6 DEF Injection, IsInjective
<1>8. IsFiniteSet(1 .. n) /\ Cardinality(1 .. n) = n
  BY <1>1, FS_Interval
<1>9. rank \in Surjection(S, 1 .. n)
  BY <1>7, <1>8, FS_Injection
<1>10. \A i \in 1 .. n : \E x \in S : rank[x] = i
  BY <1>9 DEF Surjection
<1> DEFINE s == [i \in 1 .. n |-> CHOOSE x \in S : rank[x] = i]
<1>11. \A i \in 1 .. n : s[i] \in S /\ rank[s[i]] = i
  BY <1>10
<1>12. s \in [1 .. n -> S] /\ DOMAIN s = 1 .. n
  BY <1>11
<1> HIDE DEF s
<1>13. \A i, j \in 1 .. n : i # j => s[i] # s[j]
  BY <1>11
<1>14. s \in SetToSeqs(S)
  BY <1>12, <1>13 DEF SetToSeqs
<1>15. ASSUME NEW i \in 1 .. n, NEW j \in 1 .. n, i < j PROVE <<s[i], s[j]>> \in R
  <2>1. s[i] \in S /\ s[j] \in S /\ s[i] # s[j] /\ rank[s[i]] = i /\ rank[s[j]] = j
    BY <1>11, <1>13, <1>15, <1>1
  <2>2. <<s[j], s[i]>> \notin R
    BY <2>1, <1>4, <1>15, <1>1
  <2> QED
    BY <2>1, <2>2
<1> QED
  BY <1>12, <1>14, <1>15

\* What a sequence of the elements of a set is.
LEMMA SeqOfSet ==
    ASSUME NEW S, IsFiniteSet(S), NEW s \in SetToSeqs(S)
    PROVE  /\ DOMAIN s = 1 .. Cardinality(S) /\ Len(s) = Cardinality(S) /\ Len(s) \in Nat
           /\ \A i \in DOMAIN s : s[i] \in S
           /\ \A x \in S : \E i \in DOMAIN s : s[i] = x
<1> DEFINE n == Cardinality(S)
<1>1. n \in Nat
  BY FS_CardinalityType
<1>2. s \in [1 .. n -> S] /\ \A i, j \in 1 .. n : i # j => s[i] # s[j]
  BY DEF SetToSeqs
<1>3. s \in Seq(S) /\ Len(s) = n
  BY <1>1, <1>2
<1>4. s \in Injection(1 .. n, S)
  BY <1>2 DEF Injection, IsInjective
<1>5. IsFiniteSet(1 .. n) /\ Cardinality(1 .. n) = n
  BY <1>1, FS_Interval
<1>6. s \in Surjection(1 .. n, S)
  BY <1>4, <1>5, FS_Injection
<1> QED
  BY <1>1, <1>2, <1>3, <1>6 DEF Surjection

\* The two orders of the model.
LEMMA NumbersInOrder ==
    ASSUME NEW S, IsFiniteSet(S)
    PROVE  S \subseteq Nat =>
             LET s == InOrder(S, <)
             IN  /\ DOMAIN s = 1 .. Cardinality(S) /\ Len(s) = Cardinality(S) /\ Len(s) \in Nat
                 /\ \A i \in DOMAIN s : s[i] \in S
                 /\ \A x \in S : \E i \in DOMAIN s : s[i] = x
                 /\ \A i, j \in DOMAIN s : i < j => s[i] < s[j]
<1> DEFINE R == {p \in Nat \X Nat : p[1] < p[2]}
<1>1. S \subseteq Nat => \A x, y \in S : <<x, y>> \in R <=> x < y
  OBVIOUS
<1>2. S \subseteq Nat => \A x, y, z \in S : /\ ~(x < x) /\ (x < y /\ y < z => x < z)
                                         /\ (x = y \/ x < y \/ y < x)
  OBVIOUS
<1> HIDE DEF R
<1>3. ASSUME S \subseteq Nat
      PROVE  /\ \A x \in S : <<x, x>> \notin R
             /\ \A x, y, z \in S : <<x, y>> \in R /\ <<y, z>> \in R => <<x, z>> \in R
             /\ \A x, y \in S : x = y \/ <<x, y>> \in R \/ <<y, x>> \in R
  BY <1>1, <1>2, <1>3, Zenon
<1>6. S \subseteq Nat =>
        \E s \in SetToSeqs(S) : \A i, j \in DOMAIN s : i < j => <<s[i], s[j]>> \in R
  <2>1. (/\ \A x \in S : <<x, x>> \notin R
         /\ \A x, y, z \in S : <<x, y>> \in R /\ <<y, z>> \in R => <<x, z>> \in R
         /\ \A x, y \in S : x = y \/ <<x, y>> \in R \/ <<y, x>> \in R)
        => \E s \in SetToSeqs(S) : \A i, j \in DOMAIN s : i < j => <<s[i], s[j]>> \in R
    BY SortExists
  <2> QED
    BY <1>3, <2>1, Zenon
<1> SUFFICES ASSUME S \subseteq Nat
             PROVE  /\ InOrder(S, <) \in SetToSeqs(S)
                    /\ \A i, j \in DOMAIN InOrder(S, <) : i < j => InOrder(S, <)[i] < InOrder(S, <)[j]
  BY SeqOfSet
<1>7. \E s \in SetToSeqs(S) : \A i, j \in DOMAIN s : i < j => s[i] < s[j]
  <2>1. PICK s \in SetToSeqs(S) : \A i, j \in DOMAIN s : i < j => <<s[i], s[j]>> \in R
    BY <1>6
  <2>2. \A i \in DOMAIN s : s[i] \in S
    BY SeqOfSet
  <2> QED
    BY <2>1, <2>2, <1>1
<1> QED
  BY <1>7 DEF InOrder

\* So do the files of a group, by number and by name (FileOrder).
LEMMA FilesInOrder ==
    ASSUME NEW S, IsFiniteSet(S), \A f \in S : f.index \in Nat /\ f.name \in Nat,
           \A e, f \in S : e.index = f.index /\ e.name = f.name => e = f
    PROVE  LET s == InOrder(S, FileOrder)
           IN  /\ DOMAIN s = 1 .. Cardinality(S) /\ Len(s) = Cardinality(S) /\ Len(s) \in Nat
               /\ \A i \in DOMAIN s : s[i] \in S
               /\ \A x \in S : \E i \in DOMAIN s : s[i] = x
<1> DEFINE R == {p \in S \X S : FileOrder(p[1], p[2])}
<1>1. \A x, y \in S : <<x, y>> \in R <=> x.index < y.index \/ (x.index = y.index /\ x.name < y.name)
  BY DEF FileOrder
<1> HIDE DEF R
<1>3. \A x \in S : <<x, x>> \notin R
  BY <1>1
<1>4. \A x, y, z \in S : <<x, y>> \in R /\ <<y, z>> \in R => <<x, z>> \in R
  BY <1>1
<1>5. \A x, y \in S : x = y \/ <<x, y>> \in R \/ <<y, x>> \in R
  <2> SUFFICES ASSUME NEW x \in S, NEW y \in S PROVE x = y \/ <<x, y>> \in R \/ <<y, x>> \in R
    OBVIOUS
  <2>1. x.index \in Nat /\ y.index \in Nat /\ x.name \in Nat /\ y.name \in Nat
    OBVIOUS
  <2>2. x = y \/ x.index < y.index \/ y.index < x.index
        \/ (x.index = y.index /\ (x.name < y.name \/ y.name < x.name))
    BY <2>1
  <2> QED
    BY <1>1, <2>2, Zenon
<1>6. \E s \in SetToSeqs(S) : \A i, j \in DOMAIN s : i < j => <<s[i], s[j]>> \in R
  BY <1>3, <1>4, <1>5, SortExists
<1>7. \E s \in SetToSeqs(S) : \A i, j \in DOMAIN s : i < j => FileOrder(s[i], s[j])
  <2>1. PICK s \in SetToSeqs(S) : \A i, j \in DOMAIN s : i < j => <<s[i], s[j]>> \in R
    BY <1>6
  <2>2. \A i \in DOMAIN s : s[i] \in S
    BY SeqOfSet
  <2> QED
    BY <2>1, <2>2, <1>1 DEF FileOrder
<1>8. InOrder(S, FileOrder) \in SetToSeqs(S)
  BY <1>7 DEF InOrder
<1> QED
  BY <1>8, SeqOfSet

-----------------------------------------------------------------------------
(* Groups. *)

\* Definitions that can be sorted.
IsItems(items) ==
    /\ DOMAIN items \subseteq Nat /\ IsFiniteSet(DOMAIN items)
    /\ \A i \in DOMAIN items : items[i].wave \in Nat

\* The wave of a CR.
WaveOf(items, x) == Wave(items[x].wave)

\* A sequence of groups that holds each definition, by waves.
Sorted(gs, items) ==
    /\ Len(gs) \in Nat /\ DOMAIN gs = 1 .. Len(gs)
    /\ \A g \in DOMAIN gs : Len(gs[g]) \in Nat /\ DOMAIN gs[g] = 1 .. Len(gs[g])
    /\ \A g \in DOMAIN gs : \A k \in DOMAIN gs[g] : gs[g][k].name \in DOMAIN items
    /\ \A x \in DOMAIN items : \E g \in DOMAIN gs : \E k \in DOMAIN gs[g] : gs[g][k].name = x
    /\ \A g, h \in DOMAIN gs : \A k \in DOMAIN gs[g], l \in DOMAIN gs[h] :
         WaveOf(items, gs[g][k].name) < WaveOf(items, gs[h][l].name) => g < h

\* The length of a sequence that is written as a function.
LEMMA LenOfFunction ==
    ASSUME NEW s, NEW n \in Nat, DOMAIN s = 1 .. n, s = [i \in DOMAIN s |-> s[i]]
    PROVE  Len(s) = n
<1> DEFINE S == {s[i] : i \in DOMAIN s}
<1>1. s \in [1 .. n -> S]
  OBVIOUS
<1> HIDE DEF S
<1> QED
  BY <1>1

\* The contents of a ConfigMap can be sorted.
LEMMA ContentsAreItems ==
    ASSUME NEW c \in Contents
    PROVE  IsItems(c.backups) /\ IsItems(c.restores)
BY ContentsAssumption DEF IsItems

\* The waves of definitions are numbers, and finitely many.
LEMMA WavesFinite ==
    ASSUME NEW items, IsItems(items)
    PROVE  LET W == {Wave(items[i].wave) : i \in DOMAIN items}
           IN  IsFiniteSet(W) /\ W \subseteq Nat
<1> DEFINE W == {Wave(items[i].wave) : i \in DOMAIN items}
           f == [i \in DOMAIN items |-> Wave(items[i].wave)]
<1>1. f \in Surjection(DOMAIN items, W)
  BY DEF Surjection
<1>2. IsFiniteSet(W)
  BY <1>1, FS_Surjection DEF IsItems
<1>3. W \subseteq Nat
  BY DEF IsItems, Wave, defaultApplyWave
<1> QED
  BY <1>2, <1>3

\* What the names of each group are (SortAndGroupByApplyWave).
LEMMA NamesSorted ==
    ASSUME NEW items, IsItems(items)
    PROVE  LET ns == SortAndGroupByApplyWave(items)
           IN  /\ Len(ns) \in Nat /\ DOMAIN ns = 1 .. Len(ns)
               /\ \A g \in DOMAIN ns : Len(ns[g]) \in Nat /\ DOMAIN ns[g] = 1 .. Len(ns[g])
               /\ \A g \in DOMAIN ns : \A k \in DOMAIN ns[g] : ns[g][k] \in DOMAIN items
               /\ \A x \in DOMAIN items : \E g \in DOMAIN ns : \E k \in DOMAIN ns[g] : ns[g][k] = x
               /\ \A g, h \in DOMAIN ns : \A k \in DOMAIN ns[g], l \in DOMAIN ns[h] :
                    /\ WaveOf(items, ns[g][k]) < WaveOf(items, ns[h][l]) => g < h
                    /\ ns[g][k] = ns[h][l] => g = h /\ k = l
<1> DEFINE W == {Wave(items[i].wave) : i \in DOMAIN items}
           waves == InOrder(W, <)
           N(g) == {i \in DOMAIN items : Wave(items[i].wave) = waves[g]}
           group(g) == InOrder(N(g), <)
           ns == SortAndGroupByApplyWave(items)
<1>1. IsFiniteSet(W) /\ W \subseteq Nat
  BY WavesFinite
<1> HIDE DEF W
<1>2. /\ DOMAIN waves = 1 .. Len(waves) /\ Len(waves) \in Nat
      /\ \A i \in DOMAIN waves : waves[i] \in W
      /\ \A x \in W : \E i \in DOMAIN waves : waves[i] = x
      /\ \A i, j \in DOMAIN waves : i < j => waves[i] < waves[j]
  BY <1>1, NumbersInOrder
<1>3. ns = [g \in DOMAIN waves |-> group(g)]
  BY Zenon DEF SortAndGroupByApplyWave, W
<1> HIDE DEF waves, ns, group
<1>4. Len(ns) = Len(waves) /\ DOMAIN ns = DOMAIN waves
  BY <1>2, <1>3, LenOfFunction
<1>5. \A g \in DOMAIN ns : ns[g] = group(g)
  BY <1>3, <1>4
<1>6. \A g : IsFiniteSet(N(g)) /\ N(g) \subseteq Nat
  BY FS_Subset DEF IsItems
<1>7. ASSUME NEW g \in DOMAIN ns
      PROVE  /\ DOMAIN ns[g] = 1 .. Len(ns[g]) /\ Len(ns[g]) \in Nat
             /\ \A k \in DOMAIN ns[g] : ns[g][k] \in N(g)
             /\ \A x \in N(g) : \E k \in DOMAIN ns[g] : ns[g][k] = x
             /\ \A k, l \in DOMAIN ns[g] : k < l => ns[g][k] < ns[g][l]
  <2>1. IsFiniteSet(N(g)) /\ N(g) \subseteq Nat /\ ns[g] = InOrder(N(g), <)
    BY <1>5, <1>6, Zenon DEF group
  <2> HIDE DEF N
  <2> QED
    BY <2>1, NumbersInOrder
<1>8. \A g \in DOMAIN ns : \A k \in DOMAIN ns[g] : ns[g][k] \in DOMAIN items /\ WaveOf(items, ns[g][k]) = waves[g]
  BY <1>7 DEF WaveOf
<1>9. ASSUME NEW x \in DOMAIN items
      PROVE  \E g \in DOMAIN ns : \E k \in DOMAIN ns[g] : ns[g][k] = x
  <2>1. Wave(items[x].wave) \in W
    BY DEF W
  <2>2. PICK g \in DOMAIN waves : waves[g] = Wave(items[x].wave)
    BY <2>1, <1>2
  <2>3. x \in N(g) /\ g \in DOMAIN ns
    BY <2>2, <1>4
  <2> QED
    BY <2>3, <1>7
<1>10. ASSUME NEW g \in DOMAIN ns, NEW h \in DOMAIN ns, NEW k \in DOMAIN ns[g], NEW l \in DOMAIN ns[h]
       PROVE  /\ WaveOf(items, ns[g][k]) < WaveOf(items, ns[h][l]) => g < h
              /\ ns[g][k] = ns[h][l] => g = h /\ k = l
  <2>1. WaveOf(items, ns[g][k]) = waves[g] /\ WaveOf(items, ns[h][l]) = waves[h]
    BY <1>8
  <2>a. g \in DOMAIN waves /\ h \in DOMAIN waves
    BY <1>4
  <2>b. waves[g] \in W /\ waves[h] \in W
    BY <1>2, <2>a
  <2>2. g \in Nat /\ h \in Nat /\ waves[g] \in Nat /\ waves[h] \in Nat
    <3>1. DOMAIN waves = 1 .. Len(waves) /\ Len(waves) \in Nat
      BY <1>2
    <3>2. g \in Nat /\ h \in Nat
      BY <3>1, <2>a
    <3>3. waves[g] \in Nat /\ waves[h] \in Nat
      BY <1>1, <2>b
    <3> QED
      BY <3>2, <3>3
  <2>3. (g < h => waves[g] < waves[h]) /\ (h < g => waves[h] < waves[g])
    BY <1>2, <1>4
  <2>4. (waves[g] < waves[h] => g < h) /\ (waves[g] = waves[h] => g = h)
    BY <2>2, <2>3
  <2>5. ASSUME ns[g][k] = ns[h][l] PROVE g = h /\ k = l
    <3>1. g = h
      BY <2>5, <2>1, <2>4
    <3>2. k \in Nat /\ l \in Nat /\ ns[g][k] \in Nat /\ ns[g][l] \in Nat /\ l \in DOMAIN ns[g]
      <4>1. l \in DOMAIN ns[g]
        BY <3>1
      <4>2. ns[g][k] \in N(g) /\ ns[g][l] \in N(g)
        BY <1>7, <4>1
      <4>3. ns[g][k] \in Nat /\ ns[g][l] \in Nat
        BY <1>6, <4>2
      <4>4. DOMAIN ns[g] = 1 .. Len(ns[g]) /\ Len(ns[g]) \in Nat
        BY <1>7
      <4> QED
        BY <4>1, <4>3, <4>4
    <3>3. (k < l => ns[g][k] < ns[g][l]) /\ (l < k => ns[g][l] < ns[g][k])
      BY <1>7, <3>2
    <3> QED
      BY <2>5, <3>1, <3>2, <3>3
  <2> QED
    BY <2>1, <2>4, <2>5
<1>11. Len(ns) \in Nat /\ DOMAIN ns = 1 .. Len(ns)
  BY <1>2, <1>4
<1> HIDE DEF N
<1> QED
  BY <1>11, <1>7, <1>8, <1>9, <1>10 DEF ns

\* The groups with their definitions (ExtractResourcesFromConfigmaps).
LEMMA GroupsSorted ==
    ASSUME NEW items, IsItems(items)
    PROVE  LET gs == Groups(items)
           IN  /\ Sorted(gs, items)
               /\ \A g \in DOMAIN gs : \A k \in DOMAIN gs[g] : gs[g][k].def = items[gs[g][k].name]
               /\ \A g, h \in DOMAIN gs : \A k \in DOMAIN gs[g], l \in DOMAIN gs[h] :
                    gs[g][k].name = gs[h][l].name => g = h /\ k = l
<1> DEFINE ns == SortAndGroupByApplyWave(items)
           gs == Groups(items)
<1>1. /\ Len(ns) \in Nat /\ DOMAIN ns = 1 .. Len(ns)
      /\ \A g \in DOMAIN ns : Len(ns[g]) \in Nat /\ DOMAIN ns[g] = 1 .. Len(ns[g])
      /\ \A g \in DOMAIN ns : \A k \in DOMAIN ns[g] : ns[g][k] \in DOMAIN items
      /\ \A x \in DOMAIN items : \E g \in DOMAIN ns : \E k \in DOMAIN ns[g] : ns[g][k] = x
      /\ \A g, h \in DOMAIN ns : \A k \in DOMAIN ns[g], l \in DOMAIN ns[h] :
           /\ WaveOf(items, ns[g][k]) < WaveOf(items, ns[h][l]) => g < h
           /\ ns[g][k] = ns[h][l] => g = h /\ k = l
  BY NamesSorted
<1>2. gs = [g \in DOMAIN ns |-> [k \in DOMAIN ns[g] |-> [name |-> ns[g][k], def |-> items[ns[g][k]]]]]
  BY DEF Groups
<1> HIDE DEF ns, gs
<1>3. DOMAIN gs = DOMAIN ns /\ Len(gs) = Len(ns)
  BY <1>1, <1>2, LenOfFunction
<1>4. \A g \in DOMAIN ns : gs[g] = [k \in DOMAIN ns[g] |-> [name |-> ns[g][k], def |-> items[ns[g][k]]]]
  BY <1>2
<1>5. ASSUME NEW g \in DOMAIN ns PROVE DOMAIN gs[g] = DOMAIN ns[g] /\ Len(gs[g]) = Len(ns[g])
  <2> DEFINE def(k) == [name |-> ns[g][k], def |-> items[ns[g][k]]]
  <2>1. gs[g] = [k \in DOMAIN ns[g] |-> def(k)]
    BY <1>4
  <2> HIDE DEF def
  <2>2. DOMAIN gs[g] = DOMAIN ns[g]
    BY <2>1
  <2>3. gs[g] = [k \in DOMAIN gs[g] |-> gs[g][k]]
    BY <2>1
  <2>4. Len(ns[g]) \in Nat /\ DOMAIN ns[g] = 1 .. Len(ns[g])
    BY <1>1
  <2> QED
    BY <2>2, <2>3, <2>4, LenOfFunction
<1>6. ASSUME NEW g \in DOMAIN ns, NEW k \in DOMAIN ns[g]
      PROVE  gs[g][k].name = ns[g][k] /\ gs[g][k].def = items[ns[g][k]]
  <2> DEFINE def(j) == [name |-> ns[g][j], def |-> items[ns[g][j]]]
  <2>0. gs[g] = [j \in DOMAIN ns[g] |-> def(j)]
    BY <1>4
  <2>1. gs[g][k] = def(k)
    <3> HIDE DEF def
    <3> QED
      BY <2>0
  <2> QED
    BY <2>1
<1>7. ASSUME NEW g \in DOMAIN gs, NEW h \in DOMAIN gs, NEW k \in DOMAIN gs[g], NEW l \in DOMAIN gs[h]
      PROVE  /\ WaveOf(items, gs[g][k].name) < WaveOf(items, gs[h][l].name) => g < h
             /\ gs[g][k].name = gs[h][l].name => g = h /\ k = l
  <2>1. /\ g \in DOMAIN ns /\ h \in DOMAIN ns /\ k \in DOMAIN ns[g] /\ l \in DOMAIN ns[h]
        /\ gs[g][k].name = ns[g][k] /\ gs[h][l].name = ns[h][l]
    BY <1>3, <1>5, <1>6
  <2> QED
    BY <2>1, <1>1
<1>9. Sorted(gs, items)
  <2>1. Len(gs) \in Nat /\ DOMAIN gs = 1 .. Len(gs)
    BY <1>1, <1>3
  <2>2. \A g \in DOMAIN gs : Len(gs[g]) \in Nat /\ DOMAIN gs[g] = 1 .. Len(gs[g])
    BY <1>1, <1>3, <1>5
  <2>3. \A g \in DOMAIN gs : \A k \in DOMAIN gs[g] : gs[g][k].name \in DOMAIN items
    BY <1>1, <1>3, <1>5, <1>6
  <2>4. \A x \in DOMAIN items : \E g \in DOMAIN gs : \E k \in DOMAIN gs[g] : gs[g][k].name = x
    BY <1>1, <1>3, <1>5, <1>6
  <2> QED
    BY <2>1, <2>2, <2>3, <2>4, <1>7 DEF Sorted
<1>8. \A g \in DOMAIN gs : \A k \in DOMAIN gs[g] : gs[g][k].def = items[gs[g][k].name]
  BY <1>3, <1>5, <1>6
<1> QED
  BY <1>7, <1>8, <1>9 DEF gs

\* A file for each of the definitions, in the group of its wave.
Exports(path, items) ==
    /\ IsFiniteSet(path)
    /\ \A f \in path : /\ f.group \in Nat /\ f.index \in Nat /\ f.name \in Nat
                       /\ f.name \in DOMAIN items /\ f.of = items[f.name].of
    /\ \A x \in DOMAIN items : \E f \in path : f.name = x
    /\ \A e, f \in path : /\ WaveOf(items, e.name) < WaveOf(items, f.name) => e.group < f.group
                          /\ e.name = f.name => e = f

\* The restores that are exported: one file for each, in the group of its wave.
LEMMA ExportedFiles ==
    ASSUME NEW c \in Contents
    PROVE  Exports(ExportedRestores(c), c.restores)
<1> DEFINE items == c.restores
           gs == Groups(items)
           E == ExportedRestores(c)
           file(g, k) == [group |-> g, index |-> k, name |-> gs[g][k].name, of |-> gs[g][k].def.of]
<1>1. /\ Sorted(gs, items)
      /\ \A g \in DOMAIN gs : \A k \in DOMAIN gs[g] : gs[g][k].def = items[gs[g][k].name]
      /\ \A g, h \in DOMAIN gs : \A k \in DOMAIN gs[g], l \in DOMAIN gs[h] :
           gs[g][k].name = gs[h][l].name => g = h /\ k = l
  BY ContentsAreItems, GroupsSorted
<1>2. \A f : f \in E <=> \E g \in DOMAIN gs : \E k \in DOMAIN gs[g] : f = file(g, k)
  BY DEF ExportedRestores
<1>3. \A g, k : /\ file(g, k).group = g /\ file(g, k).index = k
                /\ file(g, k).name = gs[g][k].name /\ file(g, k).of = gs[g][k].def.of
  OBVIOUS
<1>4. IsItems(items)
  BY ContentsAreItems
<1> HIDE DEF gs, E, file
<1>5. ASSUME NEW f \in E
      PROVE  /\ f.group \in Nat /\ f.index \in Nat /\ f.name \in Nat
             /\ f.name \in DOMAIN c.restores /\ f.of = c.restores[f.name].of
  <2>1a. PICK g \in DOMAIN gs : \E k \in DOMAIN gs[g] : f = file(g, k)
    BY <1>2
  <2>1. PICK k \in DOMAIN gs[g] : f = file(g, k)
    BY <2>1a
  <2>2. g \in Nat /\ k \in Nat
    BY <1>1 DEF Sorted
  <2>3. gs[g][k].name \in DOMAIN items /\ gs[g][k].def = items[gs[g][k].name]
    BY <1>1 DEF Sorted
  <2> QED
    BY <1>3, <1>4, <2>1, <2>2, <2>3 DEF IsItems
<1>6. ASSUME NEW x \in DOMAIN c.restores PROVE \E f \in E : f.name = x
  <2>1a. PICK g \in DOMAIN gs : \E k \in DOMAIN gs[g] : gs[g][k].name = x
    BY <1>1 DEF Sorted
  <2>1. PICK k \in DOMAIN gs[g] : gs[g][k].name = x
    BY <2>1a
  <2>2. file(g, k) \in E /\ file(g, k).name = x
    BY <1>2, <1>3, <2>1
  <2> QED
    BY <2>2
<1>7. ASSUME NEW e \in E, NEW f \in E
      PROVE  /\ WaveOf(c.restores, e.name) < WaveOf(c.restores, f.name) => e.group < f.group
             /\ e.name = f.name => e = f
  <2>1a. PICK g \in DOMAIN gs : \E k \in DOMAIN gs[g] : e = file(g, k)
    BY <1>2
  <2>1. PICK k \in DOMAIN gs[g] : e = file(g, k)
    BY <2>1a
  <2>2a. PICK h \in DOMAIN gs : \E l \in DOMAIN gs[h] : f = file(h, l)
    BY <1>2
  <2>2. PICK l \in DOMAIN gs[h] : f = file(h, l)
    BY <2>2a
  <2>3. /\ e.group = g /\ f.group = h /\ e.name = gs[g][k].name /\ f.name = gs[h][l].name
    BY <1>3, <2>1, <2>2
  <2>4. WaveOf(items, gs[g][k].name) < WaveOf(items, gs[h][l].name) => g < h
    BY <1>1 DEF Sorted
  <2>5. gs[g][k].name = gs[h][l].name => g = h /\ k = l
    BY <1>1
  <2> QED
    BY <2>1, <2>2, <2>3, <2>4, <2>5
<1>8. IsFiniteSet(E)
  <2> DEFINE of == [x \in DOMAIN c.restores |-> CHOOSE f \in E : f.name = x]
  <2>1. of \in [DOMAIN c.restores -> E]
    BY <1>6
  <2>2. ASSUME NEW f \in E PROVE \E x \in DOMAIN c.restores : of[x] = f
    <3>1. f.name \in DOMAIN c.restores
      BY <1>5
    <3>2. of[f.name] \in E /\ of[f.name].name = f.name
      BY <3>1, <1>6
    <3>3. of[f.name] = f
      BY <3>2, <1>7
    <3> QED
      BY <3>1, <3>3
  <2>3. of \in Surjection(DOMAIN c.restores, E)
    BY <2>1, <2>2 DEF Surjection
  <2> HIDE DEF of
  <2> QED
    BY <2>3, <1>4, FS_Surjection DEF IsItems
<1> QED
  BY <1>5, <1>6, <1>7, <1>8 DEF E, Exports

\* The files that are loaded again are in the groups of their waves
\* (LoadRestoresFromOadpRestorePath).
LEMMA LoadedSorted ==
    ASSUME NEW items, NEW path, Exports(path, items)
    PROVE  LET gs == LoadRestoresFromOadpRestorePath(path)
           IN  /\ Sorted(gs, items)
               /\ \A g \in DOMAIN gs : \A k \in DOMAIN gs[g] : gs[g][k] \in path
<1> DEFINE G == {f.group : f \in path}
           groups == InOrder(G, <)
           F(g) == {f \in path : f.group = groups[g]}
           group(g) == InOrder(F(g), FileOrder)
           gs == LoadRestoresFromOadpRestorePath(path)
<1>0. /\ IsFiniteSet(path)
      /\ \A f \in path : /\ f.group \in Nat /\ f.index \in Nat /\ f.name \in Nat
                         /\ f.name \in DOMAIN items
      /\ \A x \in DOMAIN items : \E f \in path : f.name = x
      /\ \A e, f \in path : /\ WaveOf(items, e.name) < WaveOf(items, f.name) => e.group < f.group
                            /\ e.name = f.name => e = f
  BY DEF Exports
<1>a. \A e, f \in path : e.name = f.name => e = f
  BY DEF Exports
<1>b. \A e, f \in path : WaveOf(items, e.name) < WaveOf(items, f.name) => e.group < f.group
  BY DEF Exports
<1>1. IsFiniteSet(G) /\ G \subseteq Nat
  <2> DEFINE m == [f \in path |-> f.group]
  <2>1. m \in Surjection(path, G)
    BY DEF Surjection
  <2> HIDE DEF m
  <2> QED
    BY <1>0, <2>1, FS_Surjection
<1> HIDE DEF G
<1>2. /\ DOMAIN groups = 1 .. Len(groups) /\ Len(groups) \in Nat
      /\ \A i \in DOMAIN groups : groups[i] \in G
      /\ \A x \in G : \E i \in DOMAIN groups : groups[i] = x
      /\ \A i, j \in DOMAIN groups : i < j => groups[i] < groups[j]
  BY <1>1, NumbersInOrder
<1>3. gs = [g \in DOMAIN groups |-> group(g)]
  BY Zenon DEF LoadRestoresFromOadpRestorePath, G
<1> HIDE DEF groups, gs, group
<1>4. Len(gs) = Len(groups) /\ DOMAIN gs = DOMAIN groups
  BY <1>2, <1>3, LenOfFunction
<1>5. \A g \in DOMAIN gs : gs[g] = group(g)
  BY <1>3, <1>4
<1>6. ASSUME NEW g \in DOMAIN gs
      PROVE  /\ DOMAIN gs[g] = 1 .. Len(gs[g]) /\ Len(gs[g]) \in Nat
             /\ \A k \in DOMAIN gs[g] : gs[g][k] \in F(g)
             /\ \A x \in F(g) : \E k \in DOMAIN gs[g] : gs[g][k] = x
  <2>1. F(g) \subseteq path /\ IsFiniteSet(F(g))
    BY <1>0, FS_Subset
  <2>2. \A f \in F(g) : f.index \in Nat /\ f.name \in Nat
    BY <1>0, <2>1
  <2>3. \A e, f \in F(g) : e.index = f.index /\ e.name = f.name => e = f
    <3> HIDE DEF F
    <3> QED
      BY <2>1, <1>a, Zenon
  <2>4. gs[g] = InOrder(F(g), FileOrder)
    BY <1>5, Zenon DEF group
  <2> HIDE DEF F
  <2> QED
    BY <2>1, <2>2, <2>3, <2>4, FilesInOrder
<1>7. \A g \in DOMAIN gs : \A k \in DOMAIN gs[g] : gs[g][k] \in path /\ gs[g][k].group = groups[g]
  BY <1>6
<1>8. ASSUME NEW x \in DOMAIN items
      PROVE  \E g \in DOMAIN gs : \E k \in DOMAIN gs[g] : gs[g][k].name = x
  <2>1. PICK f \in path : f.name = x
    BY <1>0
  <2>2. f.group \in G
    BY DEF G
  <2>3. PICK g \in DOMAIN groups : groups[g] = f.group
    BY <2>2, <1>2
  <2>4. f \in F(g) /\ g \in DOMAIN gs
    BY <2>3, <1>4
  <2>5. PICK k \in DOMAIN gs[g] : gs[g][k] = f
    BY <2>4, <1>6
  <2> QED
    BY <2>1, <2>4, <2>5
<1>9. ASSUME NEW g \in DOMAIN gs, NEW h \in DOMAIN gs, NEW k \in DOMAIN gs[g], NEW l \in DOMAIN gs[h],
             WaveOf(items, gs[g][k].name) < WaveOf(items, gs[h][l].name)
      PROVE  g < h
  <2>0. /\ gs[g][k] \in path /\ gs[g][k].group = groups[g]
        /\ gs[h][l] \in path /\ gs[h][l].group = groups[h]
    BY <1>7
  <2>1. groups[g] < groups[h]
    <3>1. gs[g][k].group < gs[h][l].group
      BY <1>b, <1>9, <2>0
    <3> QED
      BY <2>0, <3>1, Zenon
  <2>2. g \in DOMAIN groups /\ h \in DOMAIN groups
    BY <1>4
  <2>3. DOMAIN groups = 1 .. Len(groups) /\ Len(groups) \in Nat
    BY <1>2
  <2>4. g \in Nat /\ h \in Nat
    BY <2>2, <2>3
  <2>5. groups[g] \in G /\ groups[h] \in G
    BY <1>2, <2>2
  <2>6. groups[g] \in Nat /\ groups[h] \in Nat
    BY <1>1, <2>5
  <2>7. h < g => groups[h] < groups[g]
    BY <1>2, <2>2
  <2> QED
    BY <2>1, <2>4, <2>6, <2>7
<1>10. Sorted(gs, items)
  <2>1. Len(gs) \in Nat /\ DOMAIN gs = 1 .. Len(gs)
    BY <1>2, <1>4
  <2>2. \A g \in DOMAIN gs : \A k \in DOMAIN gs[g] : gs[g][k].name \in DOMAIN items
    BY <1>0, <1>7
  <2> HIDE DEF F
  <2> QED
    BY <2>1, <2>2, <1>6, <1>8, <1>9 DEF Sorted
<1> QED
  BY <1>7, <1>10 DEF gs

-----------------------------------------------------------------------------
(* Assumptions of the theorems on the ConfigMaps. *)

\* Each backup of a ConfigMap has a restore: PairedCRs only compares numbers.
EachRestored ==
    \A c \in Contents : PairedCRs(c) =>
        \A b \in DOMAIN c.backups : \E r \in DOMAIN c.restores : c.restores[r].of = b

\* No object is in the lists of two backups of a wave.
ListedOnce ==
    \A c \in Contents : \A a, b \in DOMAIN c.backups :
        a # b /\ Wave(c.backups[a].wave) = Wave(c.backups[b].wave) => c.backups[a].objs \cap c.backups[b].objs = {}

-----------------------------------------------------------------------------
(* Types. *)

\* What can be known of a volume: it is as its owner left it, or was patched.
Patched == [policy |-> "Retain", updated |-> TRUE]
Volume(v) == {NoVolume, Untouched(v)} \cup (IF v = "kept" THEN {} ELSE {Patched})
Kept(vols) == DOMAIN vols = Volumes /\ \A v \in Volumes : vols[v] \in Volume(v)
\* As its owner left it; and safe to be backed up.
Clean(vols) == \A v \in Volumes : vols[v] \in {NoVolume, Untouched(v)}
Retained(vols) == \A v \in Volumes \ {"late"} : vols[v].policy # "Delete"

\* Phases of Velero's CRs.
Pending == {"", "InProgress"}
Phases == Pending \cup {"Completed"} \cup Failed
\* A backup, in the cluster or in the storage.
BackupFields == {"owner", "phase", "objs", "holds", "volumes", "attempt"}
IsBackup(x) ==
    \/ x = NoBackup
    \/ /\ DOMAIN x = BackupFields /\ x.owner \in Owners \cup {Me}
       /\ x.phase \in Phases /\ Kept(x.volumes)

\* Requests to delete a backup, and clusters.
Requests == [labelled : BOOLEAN, phase : {"none", "New", "Errors"}]
ClusterFields == {"crs", "requests", "restores", "label", "volumes", "dpas"}
IsCluster(c) ==
    /\ DOMAIN c = ClusterFields
    /\ DOMAIN c.crs = BackupNames /\ \A b \in BackupNames : IsBackup(c.crs[b])
    /\ DOMAIN c.requests = BackupNames
    /\ \A b \in BackupNames : c.requests[b] \in Requests
    /\ DOMAIN c.restores = RestoreNames
    /\ \A r \in RestoreNames : c.restores[r] \in {"none"} \cup Phases
    /\ DOMAIN c.label = Objects /\ Kept(c.volumes)

\* The steps of a reconcile in each stage.
Tracking == {"stale", "wait", "tracked", "label"}
Exporting == {"exportDPA", "exportRestores", "reboot"}
Restoring == {"restore", "restoredPVs", "removePath"}
Cleaning == {"cleanup", "waitAll", "restorePVs"}

\* The types of the variables.
TypesInv ==
    /\ cm \in Contents
    /\ stage \in {"Idle", "Prep", "Upgrade", "Rollback", "Cleanup"}
    /\ cond \in {"InProgress", "Completed", "Failed"}
    /\ attempt \in Nat /\ edits \in Nat /\ faults \in [FaultKinds -> Nat]
    /\ IsCluster(cl) /\ (prev # NoCluster => IsCluster(prev))
    /\ DOMAIN storage = BackupNames /\ \A b \in BackupNames : IsBackup(storage[b])
    /\ \A f \in files : f.name \in RestoreNames /\ f.of \in BackupNames
    /\ grp \in Nat /\ pos \in Nat

\* Where a reconcile can be in each stage, and which files and cluster it finds.
FlowInv ==
    /\ stage \in {"Idle", "Rollback"} => pc = "idle"
    /\ stage = "Prep" => pc \in {"idle", "stale", "wait", "tracked"}
    /\ PrePivot => pc \in {"idle", "patchPVs"} \cup Tracking \cup Exporting
    /\ PostPivot => pc \in {"idle"} \cup Restoring
    /\ stage = "Cleanup" => pc \in {"idle"} \cup Cleaning
    /\ prev # NoCluster => stage \in {"Upgrade", "Cleanup"}
    /\ stage = "Cleanup" /\ pc # "idle" => prev = NoCluster /\ files = {}
    /\ stage \in {"Idle", "Prep"} => files = {}
    /\ pc \in {"idle", "patchPVs"} => grp = 1 /\ pos = 1
    /\ PrePivot => cond # "Completed"

-----------------------------------------------------------------------------
(* Volumes. *)

\* Backups of this cluster, those that are not finished, and no failed probe.
Own(c, b) == c.crs[b].owner = Me
Unfinished(c, b) == Own(c, b) /\ c.crs[b].phase \in Pending
Probed == faults["probe"] = 0

\* Volumes are as their owners left them before an upgrade and after it, and a
\* backup that is still to be made finds them retained, as long as no cleanup
\* was skipped.
VolumesInv ==
    /\ Probed /\ stage \in {"Idle", "Prep"} => Clean(cl.volumes)
    /\ \A b \in BackupNames : storage[b] # NoBackup => storage[b].phase = "Completed" /\ (Probed => Retained(storage[b].volumes))
    /\ \A b \in BackupNames : Unfinished(cl, b) => prev = NoCluster /\ (Probed => Retained(cl.volumes))
    /\ prev # NoCluster => \A b \in BackupNames : Unfinished(prev, b) => (Probed => Retained(prev.volumes))
    /\ Probed /\ PrePivot /\ pc \in Tracking => Retained(cl.volumes)
    /\ pc = "waitAll" => \A b \in BackupNames : Unfinished(cl, b) => b \in stale
    /\ Probed /\ pc = "restorePVs" => \A b \in BackupNames : ~Unfinished(cl, b)

-----------------------------------------------------------------------------
(* The ConfigMap and what was read of it. *)

\* From Prep on the ConfigMap is one that was validated, and the files are its restores.
PairedInv ==
    /\ stage \in {"Upgrade", "Rollback"} \/ prev # NoCluster => PairedCRs(cm)
    /\ stage = "Prep" /\ (pc # "idle" \/ cond = "Completed") => PairedCRs(cm)
    /\ files \in {{}, ExportedRestores(cm)}
    /\ PrePivot /\ pc = "reboot" => files = ExportedRestores(cm)
    /\ PostPivot /\ cond # "Completed" => files = ExportedRestores(cm)
    /\ PostPivot /\ pc \in Restoring => files = ExportedRestores(cm)

\* The groups a reconcile works on are those of the ConfigMap or of the files.
SnapInv ==
    /\ PrePivot /\ pc = "patchPVs" => snap = Groups(cm.backups) /\ 1 \in DOMAIN snap
    /\ PrePivot /\ pc \in Tracking => snap = Groups(cm.backups) /\ grp \in DOMAIN snap /\ pos >= 1
    /\ PrePivot /\ pc = "label" => pos \in DOMAIN snap[grp]
    /\ PostPivot /\ pc = "restore" => snap = LoadRestoresFromOadpRestorePath(files) /\ grp \in DOMAIN snap /\ pos >= 1

-----------------------------------------------------------------------------
(* The cluster that was booted by the pivot, and the one it left. *)

\* The seed's cluster has no backup that is not in the storage, and no restore
\* without its backup.
SeedInv ==
    prev # NoCluster =>
        /\ \A b \in BackupNames : cl.crs[b] # NoBackup => cl.crs[b] = storage[b]
        /\ \A b \in BackupNames : cl.requests[b].phase = "none"
        /\ \A r \in RestoreNames : cl.restores[r] # "none" => r \in DOMAIN cm.restores /\ Own(cl, cm.restores[r].of)
        /\ (pc \in {"restoredPVs", "removePath"} \/ cond = "Completed" \/ stage = "Cleanup") =>
             \A r \in DOMAIN cm.restores : cl.restores[r] = "Completed"
        /\ \A r \in RestoreNames : prev.restores[r] \notin Pending

\* The cluster whose backups are in the storage.
Home == IF prev = NoCluster THEN cl ELSE prev

\* No restore is under way there, and a backup that is completed is stored.
HomeInv ==
    /\ prev = NoCluster => \A r \in RestoreNames : cl.restores[r] \notin Pending
    /\ \A b \in BackupNames : Own(Home, b) /\ Home.crs[b].phase = "Completed" => storage[b].owner = Me

\* A backup of this cluster is of this upgrade.
Current(x) == x.owner = Me => x.attempt = attempt

\* It is made from the definition that the ConfigMap has.
DefInv(b, x) == x.owner = Me => b \in DOMAIN cm.backups /\ x.objs = cm.backups[b].objs

\* Nothing is left of this cluster.
NoneOwn == \A b \in BackupNames : storage[b].owner # Me /\ cl.crs[b].owner # Me

\* What is stored of this cluster is of this upgrade and known in its cluster, where
\* a cleanup finds it; Velero is asked to delete it by a cleanup only.
OwnInv ==
    /\ \A b \in BackupNames : /\ Current(storage[b]) /\ Current(Home.crs[b])
                              /\ DefInv(b, storage[b]) /\ DefInv(b, Home.crs[b])
    /\ stage \in {"Idle", "Prep"} \/ pc = "restorePVs" => NoneOwn
    /\ \A b \in BackupNames : storage[b].owner = Me => Own(Home, b)
    /\ pc = "waitAll" => \A b \in BackupNames : Own(cl, b) => b \in stale
    /\ \A b \in BackupNames : Home.requests[b].phase = "New" =>
         Taken(Home.crs[b]) /\ (stage # "Cleanup" => ~Own(Home, b))

-----------------------------------------------------------------------------
(* Waves and labels. *)

\* A backup that completed.
Saved(b) == Own(cl, b) /\ cl.crs[b].phase = "Completed"

\* The waves before the current one are saved, all of them when the node pivots.
WavesInv ==
    /\ PrePivot /\ pc \in Tracking =>
         \A g \in 1 .. grp - 1 : \A k \in DOMAIN snap[g] : Saved(snap[g][k].name)
    /\ PrePivot /\ pc \in Exporting => \A b \in DOMAIN cm.backups : Saved(b)
    /\ prev # NoCluster => \A b \in DOMAIN cm.backups : storage[b].owner = Me
    /\ PrePivot => \A b, c \in DOMAIN cm.backups :
         Wave(cm.backups[b].wave) < Wave(cm.backups[c].wave) /\ Own(cl, c) => Saved(b)

\* The waves before the current one are restored.
RestoresInv ==
    /\ PostPivot /\ pc = "restore" =>
         \A g \in 1 .. grp - 1 : \A k \in DOMAIN snap[g] : cl.restores[snap[g][k].name] = "Completed"
    /\ PostPivot => \A q, r \in DOMAIN cm.restores :
         Wave(cm.restores[q].wave) < Wave(cm.restores[r].wave) /\ cl.restores[r] # "none" =>
            cl.restores[q] = "Completed"

\* A backup that is being made finds its label on all its objects.
LabelsInv ==
    /\ stage = "Upgrade" => \A b \in BackupNames : storage[b].owner = Me => storage[b].holds = storage[b].objs
    /\ PrePivot => \A b \in BackupNames : Unfinished(cl, b) => \A o \in cl.crs[b].objs : cl.label[o] = b
    /\ PrePivot /\ pc = "label" =>
         \A o \in snap[grp][pos].def.objs : cl.label[o] = snap[grp][pos].name

-----------------------------------------------------------------------------
\* What holds whatever is edited, and what holds of a ConfigMap that is not.
Base == TypesInv /\ FlowInv /\ VolumesInv
Core == PairedInv /\ SnapInv /\ SeedInv /\ HomeInv /\ RestoresInv /\ (Probed => OwnInv /\ WavesInv /\ (ListedOnce => LabelsInv))
Inv == Base /\ (edits = 0 => Core)

-----------------------------------------------------------------------------
(* Facts about the constants. *)

\* Me is none of the other owners, and neither is an owner at all.
LEMMA OwnerFacts ==
    /\ Me # "none" /\ Me \notin Owners /\ "none" \notin Owners
    /\ NoBackup.owner = "none" /\ NoBackup.owner # Me
    /\ NoRequest.phase = "none" /\ ~NoRequest.labelled
BY OwnersAssumption DEF Me, NoBackup, NoRequest

\* A cluster is not the absence of one.
LEMMA ClusterIsOne ==
    ASSUME NEW c, IsCluster(c)
    PROVE  c # NoCluster
<1>1. DOMAIN NoCluster = {"crs"}
  BY DEF NoCluster
<1>2. DOMAIN c = ClusterFields
  BY DEF IsCluster
<1> QED
  BY <1>1, <1>2 DEF ClusterFields

\* What a backup is.
LEMMA BackupFacts ==
    ASSUME NEW x, IsBackup(x)
    PROVE  /\ x # NoBackup <=> x.owner # "none"
           /\ Taken(x) <=> x # NoBackup
           /\ x.owner = Me => x # NoBackup
           /\ x # NoBackup => DOMAIN x = BackupFields /\ x.owner \in Owners \cup {Me}
                              /\ x.phase \in Phases /\ Kept(x.volumes)
           /\ x.owner # "none" => PhaseOf(x) = x.phase
           /\ PhaseOf(NoBackup) = "none"
<1>1. DOMAIN NoBackup = {"owner"} /\ "phase" \notin {"owner"} /\ "phase" \in BackupFields
  BY DEF NoBackup, BackupFields
<1> QED
  BY <1>1, OwnerFacts DEF IsBackup, Taken, PhaseOf

\* Names of the ConfigMaps are names of the model.
LEMMA NameFacts ==
    ASSUME NEW c \in Contents
    PROVE  /\ DOMAIN c.backups \subseteq BackupNames /\ DOMAIN c.restores \subseteq RestoreNames
           /\ \A r \in DOMAIN c.restores : c.restores[r].of \in BackupNames
           /\ \A b \in DOMAIN c.backups : c.backups[b].objs \subseteq Objects
<1>1. DOMAIN c.backups \subseteq BackupNames /\ \A r \in DOMAIN c.restores : c.restores[r].of \in BackupNames
  BY DEF BackupNames
<1>2. DOMAIN c.restores \subseteq RestoreNames
  BY DEF RestoreNames
<1>3. \A b \in DOMAIN c.backups : c.backups[b].objs \subseteq Objects
  BY DEF Objects
<1> QED
  BY <1>1, <1>2, <1>3

\* The volumes that a policy can be told of.
LEMMA VolumeFacts ==
    /\ Volumes = {"app", "kept", "late"}
    /\ NoVolume.policy = "none" /\ NoVolume.updated = FALSE
    /\ Patched.policy = "Retain" /\ Patched.updated = TRUE
    /\ \A v \in Volumes : Untouched(v).updated = FALSE /\ Untouched(v).policy = OwnPolicy[v]
    /\ OwnPolicy["kept"] = "Retain" /\ OwnPolicy["app"] = "Delete" /\ OwnPolicy["late"] = "Delete"
    /\ Untouched("app") = [policy |-> "Delete", updated |-> FALSE]
    /\ Untouched("late") = [policy |-> "Delete", updated |-> FALSE]
BY DEF Volumes, NoVolume, Patched, Untouched, OwnPolicy

-----------------------------------------------------------------------------
(* Clusters that differ in one place. *)

\* One entry is x, and the others are the same.
OneCr(c, d, b, x) == \A y \in BackupNames : (y = b => d.crs[y] = x) /\ (y # b => d.crs[y] = c.crs[y])
OneRequest(c, d, b, x) ==
    \A y \in BackupNames : (y = b => d.requests[y] = x) /\ (y # b => d.requests[y] = c.requests[y])
OneRestore(c, d, r, x) ==
    \A y \in RestoreNames : (y = r => d.restores[y] = x) /\ (y # r => d.restores[y] = c.restores[y])
\* The parts that Velero's deletions leave alone are the same.
SameRest(c, d) == d.restores = c.restores /\ d.label = c.label /\ d.volumes = c.volumes /\ d.dpas = c.dpas

\* A cluster in which a backup, a request, a restore, the volumes or the labels
\* are written.
WithCr(c, b, x) == [c EXCEPT !.crs[b] = x]
WithPhase(c, b, p) == [c EXCEPT !.crs[b].phase = p]
WithRequest(c, b, x) == [c EXCEPT !.requests[b] = x]
WithRestore(c, r, x) == [c EXCEPT !.restores[r] = x]
WithVolumes(c, vols) == [c EXCEPT !.volumes = vols]
WithLabel(c, l) == [c EXCEPT !.label = l]
WithRestored(c, r, l, vols) == [c EXCEPT !.restores[r] = "Completed", !.label = l, !.volumes = vols]

\* One backup is written.
LEMMA CrsUpdated ==
    ASSUME NEW c, IsCluster(c), NEW b, NEW x, IsBackup(x), NEW d, d = WithCr(c, b, x)
    PROVE  /\ IsCluster(d) /\ d.requests = c.requests /\ SameRest(c, d)
           /\ OneCr(c, d, b, x)
<1>1. DOMAIN c = ClusterFields /\ "crs" \in ClusterFields
  BY DEF IsCluster, ClusterFields
<1>2. /\ DOMAIN d = ClusterFields /\ d.crs = [c.crs EXCEPT ![b] = x]
      /\ d.requests = c.requests /\ d.restores = c.restores /\ d.label = c.label
      /\ d.volumes = c.volumes /\ d.dpas = c.dpas
  BY <1>1 DEF ClusterFields, WithCr
<1>3. DOMAIN c.crs = BackupNames
  BY DEF IsCluster
<1>4. DOMAIN d.crs = BackupNames /\ \A y \in BackupNames : (y = b => d.crs[y] = x) /\ (y # b => d.crs[y] = c.crs[y])
  BY <1>2, <1>3
<1>5. IsCluster(d)
  BY <1>2, <1>4 DEF IsCluster
<1> QED
  BY <1>2, <1>4, <1>5 DEF SameRest, OneCr

\* One request is written.
LEMMA RequestUpdated ==
    ASSUME NEW c, IsCluster(c), NEW b,
           NEW x \in Requests, NEW d,
           d = WithRequest(c, b, x)
    PROVE  /\ IsCluster(d) /\ d.crs = c.crs /\ SameRest(c, d)
           /\ OneRequest(c, d, b, x)
<1>1. DOMAIN c = ClusterFields /\ "requests" \in ClusterFields
  BY DEF IsCluster, ClusterFields
<1>2. /\ DOMAIN d = ClusterFields /\ d.requests = [c.requests EXCEPT ![b] = x]
      /\ d.crs = c.crs /\ d.restores = c.restores /\ d.label = c.label
      /\ d.volumes = c.volumes /\ d.dpas = c.dpas
  BY <1>1 DEF ClusterFields, WithRequest
<1>3. DOMAIN c.requests = BackupNames
  BY DEF IsCluster
<1>4. DOMAIN d.requests = BackupNames /\ \A y \in BackupNames : (y = b => d.requests[y] = x) /\ (y # b => d.requests[y] = c.requests[y])
  BY <1>2, <1>3
<1>5. IsCluster(d)
  BY <1>2, <1>4 DEF IsCluster
<1> QED
  BY <1>2, <1>4, <1>5 DEF SameRest, OneRequest

\* One restore is written.
LEMMA RestoreUpdated ==
    ASSUME NEW c, IsCluster(c), NEW r, NEW x \in Phases, NEW d, d = WithRestore(c, r, x)
    PROVE  /\ IsCluster(d) /\ d.crs = c.crs /\ d.requests = c.requests
           /\ d.label = c.label /\ d.volumes = c.volumes /\ d.dpas = c.dpas
           /\ OneRestore(c, d, r, x)
<1>1. DOMAIN c = ClusterFields /\ "restores" \in ClusterFields
  BY DEF IsCluster, ClusterFields
<1>2. /\ DOMAIN d = ClusterFields /\ d.restores = [c.restores EXCEPT ![r] = x]
      /\ d.crs = c.crs /\ d.requests = c.requests /\ d.label = c.label
      /\ d.volumes = c.volumes /\ d.dpas = c.dpas
  BY <1>1 DEF ClusterFields, WithRestore
<1>3. DOMAIN c.restores = RestoreNames
  BY DEF IsCluster
<1>4. DOMAIN d.restores = RestoreNames /\ \A y \in RestoreNames : (y = r => d.restores[y] = x) /\ (y # r => d.restores[y] = c.restores[y])
  BY <1>2, <1>3
<1>5. IsCluster(d)
  BY <1>2, <1>4 DEF IsCluster
<1> QED
  BY <1>2, <1>4, <1>5 DEF OneRestore

\* The volumes are written.
LEMMA VolumesUpdated ==
    ASSUME NEW c, IsCluster(c), NEW vols, Kept(vols), NEW d, d = WithVolumes(c, vols)
    PROVE  /\ IsCluster(d) /\ d.crs = c.crs /\ d.requests = c.requests /\ d.restores = c.restores
           /\ d.label = c.label /\ d.volumes = vols /\ d.dpas = c.dpas
<1>1. DOMAIN c = ClusterFields /\ "volumes" \in ClusterFields
  BY DEF IsCluster, ClusterFields
<1>2. /\ DOMAIN d = ClusterFields /\ d.volumes = vols
      /\ d.crs = c.crs /\ d.requests = c.requests /\ d.label = c.label
      /\ d.restores = c.restores /\ d.dpas = c.dpas
  BY <1>1 DEF ClusterFields, WithVolumes
<1>5. IsCluster(d)
  BY <1>2 DEF IsCluster
<1> QED
  BY <1>2, <1>5

\* The labels are written.
LEMMA LabelUpdated ==
    ASSUME NEW c, IsCluster(c), NEW l, DOMAIN l = Objects, NEW d, d = WithLabel(c, l)
    PROVE  /\ IsCluster(d) /\ d.crs = c.crs /\ d.requests = c.requests /\ d.restores = c.restores
           /\ d.label = l /\ d.volumes = c.volumes /\ d.dpas = c.dpas
<1>1. DOMAIN c = ClusterFields /\ "label" \in ClusterFields
  BY DEF IsCluster, ClusterFields
<1>2. /\ DOMAIN d = ClusterFields /\ d.volumes = c.volumes
      /\ d.crs = c.crs /\ d.requests = c.requests /\ d.label = l
      /\ d.restores = c.restores /\ d.dpas = c.dpas
  BY <1>1 DEF ClusterFields, WithLabel
<1>5. IsCluster(d)
  BY <1>2 DEF IsCluster
<1> QED
  BY <1>2, <1>5

\* Patching and restoring the policy of a volume (PatchPVsReclaimPolicy,
\* RestorePVsReclaimPolicy).
LEMMA PatchedVolumes ==
    ASSUME NEW vols, Kept(vols), NEW v \in Volumes, vols[v].policy = "Delete",
           NEW w, w = [vols EXCEPT ![v] = Patched]
    PROVE  Kept(w) /\ (Retained(vols) => Retained(w))
<1>1. DOMAIN w = Volumes /\ w[v] = Patched /\ \A u \in Volumes : u # v => w[u] = vols[u]
  BY DEF Kept
<1>2. v # "kept" /\ Patched \in Volume(v)
  BY VolumeFacts DEF Kept, Volume
<1>3. Kept(w)
  BY <1>1, <1>2 DEF Kept
<1>4. Retained(vols) => Retained(w)
  BY <1>1, VolumeFacts DEF Retained
<1> QED
  BY <1>3, <1>4

\* What was patched is as its owner left it again (RestorePVsReclaimPolicy).
LEMMA RestoredVolumes ==
    ASSUME NEW vols, Kept(vols), NEW v \in Volumes, vols[v].updated,
           NEW w, w = [vols EXCEPT ![v] = [policy |-> "Delete", updated |-> FALSE]]
    PROVE  Kept(w)
<1>1. DOMAIN w = Volumes /\ w[v] = [policy |-> "Delete", updated |-> FALSE] /\ \A u \in Volumes : u # v => w[u] = vols[u]
  BY DEF Kept
<1>2. v # "kept" /\ w[v] = Untouched(v)
  BY <1>1, VolumeFacts DEF Kept, Volume
<1> QED
  BY <1>1, <1>2 DEF Kept, Volume

\* When none is patched or none can be deleted, the loops have done their work.
LEMMA LoopsEnd ==
    ASSUME IsCluster(cl)
    PROVE  /\ Deletable = {} => Retained(cl.volumes)
           /\ Updated = {} => Clean(cl.volumes)
<1>1. Kept(cl.volumes)
  BY DEF IsCluster
<1>2. Deletable = {} => Retained(cl.volumes)
  BY DEF Deletable, Retained
<1>3. Updated = {} => Clean(cl.volumes)
  BY <1>1, VolumeFacts DEF Updated, Clean, Kept, Volume
<1> QED
  BY <1>2, <1>3

\* An empty cluster.
LEMMA EmptyFacts ==
    ASSUME NEW n, NEW c, c = EmptyCluster(n)
    PROVE  /\ IsCluster(c) /\ Clean(c.volumes) /\ Retained(c.volumes)
           /\ \A b \in BackupNames : c.crs[b] = NoBackup /\ c.requests[b] = NoRequest
           /\ \A r \in RestoreNames : c.restores[r] = "none"
<1>1. /\ DOMAIN c = ClusterFields
      /\ c.crs = [b \in BackupNames |-> NoBackup] /\ c.requests = [b \in BackupNames |-> NoRequest]
      /\ c.restores = [r \in RestoreNames |-> "none"] /\ c.label = [o \in Objects |-> 0]
      /\ c.volumes = [v \in Volumes |-> NoVolume]
  BY DEF EmptyCluster, ClusterFields
<1>2. Kept(c.volumes) /\ Clean(c.volumes) /\ Retained(c.volumes)
  BY <1>1, VolumeFacts DEF Kept, Clean, Retained, Volume
<1>3. NoRequest \in Requests
  BY DEF NoRequest, Requests
<1>4. IsBackup(NoBackup)
  BY DEF IsBackup
<1>5. IsCluster(c)
  BY <1>1, <1>2, <1>3, <1>4 DEF IsCluster
<1> QED
  BY <1>1, <1>2, <1>5

-----------------------------------------------------------------------------
(* Steps of a reconcile that leave the clusters and the storage alone. *)

\* A call that fails does not count as a failed probe.
LEMMA FaultFacts ==
    ASSUME TypesInv, NEW k \in FaultKinds, FaultOf(k)
    PROVE  /\ faults' \in [FaultKinds -> Nat]
           /\ Probed' => Probed
<1>1. faults \in [FaultKinds -> Nat] /\ faults' = [faults EXCEPT ![k] = @ + 1]
  BY DEF TypesInv, FaultOf
<1>2. faults' \in [FaultKinds -> Nat] /\ (k # "probe" => faults'["probe"] = faults["probe"])
  BY <1>1 DEF FaultKinds
<1>3. k = "probe" => faults'["probe"] # 0
  BY <1>1 DEF FaultKinds
<1> QED
  BY <1>2, <1>3 DEF Probed

\* A step that leaves clusters and storage alone; a call may fail.
Quiet ==
    /\ UNCHANGED <<cm, stage, attempt, cl, prev, storage, edits>>
    /\ faults' \in [FaultKinds -> Nat] /\ (Probed' => Probed)

\* What does not change then.
LEMMA QuietFacts ==
    ASSUME Quiet
    PROVE  /\ cm' = cm /\ stage' = stage /\ attempt' = attempt /\ cl' = cl /\ prev' = prev
           /\ storage' = storage /\ edits' = edits
           /\ PrePivot' = PrePivot /\ PostPivot' = PostPivot /\ Home' = Home
BY DEF Quiet, PrePivot, PostPivot, Home

\* The parts that only look at them.
LEMMA QuietKept ==
    ASSUME Inv, Quiet
    PROVE  /\ IsCluster(cl') /\ (prev' # NoCluster => IsCluster(prev'))
           /\ edits' = 0 => HomeInv'
<1> USE QuietFacts
<1>1. IsCluster(cl') /\ (prev' # NoCluster => IsCluster(prev'))
  BY DEF Inv, Base, TypesInv
<1>2. edits' = 0 => HomeInv'
  BY DEF Inv, Core, HomeInv, Own
<1> QED
  BY <1>1, <1>2

\* A reconcile that ends where it is.
LEMMA EndKept ==
    ASSUME Inv, Quiet, End, files' = files,
           cond' \in {"InProgress", "Completed", "Failed"},
           cond' = cond \/ (cond' = "Failed" /\ (PostPivot => pc \in Restoring))
    PROVE  Inv'
<1> USE QuietFacts
<1>1. pc' = "idle" /\ snap' = <<>> /\ grp' = 1 /\ pos' = 1 /\ stale' = {}
  BY DEF End
<1>2. TypesInv'
  BY <1>1 DEF Inv, Base, TypesInv, Quiet
<1>3. FlowInv'
  BY <1>1 DEF Inv, Base, FlowInv
<1>4. VolumesInv'
  BY <1>1 DEF Inv, Base, VolumesInv, Quiet, Tracking, Unfinished, Own
<1>5. ASSUME edits' = 0 PROVE Core'
  <2>1. PairedInv'
    BY <1>1, <1>5 DEF Inv, Core, PairedInv, Restoring
  <2>2. SnapInv'
    BY <1>1 DEF SnapInv, Tracking
  <2>3. SeedInv'
    BY <1>1, <1>5 DEF Inv, Core, SeedInv, Own
  <2>4. HomeInv'
    BY QuietKept, <1>5
  <2>5. RestoresInv'
    BY <1>1, <1>5 DEF Inv, Core, RestoresInv
  <2>6. Probed' => OwnInv'
    BY <1>1, <1>5 DEF Inv, Core, OwnInv, Quiet, Current, DefInv, Own, NoneOwn
  <2>7. Probed' => WavesInv'
    BY <1>1, <1>5 DEF Inv, Core, WavesInv, Quiet, Own, Saved, Tracking, Exporting
  <2>8. Probed' /\ ListedOnce => LabelsInv'
    BY <1>1, <1>5 DEF Inv, Core, LabelsInv, Quiet, Unfinished, Own
  <2> QED
    BY <2>1, <2>2, <2>3, <2>4, <2>5, <2>6, <2>7, <2>8 DEF Core
<1> QED
  BY <1>2, <1>3, <1>4, <1>5 DEF Inv, Base

\* A step of the loop over the backups of a group, in Prep or in Upgrade.
LEMMA AdvanceKept ==
    ASSUME Inv, Quiet, files' = files, cond' = cond, snap' = snap, grp' = grp,
           pos' \in Nat, pos' >= 1, pc \in Tracking, pc' \in {"stale", "wait", "tracked"},
           stage = "Prep" \/ PrePivot
    PROVE  Inv'
<1> USE QuietFacts
<1>1. TypesInv'
  BY DEF Inv, Base, TypesInv, Quiet
<1>2. FlowInv'
  BY DEF Inv, Base, FlowInv, Tracking, PrePivot, PostPivot
<1>3. VolumesInv'
  BY DEF Inv, Base, VolumesInv, Quiet, Tracking, Unfinished, Own
<1>4. ASSUME edits' = 0 PROVE Core'
  <2>1. PairedInv'
    BY <1>4 DEF Inv, Core, PairedInv, Restoring, Tracking, PrePivot, PostPivot
  <2>2. SnapInv'
    BY <1>4 DEF Inv, Core, SnapInv, Tracking, PrePivot, PostPivot
  <2>3. SeedInv'
    BY <1>4 DEF Inv, Core, SeedInv, Own, Base, FlowInv, PrePivot
  <2>4. HomeInv'
    BY QuietKept, <1>4
  <2>5. RestoresInv'
    BY <1>4 DEF Inv, Core, RestoresInv, PrePivot, PostPivot
  <2>6. Probed' => OwnInv'
    BY <1>4 DEF Inv, Core, OwnInv, Quiet, Current, DefInv, Own, NoneOwn
  <2>7. Probed' => WavesInv'
    BY <1>4 DEF Inv, Core, WavesInv, Quiet, Own, Saved, Tracking, Exporting
  <2>8. Probed' /\ ListedOnce => LabelsInv'
    BY <1>4 DEF Inv, Core, LabelsInv, Quiet, Unfinished, Own
  <2> QED
    BY <2>1, <2>2, <2>3, <2>4, <2>5, <2>6, <2>7, <2>8 DEF Core
<1> QED
  BY <1>1, <1>2, <1>3, <1>4 DEF Inv, Base

\* Requests to delete backups come and go.
LEMMA RequestsKept ==
    ASSUME Inv, IsCluster(cl'), cl'.crs = cl.crs, SameRest(cl, cl'),
           UNCHANGED <<cm, stage, cond, attempt, prev, storage, files, pc, snap, grp, edits>>,
           faults' \in [FaultKinds -> Nat], Probed' => Probed,
           pos' \in Nat, pos' >= 1 \/ pos' = pos, pc \in {"label", "idle", "patchPVs"} => pos' = pos, stale \subseteq stale',
           edits = 0 => \A b \in BackupNames : cl'.requests[b].phase # "none" => prev = NoCluster,
           \A b \in BackupNames : cl'.requests[b].phase = "New" =>
              cl.requests[b].phase = "New" \/ (Taken(cl.crs[b]) /\ (stage # "Cleanup" => ~Own(cl, b)))
    PROVE  Inv'
<1>0. /\ PrePivot' = PrePivot /\ PostPivot' = PostPivot /\ prev' = prev /\ pc' = pc /\ stage' = stage
      /\ cl'.restores = cl.restores /\ cl'.label = cl.label /\ cl'.volumes = cl.volumes
      /\ (prev # NoCluster => Home' = Home) /\ Home'.crs = Home.crs
      /\ cm' = cm /\ cond' = cond /\ attempt' = attempt /\ storage' = storage /\ files' = files
      /\ snap' = snap /\ grp' = grp /\ edits' = edits
  BY DEF PrePivot, PostPivot, SameRest, Home
<1>1. TypesInv'
  BY <1>0 DEF Inv, Base, TypesInv
<1>2. FlowInv'
  BY <1>0 DEF Inv, Base, FlowInv
<1>3. VolumesInv'
  BY <1>0 DEF Inv, Base, VolumesInv, Unfinished, Own
<1>4. ASSUME edits' = 0 PROVE Core'
  <2>0. Core
    BY <1>0, <1>4 DEF Inv
  <2>1. PairedInv'
    BY <1>0, <2>0 DEF Core, PairedInv
  <2>2. SnapInv'
    BY <1>0, <2>0 DEF Core, SnapInv
  <2>3. SeedInv'
    BY <1>0, <1>4, <2>0 DEF Core, SeedInv, Own
  <2>4. HomeInv'
    BY <1>0, <2>0 DEF Core, HomeInv, Own
  <2>5. RestoresInv'
    BY <1>0, <2>0 DEF Core, RestoresInv
  <2>6. ASSUME Probed' PROVE OwnInv'
    <3>1. OwnInv
      BY <2>0, <2>6 DEF Core
    <3>2. \A b \in BackupNames : /\ Current(storage[b])' /\ Current(Home.crs[b])'
                                 /\ DefInv(b, storage[b])' /\ DefInv(b, Home.crs[b])'
      BY <1>0, <3>1 DEF OwnInv, Current, DefInv
    <3>3. stage' \in {"Idle", "Prep"} \/ pc' = "restorePVs" => NoneOwn'
      BY <1>0, <3>1 DEF OwnInv, NoneOwn
    <3>4. \A b \in BackupNames : storage'[b].owner = Me => Own(Home, b)'
      BY <1>0, <3>1 DEF OwnInv, Own
    <3>5. pc' = "waitAll" => \A b \in BackupNames : Own(cl, b)' => b \in stale'
      BY <1>0, <3>1 DEF OwnInv, Own
    <3>6. ASSUME NEW b \in BackupNames, Home'.requests[b].phase = "New"
          PROVE  Taken(Home'.crs[b]) /\ (stage' # "Cleanup" => ~Own(Home, b)')
      <4>1. CASE prev = NoCluster
        <5>1. Home' = cl' /\ Home = cl
          BY <4>1, <1>0 DEF Home
        <5> QED
          BY <5>1, <1>0, <3>1, <3>6 DEF OwnInv, Own
      <4>2. CASE prev # NoCluster
        BY <4>2, <1>0, <3>1, <3>6 DEF OwnInv, Own
      <4> QED
        BY <4>1, <4>2
    <3> QED
      BY <3>2, <3>3, <3>4, <3>5, <3>6 DEF OwnInv
  <2>7. Probed' => WavesInv'
    BY <1>0, <2>0 DEF Core, WavesInv, Own, Saved
  <2>8. Probed' /\ ListedOnce => LabelsInv'
    BY <1>0, <2>0 DEF Core, LabelsInv, Unfinished, Own
  <2> QED
    BY <2>1, <2>2, <2>3, <2>4, <2>5, <2>6, <2>7, <2>8 DEF Core
<1> QED
  BY <1>1, <1>2, <1>3, <1>4 DEF Inv, Base

\* A call fails or the operator is restarted.
LEMMA InterruptKept ==
    ASSUME Inv, Interrupt
    PROVE  Inv'
<1>1. Quiet
  BY FaultFacts DEF Interrupt, Quiet, Inv, Base, Fault, FaultKinds, cluster
<1>2. End /\ files' = files /\ cond' \in {"InProgress", "Completed", "Failed"}
  BY DEF Interrupt, Inv, Base, TypesInv
<1>3. cond' = cond \/ (cond' = "Failed" /\ (PostPivot => pc \in Restoring))
  BY DEF Interrupt, PostPivot
<1> QED
  BY <1>1, <1>2, <1>3, EndKept

\* A deletion that takes too long.
LEMMA DeletionTimeoutKept ==
    ASSUME Inv, DeletionTimeout
    PROVE  Inv'
<1>1. Quiet
  BY FaultFacts DEF DeletionTimeout, Quiet, Inv, Base, Fault, FaultKinds, cluster
<1>2. End /\ files' = files /\ cond' \in {"InProgress", "Completed", "Failed"}
  BY DEF DeletionTimeout, DeletionFailed, Inv, Base, TypesInv
<1>3. cond' = cond \/ (cond' = "Failed" /\ (PostPivot => pc \in Restoring))
  BY DEF DeletionTimeout, DeletionFailed, PostPivot
<1> QED
  BY <1>1, <1>2, <1>3, EndKept

\* A reconcile at the stale backups is in Prep, or in Upgrade before the pivot.
LEMMA TrackingStage ==
    ASSUME Inv, pc \in Tracking
    PROVE  stage = "Prep" \/ PrePivot
BY DEF Inv, Base, TypesInv, FlowInv, PrePivot, PostPivot, Tracking, Restoring, Cleaning

\* Looking for stale backups and asking Velero to delete them.
LEMMA CleanupStaleBackupsKept ==
    ASSUME Inv, CleanupStaleBackups
    PROVE  Inv'
<1>0. /\ pc = "stale" /\ pc \in Tracking /\ cm' = cm /\ stage' = stage /\ attempt' = attempt /\ prev' = prev
      /\ storage' = storage /\ files' = files /\ edits' = edits /\ faults' = faults
      /\ faults' \in [FaultKinds -> Nat] /\ Probed' = Probed /\ pos \in Nat
  BY DEF CleanupStaleBackups, Tracking, bounds, Inv, Base, TypesInv, Probed
<1>1. stage = "Prep" \/ PrePivot
  BY <1>0, TrackingStage
<1>2. CASE pc' \in {"wait", "tracked"} /\ pos' = 1 /\ UNCHANGED <<cl, cond, snap, grp, stale>>
  BY <1>0, <1>1, <1>2, AdvanceKept DEF Quiet
<1>3. CASE pos' = pos + 1 /\ UNCHANGED <<cl, cond, pc, snap, grp, stale>>
  BY <1>0, <1>1, <1>3, AdvanceKept DEF Quiet
<1>4. ASSUME NEW b, Stale(b), cl' = [cl EXCEPT !.requests[b] = [labelled |-> FALSE, phase |-> "New"]],
             stale' = stale \cup {b}, pos' = pos + 1, UNCHANGED <<cond, pc, snap, grp>>
      PROVE  Inv'
  <2> DEFINE req == [labelled |-> FALSE, phase |-> "New"]
  <2>1. req \in Requests /\ req.phase = "New" /\ cl' = WithRequest(cl, b, req)
    BY <1>4 DEF Requests, WithRequest
  <2> HIDE DEF req
  <2>2. /\ IsCluster(cl') /\ cl'.crs = cl.crs /\ SameRest(cl, cl')
        /\ OneRequest(cl, cl', b, req)
    <3>1. IsCluster(cl)
      BY DEF Inv, Base, TypesInv
    <3> QED
      BY <2>1, <3>1, RequestUpdated
  <2>3. prev = NoCluster
    BY <1>1 DEF Inv, Base, FlowInv, PrePivot
  <2>4. \A y \in BackupNames : cl'.requests[y].phase = "New" =>
              cl.requests[y].phase = "New" \/ (Taken(cl.crs[y]) /\ (stage # "Cleanup" => ~Own(cl, y)))
    BY <2>1, <2>2, <1>4 DEF Stale, Own, OneRequest
  <2> QED
    BY <1>0, <1>4, <2>2, <2>3, <2>4, RequestsKept
<1>5. CASE End /\ cond' = (IF stage = "Prep" THEN "Failed" ELSE cond) /\ UNCHANGED cl
  <2>1. cond' \in {"InProgress", "Completed", "Failed"}
    BY <1>5 DEF Inv, Base, TypesInv
  <2> QED
    BY <1>0, <1>5, <2>1, EndKept DEF Quiet, PostPivot
<1> QED
  BY <1>2, <1>3, <1>4, <1>5 DEF CleanupStaleBackups

\* What is said only of an upgrade.
LEMMA NotUpgrading ==
    ASSUME stage' # "Upgrade"
    PROVE  /\ ~PrePivot' /\ ~PostPivot' /\ SnapInv' /\ RestoresInv' /\ LabelsInv'
           /\ prev' = NoCluster => WavesInv'
<1>1. ~PrePivot' /\ ~PostPivot'
  BY DEF PrePivot, PostPivot
<1> QED
  BY <1>1 DEF SnapInv, RestoresInv, LabelsInv, WavesInv

\* A step of Prep.
LEMMA PrepKept ==
    ASSUME Inv, Quiet, stage = "Prep", files' = files, cond' \in {"InProgress", "Completed", "Failed"},
           grp' \in Nat, pos' \in Nat, pc' \in {"idle", "stale", "wait", "tracked"},
           pc' = "idle" => grp' = 1 /\ pos' = 1,
           edits = 0 /\ (pc' # "idle" \/ cond' = "Completed") => PairedCRs(cm)
    PROVE  Inv'
<1> USE QuietFacts
<1>0. ~PrePivot /\ ~PostPivot /\ prev = NoCluster
  BY DEF PrePivot, PostPivot, Inv, Base, FlowInv
<1>1. TypesInv'
  BY DEF Inv, Base, TypesInv, Quiet
<1>2. FlowInv'
  BY <1>0 DEF Inv, Base, FlowInv
<1>3. VolumesInv'
  BY <1>0 DEF Inv, Base, VolumesInv, Quiet, Tracking, Unfinished, Own
<1>4. ASSUME edits' = 0 PROVE Core'
  <2>0. Core
    BY <1>4 DEF Inv
  <2>1. PairedInv'
    BY <1>0, <1>4, <2>0 DEF Core, PairedInv
  <2>2. SnapInv' /\ RestoresInv' /\ LabelsInv' /\ WavesInv'
    BY <1>0, NotUpgrading
  <2>3. SeedInv'
    BY <1>0 DEF SeedInv
  <2>4. HomeInv'
    BY <2>0 DEF Core, HomeInv, Own
  <2>6. Probed' => OwnInv'
    BY <2>0, <1>0 DEF Core, OwnInv, Quiet, Current, DefInv, Own, NoneOwn
  <2> QED
    BY <2>1, <2>2, <2>3, <2>4, <2>6 DEF Core
<1> QED
  BY <1>1, <1>2, <1>3, <1>4 DEF Inv, Base

\* A step of a cleanup.
LEMMA CleaningKept ==
    ASSUME Inv, Quiet, stage = "Cleanup", pc \in Cleaning, pc' \in Cleaning, files' = files, cond' = cond,
           grp' \in Nat, pos' \in Nat,
           pc' = "waitAll" => \A b \in BackupNames : Own(cl, b) => b \in stale',
           Probed' /\ pc' = "restorePVs" => \A b \in BackupNames : ~Unfinished(cl, b),
           edits = 0 /\ Probed' /\ pc' = "restorePVs" => NoneOwn
    PROVE  Inv'
<1> USE QuietFacts
<1>0. ~PrePivot /\ ~PostPivot /\ prev = NoCluster /\ files = {} /\ pc' \notin {"idle", "patchPVs"} /\ pc' \notin Tracking
  BY DEF PrePivot, PostPivot, Inv, Base, FlowInv, Cleaning, Tracking
<1>1. TypesInv'
  BY DEF Inv, Base, TypesInv, Quiet
<1>2. FlowInv'
  BY <1>0 DEF Inv, Base, FlowInv
<1>3. VolumesInv'
  BY <1>0 DEF Inv, Base, VolumesInv, Quiet, Unfinished, Own
<1>4. ASSUME edits' = 0 PROVE Core'
  <2>0. Core
    BY <1>4 DEF Inv
  <2>1. PairedInv'
    BY <1>0, <1>4, <2>0 DEF Core, PairedInv
  <2>2. SnapInv' /\ RestoresInv' /\ LabelsInv' /\ WavesInv'
    BY <1>0, NotUpgrading
  <2>3. SeedInv'
    BY <1>0 DEF SeedInv
  <2>4. HomeInv'
    BY <2>0 DEF Core, HomeInv, Own
  <2>6. Probed' => OwnInv'
    BY <2>0, <1>0, <1>4 DEF Core, OwnInv, Quiet, Current, DefInv, Own, NoneOwn
  <2> QED
    BY <2>1, <2>2, <2>3, <2>4, <2>6 DEF Core
<1> QED
  BY <1>1, <1>2, <1>3, <1>4 DEF Inv, Base

\* Waiting for the requests: the backups are gone or the deletion failed.
LEMMA EnsureDeletedKept ==
    ASSUME Inv, ensureBackupsDeleted
    PROVE  Inv'
<1>1. Quiet /\ files' = files
  BY DEF ensureBackupsDeleted, Quiet, Inv, Base, TypesInv, Probed, cluster, bounds
<1>2. CASE pc = "wait" /\ pc' = "tracked" /\ pos' = 1 /\ UNCHANGED <<cond, snap, grp>>
  BY <1>1, <1>2, AdvanceKept, TrackingStage DEF Tracking
<1>3. CASE /\ pc = "waitAll" /\ BackupsGone /\ pc' = "restorePVs" /\ pos' = 1 /\ stale' = {}
           /\ UNCHANGED <<cond, snap, grp>>
  <2>1. stage = "Cleanup" /\ prev = NoCluster /\ grp \in Nat
    BY <1>3 DEF Inv, Base, FlowInv, TypesInv, PrePivot, PostPivot, Tracking, Exporting, Restoring
  <2>2. \A b \in BackupNames : b \in stale => cl.crs[b].owner # Me
    BY <1>3, OwnerFacts DEF BackupsGone, Taken
  <2>3. \A b \in BackupNames : ~Unfinished(cl, b)
    BY <1>3, <2>2 DEF Inv, Base, VolumesInv, Unfinished, Own
  <2>4. edits = 0 /\ Probed => NoneOwn
    BY <1>3, <2>1, <2>2 DEF Inv, Core, OwnInv, NoneOwn, Own, Home
  <2> QED
    BY <1>1, <1>3, <2>1, <2>3, <2>4, CleaningKept DEF Cleaning, Quiet
<1>4. CASE pc \in {"wait", "waitAll"} /\ DeletionFailed
  <2>1. cond' \in {"InProgress", "Completed", "Failed"} /\ End
    BY <1>4 DEF DeletionFailed, Inv, Base, TypesInv
  <2> QED
    BY <1>1, <1>4, <2>1, EndKept DEF DeletionFailed, PostPivot
<1> QED
  BY <1>2, <1>3, <1>4 DEF ensureBackupsDeleted

\* The ConfigMap is validated.
LEMMA ValidateKept ==
    ASSUME Inv, ValidateOadpConfigmaps
    PROVE  Inv'
<1>1. Quiet /\ files' = files /\ stage = "Prep" /\ pc = "idle" /\ grp' = grp /\ pos' = pos
  BY DEF ValidateOadpConfigmaps, Quiet, Inv, Base, TypesInv, Probed, cluster, bounds
<1>2. grp = 1 /\ pos = 1
  BY <1>1 DEF Inv, Base, FlowInv
<1>3. cond' \in {"InProgress", "Completed", "Failed"} /\ pc' \in {"idle", "stale"}
      /\ (pc' # "idle" \/ cond' = "Completed" => PairedCRs(cm))
  BY <1>1 DEF ValidateOadpConfigmaps, Inv, Base, TypesInv
<1> QED
  BY <1>1, <1>2, <1>3, PrepKept

\* Prep ends.
LEMMA PrepDoneKept ==
    ASSUME Inv, PrepDone
    PROVE  Inv'
<1>1. Quiet /\ stage = "Prep" /\ pc = "tracked" /\ End /\ cond' = "Completed" /\ files' = {}
  BY DEF PrepDone, Quiet, Inv, Base, TypesInv, Probed, cluster, bounds
<1>2. files = {}
  BY <1>1 DEF Inv, Base, FlowInv
<1>3. edits = 0 => PairedCRs(cm)
  BY <1>1 DEF Inv, Core, PairedInv
<1> QED
  BY <1>1, <1>2, <1>3, PrepKept DEF End

-----------------------------------------------------------------------------
(* An upgrade before the pivot. *)

\* A step of it that changes the control, the volumes and the labels.
LEMMA PreKept ==
    ASSUME Inv, PrePivot, cm' = cm, stage' = stage, attempt' = attempt, prev' = prev, storage' = storage,
           edits' = edits, faults' = faults \/ (faults' \in [FaultKinds -> Nat] /\ (Probed' => Probed)),
           IsCluster(cl'), cl'.crs = cl.crs, cl'.requests = cl.requests, cl'.restores = cl.restores,
           Retained(cl.volumes) => Retained(cl'.volumes),
           cond' \in {"InProgress", "Failed"}, pc' \in {"idle", "patchPVs"} \cup Tracking \cup Exporting,
           grp' \in Nat, pos' \in Nat, pc' \in {"idle", "patchPVs"} => grp' = 1 /\ pos' = 1,
           Probed /\ pc' \in Tracking => Retained(cl'.volumes),
           \A f \in files' : f.name \in RestoreNames /\ f.of \in BackupNames,
           edits = 0 => PairedInv' /\ SnapInv',
           edits = 0 /\ Probed /\ pc' \in Tracking =>
              \A g \in 1 .. grp' - 1 : \A k \in DOMAIN snap'[g] : Saved(snap'[g][k].name),
           edits = 0 /\ Probed /\ pc' \in Exporting => \A b \in DOMAIN cm.backups : Saved(b),
           edits = 0 /\ Probed /\ ListedOnce => LabelsInv'
    PROVE  Inv'
<1>0. /\ PrePivot' /\ ~PostPivot' /\ Home = cl /\ Home' = cl' /\ (Probed' => Probed)
      /\ stage = "Upgrade" /\ stage' = "Upgrade" /\ prev = NoCluster /\ prev' = NoCluster
      /\ pc' \notin {"waitAll", "restorePVs"} /\ faults' \in [FaultKinds -> Nat]
  BY DEF PrePivot, PostPivot, Home, Probed, Tracking, Exporting, Inv, Base, TypesInv
<1>1. TypesInv'
  BY <1>0 DEF Inv, Base, TypesInv
<1>2. FlowInv'
  BY <1>0 DEF Inv, Base, FlowInv
<1>3. VolumesInv'
  BY <1>0 DEF Inv, Base, VolumesInv, Unfinished, Own
<1>4. ASSUME edits' = 0 PROVE Core'
  <2>0. Core
    BY <1>4 DEF Inv
  <2>1. PairedInv' /\ SnapInv'
    BY <1>4
  <2>3. SeedInv'
    BY <1>0 DEF SeedInv
  <2>4. HomeInv'
    BY <1>0, <2>0 DEF Core, HomeInv, Own
  <2>5. RestoresInv'
    BY <1>0 DEF RestoresInv
  <2>6. Probed' => OwnInv'
    BY <1>0, <2>0 DEF Core, OwnInv, Current, DefInv, Own, NoneOwn
  <2>7. ASSUME Probed' PROVE WavesInv'
    <3>1. Probed /\ WavesInv /\ edits = 0
      BY <1>0, <1>4, <2>0, <2>7 DEF Core
    <3>2. \A b : Saved(b)' = Saved(b) /\ Own(cl, b)' = Own(cl, b)
      BY DEF Saved, Own
    <3>3. pc' \in Tracking => \A g \in 1 .. grp' - 1 : \A k \in DOMAIN snap'[g] : Saved(snap'[g][k].name)
      BY <3>1
    <3>4. pc' \in Exporting => \A b \in DOMAIN cm.backups : Saved(b)
      BY <3>1
    <3> QED
      BY <1>0, <3>1, <3>2, <3>3, <3>4 DEF WavesInv
  <2>8. Probed' /\ ListedOnce => LabelsInv'
    BY <1>0, <1>4
  <2> QED
    BY <2>1, <2>3, <2>4, <2>5, <2>6, <2>7, <2>8 DEF Core
<1> QED
  BY <1>1, <1>2, <1>3, <1>4 DEF Inv, Base

\* The labels of a step that touches neither them nor the loop.
LEMMA LabelsKept ==
    ASSUME LabelsInv, PrePivot, stage' = stage, prev' = prev, storage' = storage,
           cl'.crs = cl.crs, cl'.label = cl.label, pc' # "label"
    PROVE  LabelsInv'
BY DEF LabelsInv, Unfinished, Own, PrePivot

\* The backups begin: the ConfigMap is read.
LEMMA HandleBackupKept ==
    ASSUME Inv, HandleBackup
    PROVE  Inv'
<1>0. /\ PrePivot /\ cond = "InProgress" /\ pc = "idle" /\ cm' = cm /\ stage' = stage /\ cond' = cond /\ cl' = cl
      /\ attempt' = attempt /\ prev' = prev /\ storage' = storage /\ files' = files /\ grp' = grp /\ pos' = pos
      /\ edits' = edits /\ faults' = faults /\ grp = 1 /\ pos = 1 /\ prev = NoCluster /\ stage = "Upgrade"
      /\ \A f \in files : f.name \in RestoreNames /\ f.of \in BackupNames
  BY DEF HandleBackup, bounds, cluster, Inv, Base, FlowInv, TypesInv, PrePivot
<1>1. IsCluster(cl) /\ cm \in Contents
  BY DEF Inv, Base, TypesInv
<1>2. CASE DOMAIN cm.backups = {}
  <2>1. pc' = "exportDPA"
    BY <1>2 DEF HandleBackup
  <2>2. edits = 0 => FALSE
    BY <1>0, <1>2 DEF Inv, Core, PairedInv, PairedCRs
  <2> QED
    BY <1>0, <1>1, <2>1, <2>2, PreKept DEF Exporting, Tracking
<1>3. CASE DOMAIN cm.backups # {}
  <2>1. snap' = Groups(cm.backups) /\ pc' = "patchPVs"
    BY <1>3 DEF HandleBackup
  <2>4. Sorted(snap', cm.backups)
    BY <1>1, <2>1, ContentsAreItems, GroupsSorted
  <2>5. 1 \in DOMAIN snap'
    BY <2>4, <1>3 DEF Sorted
  <2>6. edits = 0 => PairedInv'
    BY <1>0, <2>1 DEF Inv, Core, PairedInv, PrePivot, PostPivot, Restoring
  <2>7. SnapInv'
    BY <1>0, <2>1, <2>5 DEF SnapInv, PrePivot, PostPivot, Tracking
  <2>9. edits = 0 /\ Probed /\ ListedOnce => LabelsInv'
    <3>1. edits = 0 /\ Probed /\ ListedOnce => LabelsInv
      BY DEF Inv, Core
    <3> QED
      BY <1>0, <2>1, <3>1, LabelsKept
  <2> QED
    BY <1>0, <1>1, <2>1, <2>6, <2>7, <2>9, PreKept DEF Exporting, Tracking
<1> QED
  BY <1>2, <1>3

\* A volume is patched, or none is left to be.
LEMMA PatchKept ==
    ASSUME Inv, PatchPVsReclaimPolicy
    PROVE  Inv'
<1>0. /\ PrePivot /\ pc = "patchPVs" /\ cm' = cm /\ stage' = stage /\ cond' = cond /\ snap' = snap
      /\ attempt' = attempt /\ prev' = prev /\ storage' = storage /\ files' = files /\ grp' = 1 /\ pos' = 1
      /\ edits' = edits /\ faults' = faults /\ prev = NoCluster /\ stage = "Upgrade"
      /\ PrePivot' = PrePivot /\ PostPivot' = PostPivot
      /\ cond \in {"InProgress", "Failed"}
      /\ \A f \in files : f.name \in RestoreNames /\ f.of \in BackupNames
  BY DEF PatchPVsReclaimPolicy, bounds, loop, Inv, Base, FlowInv, TypesInv, PrePivot, PostPivot
<1>1. IsCluster(cl) /\ Kept(cl.volumes)
  BY DEF Inv, Base, TypesInv, IsCluster
<1>2. edits = 0 => PairedInv' \/ pc' \notin {"patchPVs", "stale"}
  BY <1>0 DEF Inv, Core, PairedInv, PrePivot, PostPivot, Restoring
<1>3. edits = 0 => SnapInv' \/ pc' \notin {"patchPVs", "stale"}
  BY <1>0 DEF Inv, Core, SnapInv, PrePivot, PostPivot, Tracking
<1>4. \A g \in 1 .. grp' - 1 : FALSE
  BY <1>0
<1>5. edits = 0 /\ Probed /\ ListedOnce => LabelsInv
  BY DEF Inv, Core
<1>6. CASE Deletable = {} /\ pc' = "stale" /\ UNCHANGED cl
  <2>1. Retained(cl.volumes)
    BY <1>1, <1>6, LoopsEnd
  <2>2. edits = 0 /\ Probed /\ ListedOnce => LabelsInv'
    BY <1>0, <1>5, <1>6, LabelsKept
  <2> QED
    BY <1>0, <1>1, <1>2, <1>3, <1>4, <1>6, <2>1, <2>2, PreKept DEF Exporting, Tracking
<1>7. ASSUME NEW v \in Deletable, UNCHANGED pc,
             cl' = [cl EXCEPT !.volumes[v] = [policy |-> "Retain", updated |-> TRUE]]
      PROVE  Inv'
  <2> DEFINE vols == [cl.volumes EXCEPT ![v] = Patched]
  <2>1. cl' = WithVolumes(cl, vols)
    BY <1>7 DEF WithVolumes, Patched
  <2>2. v \in Volumes /\ cl.volumes[v].policy = "Delete"
    BY DEF Deletable
  <2>3. Kept(vols) /\ (Retained(cl.volumes) => Retained(vols))
    BY <1>1, <2>2, PatchedVolumes
  <2> HIDE DEF vols
  <2>4. /\ IsCluster(cl') /\ cl'.crs = cl.crs /\ cl'.requests = cl.requests /\ cl'.restores = cl.restores
        /\ cl'.label = cl.label /\ cl'.volumes = vols
    BY <1>1, <2>1, <2>3, VolumesUpdated
  <2>5. edits = 0 /\ Probed /\ ListedOnce => LabelsInv'
    BY <1>0, <1>5, <1>7, <2>4, LabelsKept
  <2> QED
    BY <1>0, <1>2, <1>3, <1>7, <2>3, <2>4, <2>5, PreKept DEF Exporting, Tracking
<1> QED
  BY <1>6, <1>7 DEF PatchPVsReclaimPolicy

\* A volume appears.
LEMMA CreateVolumeKept ==
    ASSUME Inv, CreateVolume
    PROVE  Inv'
<1>0. /\ PrePivot /\ cm' = cm /\ stage' = stage /\ cond' = cond /\ pc' = pc /\ snap' = snap
      /\ attempt' = attempt /\ prev' = prev /\ storage' = storage /\ files' = files /\ grp' = grp /\ pos' = pos
      /\ edits' = edits /\ faults' = faults /\ prev = NoCluster /\ stage = "Upgrade"
      /\ PrePivot' = PrePivot /\ PostPivot' = PostPivot
  BY DEF CreateVolume, bounds, loop, PrePivot, PostPivot
<1>1. IsCluster(cl) /\ Kept(cl.volumes)
  BY DEF Inv, Base, TypesInv, IsCluster
<1> DEFINE vols == [cl.volumes EXCEPT !["late"] = Untouched("late")]
<1>2. Kept(vols) /\ (Retained(cl.volumes) => Retained(vols))
  <2>1. DOMAIN vols = Volumes /\ \A v \in Volumes : vols[v] = IF v = "late" THEN Untouched("late") ELSE cl.volumes[v]
    BY <1>1 DEF Kept
  <2> HIDE DEF vols
  <2> QED
    BY <1>1, <2>1, VolumeFacts DEF Kept, Retained, Volume
<1>3. cl' = WithVolumes(cl, vols)
  BY DEF CreateVolume, WithVolumes
<1> HIDE DEF vols
<1>4. /\ IsCluster(cl') /\ cl'.crs = cl.crs /\ cl'.requests = cl.requests /\ cl'.restores = cl.restores
      /\ cl'.label = cl.label /\ cl'.volumes = vols
  BY <1>1, <1>2, <1>3, VolumesUpdated
<1>5. /\ cond' \in {"InProgress", "Failed"} /\ pc' \in {"idle", "patchPVs"} \cup Tracking \cup Exporting /\ grp' \in Nat /\ pos' \in Nat
      /\ (pc' \in {"idle", "patchPVs"} => grp' = 1 /\ pos' = 1)
      /\ (Probed /\ pc' \in Tracking => Retained(cl'.volumes))
      /\ \A f \in files' : f.name \in RestoreNames /\ f.of \in BackupNames
  BY <1>0, <1>2, <1>4 DEF Inv, Base, TypesInv, FlowInv, VolumesInv
<1>6. ASSUME edits = 0 PROVE PairedInv' /\ SnapInv'
  BY <1>0, <1>6 DEF Inv, Core, PairedInv, SnapInv
<1>7. ASSUME edits = 0, Probed
      PROVE  /\ pc' \in Tracking => \A g \in 1 .. grp' - 1 : \A k \in DOMAIN snap'[g] : Saved(snap'[g][k].name)
             /\ pc' \in Exporting => \A b \in DOMAIN cm.backups : Saved(b)
  BY <1>0, <1>7 DEF Inv, Core, WavesInv
<1>8. ASSUME edits = 0, Probed, ListedOnce PROVE LabelsInv'
  BY <1>0, <1>4, <1>8 DEF Inv, Core, LabelsInv, Unfinished, Own
<1> QED
  BY <1>0, <1>2, <1>4, <1>5, <1>6, <1>7, <1>8, PreKept

\* What the groups of an upgrade are.
LEMMA SnapFacts ==
    ASSUME Inv, edits = 0, PrePivot, pc \in Tracking
    PROVE  /\ cm \in Contents /\ snap = Groups(cm.backups) /\ Sorted(snap, cm.backups) /\ grp \in DOMAIN snap /\ pos >= 1
           /\ \A g \in DOMAIN snap : \A k \in DOMAIN snap[g] : snap[g][k].def = cm.backups[snap[g][k].name]
           /\ grp \in Nat /\ pos \in Nat
<1>1. snap = Groups(cm.backups) /\ grp \in DOMAIN snap /\ pos >= 1
  BY DEF Inv, Core, SnapInv
<1>2. cm \in Contents /\ grp \in Nat /\ pos \in Nat
  BY DEF Inv, Base, TypesInv
<1> QED
  BY <1>1, <1>2, ContentsAreItems, GroupsSorted

\* A backup of an earlier wave than that of the group is saved.
LEMMA EarlierSaved ==
    ASSUME Inv, edits = 0, Probed, PrePivot, pc \in Tracking,
           NEW k \in DOMAIN snap[grp], NEW y \in DOMAIN cm.backups,
           WaveOf(cm.backups, y) < WaveOf(cm.backups, snap[grp][k].name)
    PROVE  Saved(y)
<1>1. Sorted(snap, cm.backups) /\ grp \in DOMAIN snap /\ grp \in Nat
  BY SnapFacts
<1>2. PICK g \in DOMAIN snap : \E l \in DOMAIN snap[g] : snap[g][l].name = y
  BY <1>1 DEF Sorted
<1>3. PICK l \in DOMAIN snap[g] : snap[g][l].name = y
  BY <1>2
<1>4. g < grp /\ g \in Nat /\ g >= 1
  <2>1. WaveOf(cm.backups, snap[g][l].name) < WaveOf(cm.backups, snap[grp][k].name)
    BY <1>3
  <2>2. g < grp
    BY <1>1, <2>1 DEF Sorted
  <2>3. Len(snap) \in Nat /\ DOMAIN snap = 1 .. Len(snap)
    BY <1>1 DEF Sorted
  <2> QED
    BY <2>2, <2>3
<1>5. g \in 1 .. grp - 1
  BY <1>1, <1>4
<1>6. Saved(snap[g][l].name)
  BY <1>5 DEF Inv, Core, WavesInv
<1> QED
  BY <1>3, <1>6

\* The phase of a backup that counts.
LEMMA CompletedIsSaved ==
    ASSUME NEW b, PhaseOf(getValidBackup(b)) = "Completed"
    PROVE  Saved(b)
<1>1. DOMAIN NoBackup = {"owner"}
  BY DEF NoBackup
<1>2. PhaseOf(NoBackup) = "none"
  BY <1>1 DEF PhaseOf
<1> QED
  BY <1>2 DEF getValidBackup, Valid, Saved, Own, PhaseOf

\* The backups of a group are looked at.
LEMMA BackupGroupKept ==
    ASSUME Inv, BackupGroup
    PROVE  Inv'
<1>0. /\ PrePivot /\ pc = "tracked" /\ cm' = cm /\ stage' = stage /\ cl' = cl
      /\ attempt' = attempt /\ prev' = prev /\ storage' = storage /\ files' = files
      /\ edits' = edits /\ faults' = faults /\ prev = NoCluster /\ stage = "Upgrade"
      /\ cond \in {"InProgress", "Failed"} /\ grp \in Nat /\ pc \in Tracking
      /\ PrePivot' = PrePivot /\ PostPivot' = PostPivot
      /\ \A f \in files' : f.name \in RestoreNames /\ f.of \in BackupNames
  BY DEF BackupGroup, bounds, cluster, PrePivot, PostPivot, Inv, Base, TypesInv, FlowInv, Tracking
<1>1. IsCluster(cl) /\ (Probed => Retained(cl.volumes)) /\ Quiet
  BY <1>0 DEF Inv, Base, TypesInv, VolumesInv, Quiet, Probed
<1> DEFINE phases == {PhaseOf(getValidBackup(snap[grp][i].name)) : i \in DOMAIN snap[grp]}
<1>2. CASE GroupCompleted(phases)
  <2>1. \A i \in DOMAIN snap[grp] : Saved(snap[grp][i].name)
    BY <1>2, CompletedIsSaved DEF GroupCompleted
  <2>2. /\ pos' = 1 /\ cond' = cond /\ snap' = snap
        /\ \/ grp = Len(snap) /\ pc' = "exportDPA" /\ grp' = 1
           \/ grp # Len(snap) /\ pc' = "stale" /\ grp' = grp + 1
    BY <1>2 DEF BackupGroup
  <2> HIDE DEF phases
  <2>3. ASSUME edits = 0, Probed
        PROVE  \A g \in 1 .. grp : \A k \in DOMAIN snap[g] : Saved(snap[g][k].name)
    <3>1. \A g \in 1 .. grp - 1 : \A k \in DOMAIN snap[g] : Saved(snap[g][k].name)
      BY <1>0, <2>3 DEF Inv, Core, WavesInv
    <3> QED
      BY <1>0, <2>1, <3>1
  <2>4. edits = 0 => PairedInv'
    BY <1>0, <2>2 DEF Inv, Core, PairedInv, PrePivot, PostPivot, Restoring
  <2>5. edits = 0 => SnapInv'
    <3> SUFFICES ASSUME edits = 0 PROVE SnapInv'
      OBVIOUS
    <3>1. snap = Groups(cm.backups) /\ Sorted(snap, cm.backups) /\ grp \in DOMAIN snap
      BY <1>0, SnapFacts
    <3>2. pc' = "stale" => grp + 1 \in DOMAIN snap
      BY <1>0, <2>2, <3>1 DEF Sorted
    <3> QED
      BY <1>0, <2>2, <3>1, <3>2 DEF SnapInv, PrePivot, PostPivot, Tracking
  <2>6. edits = 0 /\ Probed /\ pc' \in Tracking =>
              \A g \in 1 .. grp' - 1 : \A k \in DOMAIN snap'[g] : Saved(snap'[g][k].name)
    BY <1>0, <2>2, <2>3 DEF Tracking
  <2>7. edits = 0 /\ Probed /\ pc' \in Exporting => \A b \in DOMAIN cm.backups : Saved(b)
    <3> SUFFICES ASSUME edits = 0, Probed, pc' \in Exporting, NEW b \in DOMAIN cm.backups PROVE Saved(b)
      OBVIOUS
    <3>1. Sorted(snap, cm.backups)
      BY <1>0, SnapFacts
    <3>2. PICK g \in DOMAIN snap : \E k \in DOMAIN snap[g] : snap[g][k].name = b
      BY <3>1 DEF Sorted
    <3>3. g \in 1 .. grp
      BY <2>2, <3>1 DEF Sorted, Exporting
    <3> QED
      BY <2>3, <3>2, <3>3
  <2>8. edits = 0 /\ Probed /\ ListedOnce => LabelsInv'
    <3>1. edits = 0 /\ Probed /\ ListedOnce => LabelsInv
      BY DEF Inv, Core
    <3>2. pc' # "label"
      BY <2>2
    <3> QED
      BY <1>0, <3>1, <3>2, LabelsKept
  <2>9. pc' \in {"exportDPA", "stale"} /\ grp' \in Nat
    BY <1>0, <2>2
  <2> QED
    BY <1>0, <1>1, <2>2, <2>4, <2>5, <2>6, <2>7, <2>8, <2>9, PreKept DEF Exporting, Tracking
<1>3. CASE ~GroupCompleted(phases)
  <2>1. End /\ cond' = (IF GroupFailed(phases) THEN "Failed" ELSE cond)
    BY <1>3 DEF BackupGroup
  <2> HIDE DEF phases
  <2> QED
    BY <1>0, <1>1, <2>1, EndKept DEF PrePivot, PostPivot
<1> QED
  BY <1>2, <1>3

\* The DPA is exported, then the restores.
LEMMA ExportDPAKept ==
    ASSUME Inv, ExportOadpConfigurationToDir
    PROVE  Inv'
<1>0. /\ PrePivot /\ pc = "exportDPA" /\ pc' = "exportRestores" /\ cm' = cm /\ stage' = stage /\ cl' = cl /\ cond' = cond
      /\ attempt' = attempt /\ prev' = prev /\ storage' = storage /\ files' = files /\ snap' = snap
      /\ edits' = edits /\ prev = NoCluster /\ stage = "Upgrade"
      /\ grp' = grp /\ pos' = pos
      /\ cond \in {"InProgress", "Failed"} /\ grp \in Nat /\ pos \in Nat
      /\ PrePivot' = PrePivot /\ PostPivot' = PostPivot /\ IsCluster(cl)
      /\ \A f \in files' : f.name \in RestoreNames /\ f.of \in BackupNames
  BY DEF ExportOadpConfigurationToDir, bounds, cluster, loop, PrePivot, PostPivot, Inv, Base, TypesInv, FlowInv
<1>1. edits = 0 => PairedInv' /\ SnapInv'
  BY <1>0 DEF Inv, Core, PairedInv, SnapInv, PrePivot, PostPivot, Restoring, Tracking
<1>2. edits = 0 /\ Probed => \A b \in DOMAIN cm.backups : Saved(b)
  BY <1>0 DEF Inv, Core, WavesInv, Exporting
<1>3. edits = 0 /\ Probed /\ ListedOnce => LabelsInv'
  BY <1>0, LabelsKept DEF Inv, Core
<1>4. faults' = faults \/ (faults' \in [FaultKinds -> Nat] /\ (Probed' => Probed))
  BY FaultFacts DEF ExportOadpConfigurationToDir, Inv, Base, FaultKinds
<1> QED
  BY <1>0, <1>1, <1>2, <1>3, <1>4, PreKept DEF Tracking, Exporting

\* What is exported has names of the model.
LEMMA ExportNames ==
    ASSUME NEW c \in Contents
    PROVE  \A f \in ExportedRestores(c) : f.name \in RestoreNames /\ f.of \in BackupNames
<1>1. Exports(ExportedRestores(c), c.restores)
  BY ExportedFiles
<1> QED
  BY <1>1, NameFacts DEF Exports

\* The restores are exported, over those of an earlier export (ExportRestoresToDir).
LEMMA ExportRestoresKept ==
    ASSUME Inv, ExportRestoresToDir
    PROVE  Inv'
<1>0. /\ PrePivot /\ pc = "exportRestores" /\ pc' = "reboot" /\ cm' = cm /\ stage' = stage /\ cl' = cl /\ cond' = cond
      /\ attempt' = attempt /\ prev' = prev /\ storage' = storage /\ snap' = snap
      /\ edits' = edits /\ faults' = faults /\ prev = NoCluster /\ stage = "Upgrade"
      /\ grp' = grp /\ pos' = pos /\ cm \in Contents
      /\ cond \in {"InProgress", "Failed"} /\ grp \in Nat /\ pos \in Nat
      /\ PrePivot' = PrePivot /\ PostPivot' = PostPivot /\ IsCluster(cl)
      /\ \A f \in files : f.name \in RestoreNames /\ f.of \in BackupNames
  BY DEF ExportRestoresToDir, bounds, cluster, loop, PrePivot, PostPivot, Inv, Base, TypesInv, FlowInv
<1> DEFINE E == ExportedRestores(cm)
<1>1. files' = E \cup {f \in files : \A e \in E : FileName(f) # FileName(e)}
  BY DEF ExportRestoresToDir
<1>2. \A f \in E : f.name \in RestoreNames /\ f.of \in BackupNames
  BY <1>0, ExportNames
<1>3. edits = 0 => files \in {{}, E}
  BY DEF Inv, Core, PairedInv
<1>a. ExportedRestores(cm') = E
  BY <1>0
<1> HIDE DEF E
<1>4. \A f \in files' : f.name \in RestoreNames /\ f.of \in BackupNames
  BY <1>0, <1>1, <1>2
<1>5. edits = 0 => files' = E
  BY <1>1, <1>3
<1>6. edits = 0 => PairedInv' /\ SnapInv'
  <2>1. edits = 0 => PairedCRs(cm)
    BY <1>0 DEF Inv, Core, PairedInv
  <2> QED
    BY <1>0, <1>5, <1>a, <2>1 DEF PairedInv, SnapInv, PrePivot, PostPivot, Restoring, Tracking
<1>7. edits = 0 /\ Probed => \A b \in DOMAIN cm.backups : Saved(b)
  BY <1>0 DEF Inv, Core, WavesInv, Exporting
<1>8. edits = 0 /\ Probed /\ ListedOnce => LabelsInv'
  BY <1>0, LabelsKept DEF Inv, Core
<1> QED
  BY <1>0, <1>4, <1>6, <1>7, <1>8, PreKept DEF Tracking, Exporting

\* The node boots the new stateroot.
LEMMA PivotKept ==
    ASSUME Inv, Pivot
    PROVE  Inv'
<1>0. /\ PrePivot /\ pc = "reboot" /\ cm' = cm /\ stage' = stage /\ cond' = cond
      /\ attempt' = attempt /\ storage' = storage /\ files' = files
      /\ edits' = edits /\ faults' = faults /\ prev = NoCluster /\ stage = "Upgrade"
      /\ cond # "Completed" /\ prev' = cl
      /\ pc' = "idle" /\ snap' = <<>> /\ grp' = 1 /\ pos' = 1 /\ stale' = {}
  BY DEF Pivot, bounds, PrePivot, End, Inv, Base, FlowInv
<1>1. IsCluster(cl)
  BY DEF Inv, Base, TypesInv
<1>2. prev' # NoCluster /\ PostPivot' /\ ~PrePivot' /\ Home' = prev' /\ Home = cl
  BY <1>0, <1>1, ClusterIsOne DEF PostPivot, PrePivot, Home
<1>3. /\ IsCluster(cl') /\ \A b \in BackupNames : cl'.crs[b] = NoBackup /\ cl'.requests[b] = NoRequest
      /\ \A r \in RestoreNames : cl'.restores[r] = "none"
  BY EmptyFacts DEF Pivot
<1>4. TypesInv'
  BY <1>0, <1>1, <1>3 DEF Inv, Base, TypesInv
<1>5. FlowInv'
  BY <1>0, <1>2 DEF FlowInv
<1>6. VolumesInv'
  <2>1. \A b \in BackupNames : ~Unfinished(cl', b)
    BY <1>3, OwnerFacts DEF Unfinished, Own
  <2>2. \A b \in BackupNames : Unfinished(prev', b) => (Probed => Retained(prev'.volumes))
    BY <1>0 DEF Inv, Base, VolumesInv
  <2>3. Probed' = Probed /\ pc' \notin {"waitAll", "restorePVs"}
    BY <1>0 DEF Probed
  <2> QED
    BY <1>0, <1>2, <2>1, <2>2, <2>3 DEF Inv, Base, VolumesInv
<1>7. ASSUME edits' = 0 PROVE Core'
  <2>0. Core /\ Probed' = Probed
    BY <1>0, <1>7 DEF Inv, Probed
  <2>1. PairedInv'
    BY <1>0, <1>2, <2>0 DEF Core, PairedInv
  <2>2. SnapInv'
    BY <1>0, <1>2 DEF SnapInv
  <2>3. SeedInv'
    BY <1>0, <1>3, <2>0, OwnerFacts DEF SeedInv, Core, HomeInv
  <2>4. HomeInv'
    BY <1>0, <1>2, <2>0 DEF Core, HomeInv, Own
  <2>5. RestoresInv'
    <3>1. \A r \in DOMAIN cm.restores : cl'.restores[r] = "none"
      BY <1>3, NameFacts DEF Inv, Base, TypesInv
    <3> QED
      BY <1>0, <3>1 DEF RestoresInv
  <2>6. Probed' => OwnInv'
    BY <1>0, <1>2, <2>0 DEF Core, OwnInv, Current, DefInv, Own
  <2>7. Probed' => WavesInv'
    <3> SUFFICES ASSUME Probed PROVE \A b \in DOMAIN cm.backups : storage[b].owner = Me
      BY <1>0, <1>2, <2>0 DEF WavesInv
    <3>1. \A b \in DOMAIN cm.backups : Saved(b) /\ b \in BackupNames
      BY <1>0, <2>0, NameFacts DEF Core, WavesInv, Exporting, Inv, Base, TypesInv
    <3> QED
      BY <1>2, <2>0, <3>1 DEF Core, HomeInv, Saved
  <2>8. Probed' /\ ListedOnce => LabelsInv'
    BY <1>0, <1>2, <2>0 DEF LabelsInv, Core
  <2> QED
    BY <2>1, <2>2, <2>3, <2>4, <2>5, <2>6, <2>7, <2>8 DEF Core
<1> QED
  BY <1>4, <1>5, <1>6, <1>7 DEF Inv, Base

\* Labelling the objects of a backup.
LEMMA LabelStep ==
    ASSUME Inv, PrePivot, pc = "tracked", NEW b, NEW def, b = snap[grp][pos].name, def = snap[grp][pos].def,
           pos \in DOMAIN snap[grp] \/ edits # 0, ~Own(cl, b),
           IsCluster(cl'), cl'.crs = cl.crs, cl'.requests = cl.requests, cl'.restores = cl.restores,
           cl'.volumes = cl.volumes, cl'.label = applyBackupLabels(cl.label, b, def.objs), pc' = "label",
           snap' = snap, grp' = grp, pos' = pos, cm' = cm, stage' = stage, cond' = cond, attempt' = attempt,
           prev' = prev, storage' = storage, files' = files, edits' = edits, faults' = faults
    PROVE  Inv'
<1>0. /\ PrePivot' = PrePivot /\ PostPivot' = PostPivot /\ prev = NoCluster /\ stage = "Upgrade"
      /\ cond \in {"InProgress", "Failed"} /\ grp \in Nat /\ pos \in Nat /\ IsCluster(cl)
      /\ pc \in Tracking /\ pc' \in Tracking /\ pc' # "idle" /\ pc' \notin Exporting
      /\ \A f \in files' : f.name \in RestoreNames /\ f.of \in BackupNames
  BY DEF PrePivot, PostPivot, Inv, Base, TypesInv, FlowInv, Tracking, Exporting
<1> DEFINE l == applyBackupLabels(cl.label, b, def.objs)
<1>1. DOMAIN l = Objects /\ \A o \in Objects : l[o] = IF o \in def.objs THEN b ELSE cl.label[o]
  BY DEF applyBackupLabels
<1>3. cl'.label = l
  OBVIOUS
<1> HIDE DEF l
<1>4. Probed => Retained(cl'.volumes)
  BY <1>0, <1>3 DEF Inv, Base, VolumesInv
<1>5. edits = 0 => PairedInv' /\ SnapInv'
  BY <1>0 DEF Inv, Core, PairedInv, SnapInv, Tracking, Restoring, PrePivot, PostPivot
<1>6. edits = 0 /\ Probed => \A g \in 1 .. grp - 1 : \A k \in DOMAIN snap[g] : Saved(snap[g][k].name)
  BY <1>0 DEF Inv, Core, WavesInv
<1>7. ASSUME edits = 0, Probed, ListedOnce PROVE LabelsInv'
  <2>0. /\ cm \in Contents /\ Sorted(snap, cm.backups) /\ grp \in DOMAIN snap /\ pos \in DOMAIN snap[grp]
        /\ def = cm.backups[b]
    BY <1>0, <1>7, SnapFacts
  <2>1. b \in DOMAIN cm.backups /\ def.objs \subseteq Objects
    BY <2>0, NameFacts DEF Sorted
  <2>2. OwnInv /\ WavesInv /\ LabelsInv
    BY <1>7 DEF Inv, Core
  <2>3. ASSUME NEW y \in BackupNames, Unfinished(cl, y) PROVE \A o \in cl.crs[y].objs : l[o] = y
    <3>1. y # b /\ y \in DOMAIN cm.backups /\ cl.crs[y].objs = cm.backups[y].objs
      BY <1>0, <2>2, <2>3 DEF OwnInv, DefInv, Unfinished, Own, Home
    <3>2. ~Saved(y) /\ ~Saved(b)
      BY <2>3 DEF Unfinished, Saved, Pending
    <3>3. ~(WaveOf(cm.backups, y) < WaveOf(cm.backups, b))
      BY <1>0, <1>7, <2>0, <3>1, <3>2, EarlierSaved
    <3>4. ~(WaveOf(cm.backups, b) < WaveOf(cm.backups, y))
      BY <2>1, <2>2, <2>3, <3>1, <3>2 DEF WavesInv, WaveOf, Unfinished
    <3>5. WaveOf(cm.backups, y) \in Nat /\ WaveOf(cm.backups, b) \in Nat
      BY <2>0, <2>1, <3>1, ContentsAreItems DEF IsItems, WaveOf, Wave, defaultApplyWave
    <3>6. WaveOf(cm.backups, y) = WaveOf(cm.backups, b)
      BY <3>3, <3>4, <3>5
    <3>7. cm.backups[y].objs \cap cm.backups[b].objs = {} /\ cm.backups[y].objs \subseteq Objects
      BY <1>7, <2>0, <2>1, <3>1, <3>6, NameFacts DEF ListedOnce, WaveOf
    <3>8. \A o \in cl.crs[y].objs : cl.label[o] = y
      BY <2>2, <2>3 DEF LabelsInv
    <3> QED
      BY <1>1, <2>0, <3>1, <3>7, <3>8
  <2>4. \A o \in def.objs : l[o] = b
    BY <1>1, <2>1
  <2>5. \A y \in BackupNames : Unfinished(cl', y) <=> Unfinished(cl, y)
    BY <1>3 DEF Unfinished, Own
  <2> QED
    BY <1>0, <1>3, <2>2, <2>3, <2>4, <2>5 DEF LabelsInv
<1> QED
  BY <1>0, <1>3, <1>4, <1>5, <1>6, <1>7, PreKept

\* A CR that is created.
LEMMA NewBackupFacts ==
    ASSUME NEW def
    PROVE  /\ IsBackup(NewBackup(def)) /\ NewBackup(def).owner = Me /\ NewBackup(def).phase = ""
           /\ NewBackup(def).objs = def.objs /\ NewBackup(def).attempt = attempt
<1>1. Kept([v \in Volumes |-> NoVolume])
  BY DEF Kept, Volume
<1> QED
  BY <1>1 DEF NewBackup, IsBackup, BackupFields, Phases, Pending

\* Creating the CR of a backup whose objects are labelled.
LEMMA CreateStep ==
    ASSUME Inv, PrePivot, pc = "label", NEW b, NEW def, b = snap[grp][pos].name, def = snap[grp][pos].def,
           ~Taken(cl.crs[b]), ~Own(cl, b),
           NEW x, x = NewBackup(def), IsCluster(cl'), cl'.requests = cl.requests, SameRest(cl, cl'),
           OneCr(cl, cl', b, x), pc' = "tracked", pos' = pos + 1,
           snap' = snap, grp' = grp, cm' = cm, stage' = stage, cond' = cond, attempt' = attempt,
           prev' = prev, storage' = storage, files' = files, edits' = edits, faults' = faults
    PROVE  Inv'
<1>0. /\ PrePivot' /\ ~PostPivot' /\ ~PostPivot /\ prev = NoCluster /\ stage = "Upgrade"
      /\ cond \in {"InProgress", "Failed"} /\ grp \in Nat /\ pos \in Nat /\ IsCluster(cl)
      /\ pc \in Tracking /\ pc' \in Tracking /\ pc' # "idle" /\ pc' \notin Exporting
      /\ Home = cl /\ Home' = cl' /\ Probed' = Probed
  BY DEF PrePivot, PostPivot, Inv, Base, TypesInv, FlowInv, Tracking, Exporting, Home, Probed
<1>1. IsBackup(x) /\ x.owner = Me /\ x.phase = "" /\ x.objs = def.objs /\ x.attempt = attempt
  BY NewBackupFacts
<1>4. (Probed => Retained(cl.volumes)) /\ cl'.volumes = cl.volumes /\ cl'.restores = cl.restores /\ cl'.label = cl.label
  BY <1>0 DEF Inv, Base, VolumesInv, SameRest
<1>5. TypesInv'
  BY <1>0 DEF Inv, Base, TypesInv
<1>6. FlowInv'
  BY <1>0 DEF Inv, Base, FlowInv
<1>7. VolumesInv'
  BY <1>0, <1>4 DEF Inv, Base, VolumesInv
<1>8. ASSUME edits' = 0 PROVE Core'
  <2>0. Core
    BY <1>8 DEF Inv
  <2>a. /\ cm \in Contents /\ Sorted(snap, cm.backups) /\ grp \in DOMAIN snap /\ pos \in DOMAIN snap[grp]
        /\ def = cm.backups[b]
    <3>1. pos \in DOMAIN snap[grp]
      BY <2>0 DEF Core, SnapInv
    <3> QED
      BY <1>0, <1>8, <3>1, SnapFacts
  <2>b. b \in DOMAIN cm.backups /\ b \in BackupNames
    BY <2>a, NameFacts DEF Sorted
  <2>c. \A y \in BackupNames : y # b => cl'.crs[y] = cl.crs[y]
    BY DEF OneCr
  <2>d. cl'.crs[b] = x
    BY <2>b DEF OneCr
  <2>1. PairedInv'
    BY <1>0, <2>0 DEF Core, PairedInv
  <2>2. SnapInv'
    BY <1>0, <2>0 DEF Core, SnapInv
  <2>3. SeedInv'
    BY <1>0 DEF SeedInv
  <2>4. HomeInv'
    BY <1>0, <1>1, <1>4, <2>0, <2>c, <2>d DEF Core, HomeInv, Own
  <2>5. RestoresInv'
    BY <1>0 DEF RestoresInv
  <2>6. ASSUME Probed' PROVE OwnInv'
    <3>0. OwnInv
      BY <1>0, <2>0, <2>6 DEF Core
    <3>1. ASSUME NEW y \in BackupNames
          PROVE  /\ Current(storage[y])' /\ Current(Home.crs[y])' /\ DefInv(y, storage[y])' /\ DefInv(y, Home.crs[y])'
                 /\ storage'[y].owner = Me => Own(Home, y)'
                 /\ Home'.requests[y].phase = "New" => Taken(Home'.crs[y]) /\ (stage' # "Cleanup" => ~Own(Home, y)')
      <4>1. CASE y = b
        BY <1>0, <1>1, <2>a, <2>b, <2>d, <3>0, <4>1 DEF OwnInv, Current, DefInv, Own, Taken
      <4>2. CASE y # b
        BY <1>0, <2>c, <3>0, <4>2 DEF OwnInv, Current, DefInv, Own
      <4> QED
        BY <4>1, <4>2
    <3> QED
      BY <1>0, <3>1 DEF OwnInv
  <2>7. ASSUME Probed' PROVE WavesInv'
    <3>0. WavesInv /\ Probed
      BY <1>0, <2>0, <2>7 DEF Core
    <3>1. \A y \in BackupNames : Saved(y) => Saved(y)'
      BY <2>c DEF Saved, Own
    <3>2. \A g \in 1 .. grp - 1 : \A k \in DOMAIN snap[g] : Saved(snap[g][k].name)'
      <4>1. \A g \in 1 .. grp - 1 : \A k \in DOMAIN snap[g] : Saved(snap[g][k].name)
        BY <1>0, <3>0 DEF WavesInv
      <4>2. ASSUME NEW g \in 1 .. grp - 1, NEW k \in DOMAIN snap[g] PROVE snap[g][k].name \in BackupNames
        <5>1. g \in DOMAIN snap
          BY <1>0, <2>a DEF Sorted
        <5>2. snap[g][k].name \in DOMAIN cm.backups
          BY <2>a, <5>1 DEF Sorted
        <5> QED
          BY <2>a, <5>2, NameFacts
      <4> QED
        BY <3>1, <4>1, <4>2
    <3>3. ASSUME NEW y \in DOMAIN cm.backups, NEW c \in DOMAIN cm.backups,
                 Wave(cm.backups[y].wave) < Wave(cm.backups[c].wave), Own(cl', c)
          PROVE  Saved(y)'
      <4>0. y \in BackupNames /\ c \in BackupNames
        BY <2>a, NameFacts
      <4>1. CASE c = b
        <5>1. Saved(y)
          BY <1>0, <1>8, <2>a, <3>0, <3>3, <4>1, EarlierSaved DEF WaveOf
        <5> QED
          BY <3>1, <4>0, <5>1
      <4>2. CASE c # b
        <5>1. Own(cl, c)
          BY <2>c, <3>3, <4>0, <4>2 DEF Own
        <5>2. Saved(y)
          BY <3>0, <3>3, <5>1 DEF WavesInv
        <5> QED
          BY <3>1, <4>0, <5>2
      <4> QED
        BY <4>1, <4>2
    <3> QED
      BY <1>0, <3>2, <3>3 DEF WavesInv
  <2>8. ASSUME Probed', ListedOnce PROVE LabelsInv'
    <3>0. LabelsInv
      BY <1>0, <2>0, <2>8 DEF Core
    <3>1. ASSUME NEW y \in BackupNames, Unfinished(cl', y) PROVE \A o \in cl'.crs[y].objs : cl'.label[o] = y
      <4>1. CASE y = b
        BY <1>0, <1>1, <1>4, <2>d, <3>0, <4>1 DEF LabelsInv
      <4>2. CASE y # b
        BY <1>4, <2>c, <3>0, <3>1, <4>2 DEF LabelsInv, Unfinished, Own
      <4> QED
        BY <4>1, <4>2
    <3> QED
      BY <1>0, <3>0, <3>1 DEF LabelsInv
  <2> QED
    BY <2>1, <2>2, <2>3, <2>4, <2>5, <2>6, <2>7, <2>8 DEF Core
<1> QED
  BY <1>5, <1>6, <1>7, <1>8 DEF Inv, Base

\* A backup of the group is labelled and created, or is there already.
LEMMA StartOrTrackBackupKept ==
    ASSUME Inv, StartOrTrackBackup
    PROVE  Inv'
<1> DEFINE b == snap[grp][pos].name
           def == snap[grp][pos].def
<1>0. /\ PrePivot /\ pc \in {"tracked", "label"} /\ pos <= Len(snap[grp]) /\ cm' = cm /\ stage' = stage /\ cond' = cond
      /\ attempt' = attempt /\ prev' = prev /\ storage' = storage /\ files' = files
      /\ edits' = edits /\ faults' = faults /\ pos \in Nat /\ pc \in Tracking
      /\ cond \in {"InProgress", "Completed", "Failed"}
  BY DEF StartOrTrackBackup, bounds, Inv, Base, TypesInv, Tracking
<1>a. IsCluster(cl)
  BY DEF Inv, Base, TypesInv
<1>1. Taken(getValidBackup(b)) <=> Own(cl, b)
  BY OwnerFacts DEF getValidBackup, Valid, Taken, Own
<1>2. CASE Own(cl, b)
  <2>1. pos' = pos + 1 /\ pc' = "tracked" /\ cl' = cl /\ snap' = snap /\ grp' = grp
    BY <1>1, <1>2 DEF StartOrTrackBackup
  <2>2. Quiet /\ pos' \in Nat /\ pos' >= 1
    BY <1>0, <2>1 DEF Quiet, Inv, Base, TypesInv, Probed
  <2> QED
    BY <1>0, <2>1, <2>2, AdvanceKept
<1>3. CASE ~Own(cl, b) /\ pc = "tracked"
  <2>1. /\ cl' = WithLabel(cl, applyBackupLabels(cl.label, b, def.objs))
        /\ pc' = "label" /\ snap' = snap /\ grp' = grp /\ pos' = pos
    BY <1>1, <1>3 DEF StartOrTrackBackup, WithLabel
  <2>2. pos \in DOMAIN snap[grp] \/ edits # 0
    <3> SUFFICES ASSUME edits = 0 PROVE pos \in DOMAIN snap[grp]
      OBVIOUS
    <3>1. Sorted(snap, cm.backups) /\ grp \in DOMAIN snap /\ pos >= 1
      BY <1>0, SnapFacts
    <3> QED
      BY <1>0, <3>1 DEF Sorted
  <2> HIDE DEF b, def
  <2>3. DOMAIN applyBackupLabels(cl.label, b, def.objs) = Objects
    BY DEF applyBackupLabels
  <2>4. /\ IsCluster(cl') /\ cl'.crs = cl.crs /\ cl'.requests = cl.requests /\ cl'.restores = cl.restores
        /\ cl'.volumes = cl.volumes /\ cl'.label = applyBackupLabels(cl.label, b, def.objs)
    BY <1>a, <2>1, <2>3, LabelUpdated
  <2> QED
    BY <1>0, <1>3, <2>1, <2>2, <2>4, LabelStep DEF b, def
<1>4. CASE ~Own(cl, b) /\ pc = "label" /\ Taken(cl.crs[b])
  <2>1. End /\ cl' = cl
    BY <1>1, <1>4 DEF StartOrTrackBackup
  <2>2. Quiet
    BY <1>0, <2>1 DEF Quiet, Inv, Base, TypesInv, Probed
  <2> QED
    BY <1>0, <2>1, <2>2, EndKept
<1>5. CASE ~Own(cl, b) /\ pc = "label" /\ ~Taken(cl.crs[b])
  <2>1. /\ cl' = [cl EXCEPT !.crs[b] = NewBackup(def)]
        /\ pos' = pos + 1 /\ pc' = "tracked" /\ snap' = snap /\ grp' = grp
    BY <1>1, <1>5 DEF StartOrTrackBackup
  <2> DEFINE x == NewBackup(def)
  <2> HIDE DEF b, def
  <2>2. IsBackup(x) /\ cl' = WithCr(cl, b, x) /\ x = NewBackup(def)
    BY <2>1, NewBackupFacts DEF WithCr
  <2> HIDE DEF x
  <2>3. IsCluster(cl') /\ cl'.requests = cl.requests /\ SameRest(cl, cl') /\ OneCr(cl, cl', b, x)
    BY <1>a, <2>2, CrsUpdated
  <2> QED
    BY <1>0, <1>5, <2>1, <2>2, <2>3, CreateStep DEF b, def
<1> QED
  BY <1>0, <1>2, <1>3, <1>4, <1>5

-----------------------------------------------------------------------------
(* An upgrade after the pivot. *)

\* A step of it that leaves the backups alone.
LEMMA PostKept ==
    ASSUME Inv, PostPivot, cm' = cm, stage' = stage, attempt' = attempt, prev' = prev, storage' = storage,
           edits' = edits, faults' = faults,
           IsCluster(cl'), cl'.crs = cl.crs, cl'.requests = cl.requests,
           cond' \in {"InProgress", "Completed", "Failed"}, pc' \in {"idle"} \cup Restoring,
           grp' \in Nat, pos' \in Nat, pc' = "idle" => grp' = 1 /\ pos' = 1,
           files' \subseteq files,
           edits = 0 => PairedInv' /\ SnapInv' /\ SeedInv' /\ RestoresInv'
    PROVE  Inv'
<1>0. /\ PostPivot' /\ ~PrePivot' /\ ~PrePivot /\ Home = prev /\ Home' = prev /\ Probed' = Probed
      /\ stage = "Upgrade" /\ stage' = "Upgrade" /\ prev # NoCluster
      /\ pc' \notin {"waitAll", "restorePVs", "patchPVs"}
  BY DEF PrePivot, PostPivot, Home, Probed, Restoring
<1>1. TypesInv'
  BY <1>0 DEF Inv, Base, TypesInv
<1>2. FlowInv'
  BY <1>0 DEF Inv, Base, FlowInv
<1>3. VolumesInv'
  BY <1>0 DEF Inv, Base, VolumesInv, Unfinished, Own
<1>4. ASSUME edits' = 0 PROVE Core'
  <2>0. Core
    BY <1>4 DEF Inv
  <2>1. PairedInv' /\ SnapInv' /\ SeedInv' /\ RestoresInv'
    BY <1>4
  <2>4. HomeInv'
    BY <1>0, <2>0 DEF Core, HomeInv, Own
  <2>6. Probed' => OwnInv'
    BY <1>0, <2>0 DEF Core, OwnInv, Current, DefInv, Own
  <2>7. Probed' => WavesInv'
    BY <1>0, <2>0 DEF Core, WavesInv
  <2>8. Probed' /\ ListedOnce => LabelsInv'
    BY <1>0, <2>0 DEF Core, LabelsInv
  <2> QED
    BY <2>1, <2>4, <2>6, <2>7, <2>8 DEF Core
<1> QED
  BY <1>1, <1>2, <1>3, <1>4 DEF Inv, Base

\* The files of an upgrade that is not completed.
LEMMA FileFacts ==
    ASSUME Inv, edits = 0, PostPivot, cond # "Completed" \/ pc \in Restoring
    PROVE  /\ cm \in Contents /\ files = ExportedRestores(cm) /\ Exports(files, cm.restores)
           /\ DOMAIN cm.restores # {} /\ files # {}
           /\ Sorted(LoadRestoresFromOadpRestorePath(files), cm.restores)
<1>1. files = ExportedRestores(cm) /\ PairedCRs(cm) /\ cm \in Contents
  BY DEF Inv, Core, PairedInv, PostPivot, Base, TypesInv
<1>2. Exports(files, cm.restores)
  BY <1>1, ExportedFiles
<1>3. DOMAIN cm.restores # {}
  BY <1>1 DEF PairedCRs
<1>4. Sorted(LoadRestoresFromOadpRestorePath(files), cm.restores)
  BY <1>2, LoadedSorted
<1>5. files # {}
  BY <1>2, <1>3 DEF Exports
<1> QED
  BY <1>1, <1>2, <1>3, <1>4, <1>5

\* The restores begin: the files are loaded.
LEMMA HandleRestoreKept ==
    ASSUME Inv, HandleRestore
    PROVE  Inv'
<1>0. /\ PostPivot /\ cond = "InProgress" /\ pc = "idle" /\ cm' = cm /\ stage' = stage /\ cl' = cl
      /\ attempt' = attempt /\ prev' = prev /\ storage' = storage /\ files' = files /\ grp' = grp /\ pos' = pos
      /\ edits' = edits /\ faults' = faults /\ grp = 1 /\ pos = 1 /\ IsCluster(cl)
      /\ PrePivot' = PrePivot /\ PostPivot' = PostPivot /\ ~PrePivot
  BY DEF HandleRestore, bounds, cluster, Inv, Base, FlowInv, TypesInv, PrePivot, PostPivot
<1>1. CASE cond' = "Failed" /\ pc' = pc /\ snap' = snap
  <2>1. edits = 0 => PairedInv' /\ SnapInv'
    BY <1>0, <1>1 DEF Inv, Core, PairedInv, SnapInv, PostPivot
  <2>2. edits = 0 => SeedInv'
    BY <1>0, <1>1 DEF Inv, Core, SeedInv, Own
  <2>3. edits = 0 => RestoresInv'
    BY <1>0, <1>1 DEF Inv, Core, RestoresInv
  <2> QED
    BY <1>0, <1>1, <2>1, <2>2, <2>3, PostKept
<1>2. CASE files = {} /\ cond' = "Completed" /\ pc' = pc /\ snap' = snap
  <2>1. edits # 0
    BY <1>0, <1>2, FileFacts
  <2> QED
    BY <1>0, <1>2, <2>1, PostKept
<1>3. CASE snap' = LoadRestoresFromOadpRestorePath(files) /\ pc' = "restore" /\ cond' = cond
  <2>1. ASSUME edits = 0 PROVE PairedInv' /\ SnapInv'
    <3>1. /\ Sorted(snap', cm.restores) /\ DOMAIN cm.restores # {} /\ files = ExportedRestores(cm)
      BY <1>0, <1>3, <2>1, FileFacts
    <3>2. 1 \in DOMAIN snap'
      BY <3>1 DEF Sorted
    <3>3. PairedInv'
      BY <1>0, <2>1, <3>1 DEF Inv, Core, PairedInv, PostPivot
    <3>4. SnapInv'
      BY <1>0, <1>3, <3>2 DEF SnapInv
    <3> QED
      BY <3>3, <3>4
  <2>2. edits = 0 => SeedInv'
    BY <1>0, <1>3 DEF Inv, Core, SeedInv, Own
  <2>3. edits = 0 => RestoresInv'
    BY <1>0, <1>3 DEF Inv, Core, RestoresInv
  <2> QED
    BY <1>0, <1>3, <2>1, <2>2, <2>3, PostKept DEF Restoring
<1> QED
  BY <1>1, <1>2, <1>3 DEF HandleRestore

\* What the groups of restores are.
LEMMA RestoreSnapFacts ==
    ASSUME Inv, edits = 0, PostPivot, pc = "restore"
    PROVE  /\ cm \in Contents /\ Exports(files, cm.restores) /\ Sorted(snap, cm.restores) /\ grp \in DOMAIN snap
           /\ \A g \in DOMAIN snap : \A k \in DOMAIN snap[g] : snap[g][k] \in files
           /\ pos >= 1 /\ grp \in Nat /\ pos \in Nat
<1>1. snap = LoadRestoresFromOadpRestorePath(files) /\ grp \in DOMAIN snap /\ pos >= 1
  BY DEF Inv, Core, SnapInv
<1>2. cm \in Contents /\ Exports(files, cm.restores) /\ grp \in Nat /\ pos \in Nat
  BY FileFacts DEF Restoring, Inv, Base, TypesInv
<1>3. /\ Sorted(snap, cm.restores)
      /\ \A g \in DOMAIN snap : \A k \in DOMAIN snap[g] : snap[g][k] \in files
  BY <1>1, <1>2, LoadedSorted
<1> QED
  BY <1>1, <1>2, <1>3

\* A restore of an earlier wave than that of the group is completed.
LEMMA EarlierRestored ==
    ASSUME Inv, edits = 0, PostPivot, pc = "restore",
           NEW k \in DOMAIN snap[grp], NEW y \in DOMAIN cm.restores,
           WaveOf(cm.restores, y) < WaveOf(cm.restores, snap[grp][k].name)
    PROVE  cl.restores[y] = "Completed"
<1>1. Sorted(snap, cm.restores) /\ grp \in DOMAIN snap /\ grp \in Nat
  BY RestoreSnapFacts
<1>2. PICK g \in DOMAIN snap : \E l \in DOMAIN snap[g] : snap[g][l].name = y
  BY <1>1 DEF Sorted
<1>3. PICK l \in DOMAIN snap[g] : snap[g][l].name = y
  BY <1>2
<1>4. g < grp /\ g \in Nat /\ g >= 1
  <2>1. WaveOf(cm.restores, snap[g][l].name) < WaveOf(cm.restores, snap[grp][k].name)
    BY <1>3
  <2>2. g < grp
    BY <1>1, <2>1 DEF Sorted
  <2>3. Len(snap) \in Nat /\ DOMAIN snap = 1 .. Len(snap)
    BY <1>1 DEF Sorted
  <2> QED
    BY <2>2, <2>3
<1>5. g \in 1 .. grp - 1
  BY <1>1, <1>4
<1>6. cl.restores[snap[g][l].name] = "Completed"
  BY <1>5 DEF Inv, Core, RestoresInv
<1> QED
  BY <1>3, <1>6

\* A restore is created.
LEMMA RestoreStep ==
    ASSUME Inv, PostPivot, pc = "restore", NEW f, f = snap[grp][pos], pos \in DOMAIN snap[grp] \/ edits # 0,
           cl.restores[f.name] = "none", Own(cl, f.of),
           IsCluster(cl'), cl'.crs = cl.crs, cl'.requests = cl.requests,
           NEW x, OneRestore(cl, cl', f.name, x),
           pos' = pos + 1, cm' = cm, stage' = stage, cond' = cond, attempt' = attempt, prev' = prev,
           storage' = storage, files' = files, pc' = pc, snap' = snap, grp' = grp, edits' = edits, faults' = faults
    PROVE  Inv'
<1>0. /\ PrePivot' = PrePivot /\ PostPivot' = PostPivot /\ ~PrePivot /\ grp \in Nat /\ pos \in Nat
      /\ cond \in {"InProgress", "Completed", "Failed"} /\ stage = "Upgrade"
  BY DEF PrePivot, PostPivot, Inv, Base, TypesInv
<1>1. ASSUME edits = 0 PROVE PairedInv' /\ SnapInv' /\ SeedInv' /\ RestoresInv'
  <2>0. Core
    BY <1>1 DEF Inv
  <2>a. /\ cm \in Contents /\ Exports(files, cm.restores) /\ Sorted(snap, cm.restores) /\ grp \in DOMAIN snap
        /\ pos \in DOMAIN snap[grp] /\ f \in files
    BY <1>1, RestoreSnapFacts
  <2>b. /\ f.name \in DOMAIN cm.restores /\ f.of = cm.restores[f.name].of
        /\ DOMAIN cm.restores \subseteq RestoreNames
    BY <2>a, NameFacts DEF Exports
  <2>c. \A y \in RestoreNames : y # f.name => cl'.restores[y] = cl.restores[y]
    BY DEF OneRestore
  <2>e. \A y \in RestoreNames : cl.restores[y] = "Completed" => cl'.restores[y] = "Completed"
    BY <2>c
  <2>1. PairedInv'
    BY <1>0, <2>0 DEF Core, PairedInv
  <2>2. SnapInv'
    BY <1>0, <2>0 DEF Core, SnapInv
  <2>3. SeedInv'
    <3>1. prev # NoCluster /\ SeedInv
      BY <2>0 DEF Core, PostPivot
    <3>2. ASSUME NEW r \in RestoreNames, cl'.restores[r] # "none"
          PROVE  r \in DOMAIN cm.restores /\ Own(cl', cm.restores[r].of)
      <4>1. CASE r = f.name
        BY <2>b, <4>1 DEF Own
      <4>2. CASE r # f.name
        BY <2>c, <3>1, <3>2, <4>2 DEF SeedInv, Own
      <4> QED
        BY <4>1, <4>2
    <3>3. (pc' \in {"restoredPVs", "removePath"} \/ cond' = "Completed" \/ stage' = "Cleanup") =>
             \A r \in DOMAIN cm.restores : cl'.restores[r] = "Completed"
      BY <2>b, <2>e, <3>1 DEF SeedInv
    <3> QED
      BY <3>1, <3>2, <3>3 DEF SeedInv
  <2>5. RestoresInv'
    <3>0. RestoresInv
      BY <2>0 DEF Core
    <3>1. \A g \in 1 .. grp - 1 : \A k \in DOMAIN snap[g] : cl'.restores[snap[g][k].name] = "Completed"
      <4> SUFFICES ASSUME NEW g \in 1 .. grp - 1, NEW k \in DOMAIN snap[g]
                   PROVE  cl'.restores[snap[g][k].name] = "Completed"
        OBVIOUS
      <4>1. cl.restores[snap[g][k].name] = "Completed"
        BY <3>0 DEF RestoresInv
      <4>2. g \in DOMAIN snap
        BY <1>0, <2>a DEF Sorted
      <4>3. snap[g][k].name \in DOMAIN cm.restores
        BY <2>a, <4>2 DEF Sorted
      <4> QED
        BY <2>b, <2>e, <4>1, <4>3
    <3>2. ASSUME NEW q \in DOMAIN cm.restores, NEW r \in DOMAIN cm.restores,
                 Wave(cm.restores[q].wave) < Wave(cm.restores[r].wave), cl'.restores[r] # "none"
          PROVE  cl'.restores[q] = "Completed"
      <4>0. q \in RestoreNames /\ r \in RestoreNames
        BY <2>b
      <4>1. CASE r = f.name
        <5>1. cl.restores[q] = "Completed"
          BY <1>1, <2>a, <3>2, <4>1, EarlierRestored DEF WaveOf
        <5> QED
          BY <2>e, <4>0, <5>1
      <4>2. CASE r # f.name
        <5>1. cl.restores[r] # "none"
          BY <2>c, <3>2, <4>0, <4>2
        <5>2. cl.restores[q] = "Completed"
          BY <3>0, <3>2, <5>1 DEF RestoresInv
        <5> QED
          BY <2>e, <4>0, <5>2
      <4> QED
        BY <4>1, <4>2
    <3> QED
      BY <1>0, <3>1, <3>2 DEF RestoresInv
  <2> QED
    BY <2>1, <2>2, <2>3, <2>5
<1>2. pc' \in Restoring /\ pc' # "idle" /\ pos' \in Nat /\ grp' \in Nat
  BY <1>0 DEF Restoring
<1> QED
  BY <1>0, <1>1, <1>2, PostKept

\* A restore of the group is created, or waits for its backup.
LEMMA StartOrTrackRestoreKept ==
    ASSUME Inv, StartOrTrackRestore
    PROVE  Inv'
<1> DEFINE f == snap[grp][pos]
<1>0. /\ PostPivot /\ pc = "restore" /\ pos <= Len(snap[grp]) /\ cm' = cm /\ stage' = stage /\ cond' = cond
      /\ attempt' = attempt /\ prev' = prev /\ storage' = storage /\ files' = files /\ pc' = pc
      /\ edits' = edits /\ faults' = faults /\ snap' = snap /\ grp' = grp /\ pos' = pos + 1
      /\ pos \in Nat /\ grp \in Nat /\ cond \in {"InProgress", "Completed", "Failed"}
      /\ PrePivot' = PrePivot /\ PostPivot' = PostPivot
  BY DEF StartOrTrackRestore, bounds, Inv, Base, TypesInv, PrePivot, PostPivot
<1>1. Taken(getValidBackup(f.of)) <=> Own(cl, f.of)
  BY OwnerFacts DEF getValidBackup, Valid, Taken, Own
<1>2. IsCluster(cl)
  BY DEF Inv, Base, TypesInv
<1>3. CASE cl.restores[f.name] = "none" /\ Own(cl, f.of)
  <2>1. cl' = [cl EXCEPT !.restores[f.name] = ""]
    BY <1>1, <1>3 DEF StartOrTrackRestore
  <2>2. PICK x \in Phases : cl' = WithRestore(cl, f.name, x)
    BY <2>1 DEF Phases, Pending, WithRestore
  <2>3. IsCluster(cl') /\ cl'.crs = cl.crs /\ cl'.requests = cl.requests /\ OneRestore(cl, cl', f.name, x)
    BY <1>2, <2>2, RestoreUpdated
  <2>4. pos \in DOMAIN snap[grp] \/ edits # 0
    <3> SUFFICES ASSUME edits = 0 PROVE pos \in DOMAIN snap[grp]
      OBVIOUS
    <3>1. Sorted(snap, cm.restores) /\ grp \in DOMAIN snap /\ pos >= 1
      BY <1>0, RestoreSnapFacts
    <3> QED
      BY <1>0, <3>1 DEF Sorted
  <2> HIDE DEF f
  <2> QED
    BY <1>0, <1>3, <2>2, <2>3, <2>4, RestoreStep DEF f
<1>4. CASE ~(cl.restores[f.name] = "none" /\ Own(cl, f.of))
  <2>1. cl' = cl
    BY <1>1, <1>4 DEF StartOrTrackRestore
  <2> HIDE DEF f
  <2>2. ASSUME edits = 0 PROVE PairedInv' /\ SnapInv' /\ SeedInv' /\ RestoresInv'
    <3>0. Core
      BY <2>2 DEF Inv
    <3>1. PairedInv' /\ SnapInv' /\ RestoresInv'
      BY <1>0, <2>1, <3>0 DEF Core, PairedInv, SnapInv, RestoresInv, PrePivot, PostPivot
    <3>2. SeedInv'
      BY <1>0, <2>1, <3>0 DEF Core, SeedInv, Own
    <3> QED
      BY <3>1, <3>2
  <2> QED
    BY <1>0, <1>2, <2>1, <2>2, PostKept DEF Restoring
<1> QED
  BY <1>3, <1>4

\* The restores of a group are looked at.
LEMMA RestoreGroupKept ==
    ASSUME Inv, RestoreGroup
    PROVE  Inv'
<1>0. /\ PostPivot /\ pc = "restore" /\ cm' = cm /\ stage' = stage /\ cl' = cl
      /\ attempt' = attempt /\ prev' = prev /\ storage' = storage /\ files' = files
      /\ edits' = edits /\ faults' = faults /\ IsCluster(cl) /\ stage = "Upgrade"
      /\ cond \in {"InProgress", "Completed", "Failed"} /\ grp \in Nat /\ pc \in Restoring
      /\ PrePivot' = PrePivot /\ PostPivot' = PostPivot /\ ~PrePivot
  BY DEF RestoreGroup, bounds, cluster, PrePivot, PostPivot, Inv, Base, TypesInv, Restoring
<1>1. Quiet
  BY <1>0 DEF Inv, Base, TypesInv, Quiet, Probed
<1> DEFINE phases == {cl.restores[snap[grp][i].name] : i \in DOMAIN snap[grp]}
<1>2. CASE GroupCompleted(phases)
  <2>1. \A i \in DOMAIN snap[grp] : cl.restores[snap[grp][i].name] = "Completed"
    BY <1>2 DEF GroupCompleted
  <2>2. /\ pos' = 1 /\ cond' = cond /\ snap' = snap
        /\ \/ grp = Len(snap) /\ pc' = "restoredPVs" /\ grp' = grp
           \/ grp # Len(snap) /\ pc' = "restore" /\ grp' = grp + 1
    BY <1>0, <1>2 DEF RestoreGroup
  <2> HIDE DEF phases
  <2>3. ASSUME edits = 0 PROVE PairedInv' /\ SnapInv' /\ SeedInv' /\ RestoresInv'
    <3>0. Core
      BY <2>3 DEF Inv
    <3>a. Sorted(snap, cm.restores) /\ grp \in DOMAIN snap /\ snap = LoadRestoresFromOadpRestorePath(files)
      BY <1>0, <2>3, <3>0, RestoreSnapFacts DEF Core, SnapInv
    <3>1. \A g \in 1 .. grp : \A k \in DOMAIN snap[g] : cl.restores[snap[g][k].name] = "Completed"
      <4>1. \A g \in 1 .. grp - 1 : \A k \in DOMAIN snap[g] : cl.restores[snap[g][k].name] = "Completed"
        BY <1>0, <3>0 DEF Core, RestoresInv
      <4> QED
        BY <1>0, <2>1, <4>1
    <3>2. PairedInv'
      BY <1>0, <2>2, <3>0 DEF Core, PairedInv
    <3>3. SnapInv'
      <4>1. pc' = "restore" => grp + 1 \in DOMAIN snap
        <5>1. grp \in DOMAIN snap /\ DOMAIN snap = 1 .. Len(snap) /\ Len(snap) \in Nat /\ grp \in Nat
          BY <1>0, <3>a DEF Sorted
        <5> QED
          BY <2>2, <5>1
      <4> QED
        BY <1>0, <2>2, <3>a, <4>1 DEF SnapInv
    <3>4. pc' = "restoredPVs" => \A r \in DOMAIN cm.restores : cl.restores[r] = "Completed"
      <4> SUFFICES ASSUME pc' = "restoredPVs", NEW r \in DOMAIN cm.restores PROVE cl.restores[r] = "Completed"
        OBVIOUS
      <4>1. PICK g \in DOMAIN snap : \E k \in DOMAIN snap[g] : snap[g][k].name = r
        BY <3>a DEF Sorted
      <4>2. g \in 1 .. grp
        BY <2>2, <3>a DEF Sorted
      <4> QED
        BY <3>1, <4>1, <4>2
    <3>5. SeedInv'
      BY <1>0, <2>2, <3>0, <3>4 DEF Core, SeedInv, Own
    <3>6. RestoresInv'
      <4>1. pc' = "restore" => grp' - 1 = grp
        BY <1>0, <2>2
      <4> QED
        BY <1>0, <2>2, <3>0, <3>1, <4>1 DEF Core, RestoresInv
    <3> QED
      BY <3>2, <3>3, <3>5, <3>6
  <2>4. pc' \in Restoring /\ grp' \in Nat /\ pc' # "idle"
    BY <1>0, <2>2 DEF Restoring
  <2> QED
    BY <1>0, <2>2, <2>3, <2>4, PostKept
<1>3. CASE ~GroupCompleted(phases)
  <2>1. End /\ cond' = (IF GroupFailed(phases) THEN "Failed" ELSE cond)
    BY <1>3 DEF RestoreGroup
  <2> HIDE DEF phases
  <2> QED
    BY <1>0, <1>1, <2>1, EndKept
<1> QED
  BY <1>2, <1>3

\* The policies are restored.
LEMMA RestoredPVsKept ==
    ASSUME Inv, RestoredPVs
    PROVE  Inv'
<1>0. /\ PostPivot /\ pc = "restoredPVs" /\ pc' \in {"restoredPVs", "removePath"} /\ cm' = cm /\ stage' = stage /\ cond' = cond
      /\ attempt' = attempt /\ prev' = prev /\ storage' = storage /\ files' = files /\ snap' = snap /\ grp' = grp
      /\ pos' = pos /\ edits' = edits /\ faults' = faults /\ stage = "Upgrade"
      /\ cond \in {"InProgress", "Completed", "Failed"} /\ grp \in Nat /\ pos \in Nat
      /\ PrePivot' = PrePivot /\ PostPivot' = PostPivot /\ ~PrePivot
  BY DEF RestoredPVs, bounds, loop, PrePivot, PostPivot, Inv, Base, TypesInv
<1>1. IsCluster(cl) /\ Kept(cl.volumes)
  BY DEF Inv, Base, TypesInv, IsCluster
<1>3. IsCluster(cl') /\ cl'.crs = cl.crs /\ cl'.requests = cl.requests /\ cl'.restores = cl.restores
  <2>1. ASSUME NEW v \in Updated, RestorePVsReclaimPolicy(v)
        PROVE  IsCluster(cl') /\ cl'.crs = cl.crs /\ cl'.requests = cl.requests /\ cl'.restores = cl.restores
    <3> DEFINE vols == [cl.volumes EXCEPT ![v] = [policy |-> "Delete", updated |-> FALSE]]
    <3>1. cl' = WithVolumes(cl, vols)
      BY <2>1 DEF WithVolumes, RestorePVsReclaimPolicy
    <3>2. Kept(vols)
      BY <1>1, RestoredVolumes DEF Updated
    <3> HIDE DEF vols
    <3> QED
      BY <1>1, <3>1, <3>2, VolumesUpdated
  <2> QED
    BY <1>1, <2>1 DEF RestoredPVs
<1>4. ASSUME edits = 0 PROVE PairedInv' /\ SnapInv' /\ SeedInv' /\ RestoresInv'
  <2>0. Core
    BY <1>4 DEF Inv
  <2>1. PairedInv'
    BY <1>0, <2>0 DEF Core, PairedInv, Restoring
  <2>2. SnapInv'
    BY <1>0 DEF SnapInv
  <2>3. SeedInv'
    BY <1>0, <1>3, <2>0 DEF Core, SeedInv, Own
  <2>4. RestoresInv'
    BY <1>0, <1>3, <2>0 DEF Core, RestoresInv
  <2> QED
    BY <2>1, <2>2, <2>3, <2>4
<1> QED
  BY <1>0, <1>3, <1>4, PostKept DEF Restoring

\* The exported files are removed and the upgrade is complete.
LEMMA RemoveOadpPathKept ==
    ASSUME Inv, RemoveOadpPath
    PROVE  Inv'
<1>0. /\ PostPivot /\ pc = "removePath" /\ pc' = "idle" /\ cm' = cm /\ stage' = stage /\ cond' = "Completed"
      /\ attempt' = attempt /\ prev' = prev /\ storage' = storage /\ files' = {} /\ grp' = 1 /\ cl' = cl
      /\ pos' = 1 /\ edits' = edits /\ faults' = faults /\ stage = "Upgrade" /\ IsCluster(cl)
      /\ PrePivot' = PrePivot /\ PostPivot' = PostPivot /\ ~PrePivot
  BY DEF RemoveOadpPath, End, bounds, cluster, PrePivot, PostPivot, Inv, Base, TypesInv
<1>4. ASSUME edits = 0 PROVE PairedInv' /\ SnapInv' /\ SeedInv' /\ RestoresInv'
  <2>0. Core
    BY <1>4 DEF Inv
  <2>1. PairedInv'
    BY <1>0, <2>0 DEF Core, PairedInv, Restoring
  <2>2. SnapInv'
    BY <1>0 DEF SnapInv
  <2>3. SeedInv'
    BY <1>0, <2>0 DEF Core, SeedInv, Own
  <2>4. RestoresInv'
    BY <1>0, <2>0 DEF Core, RestoresInv
  <2> QED
    BY <2>1, <2>2, <2>3, <2>4
<1> QED
  BY <1>0, <1>4, PostKept

-----------------------------------------------------------------------------
(* Velero. *)

\* What a step of Velero leaves alone.
Outside ==
    /\ cm' = cm /\ stage' = stage /\ cond' = cond /\ attempt' = attempt /\ prev' = prev /\ files' = files
    /\ pc' = pc /\ snap' = snap /\ grp' = grp /\ pos' = pos /\ stale' = stale /\ edits' = edits
    /\ faults' \in [FaultKinds -> Nat] /\ (Probed' => Probed)

\* What such a step leaves alone.
LEMMA OutsideFacts ==
    ASSUME Outside
    PROVE  /\ cm' = cm /\ stage' = stage /\ cond' = cond /\ attempt' = attempt /\ prev' = prev /\ files' = files
           /\ pc' = pc /\ snap' = snap /\ grp' = grp /\ pos' = pos /\ stale' = stale /\ edits' = edits
           /\ PrePivot' = PrePivot /\ PostPivot' = PostPivot
BY DEF Outside, PrePivot, PostPivot

\* Steps of Velero are such steps.
LEMMA VeleroOutside ==
    ASSUME Inv, VeleroStep, edits' = edits, faults' = faults \/ Fault
    PROVE  Outside
<1>1. faults' \in [FaultKinds -> Nat] /\ (Probed' => Probed)
  <2>1. CASE faults' = faults
    BY <2>1 DEF Inv, Base, TypesInv, Probed
  <2>2. CASE Fault
    BY <2>2, FaultFacts DEF Fault, FaultKinds, Inv, Base
  <2> QED
    BY <2>1, <2>2
<1> QED
  BY <1>1 DEF VeleroStep, Outside, loop

\* What is saved stays so, and no backup is made.
LEMMA WavesMonotone ==
    ASSUME Inv, edits = 0, Probed, Outside,
           PrePivot => \A y \in BackupNames : (Saved(y) => Saved(y)') /\ (Own(cl', y) => Own(cl, y)),
           prev # NoCluster => storage' = storage
    PROVE  WavesInv'
<1> USE OutsideFacts
<1>0. WavesInv /\ cm \in Contents
  BY DEF Core, Inv, Base, TypesInv
<1>2. DOMAIN cm.backups \subseteq BackupNames
  BY <1>0, NameFacts
<1>3. PrePivot /\ pc \in Tracking => \A g \in 1 .. grp - 1 : \A k \in DOMAIN snap[g] : Saved(snap[g][k].name)'
  <2> SUFFICES ASSUME PrePivot, pc \in Tracking, NEW g \in 1 .. grp - 1, NEW k \in DOMAIN snap[g]
               PROVE  Saved(snap[g][k].name)'
    OBVIOUS
  <2>1. Saved(snap[g][k].name)
    BY <1>0 DEF WavesInv
  <2>2. Sorted(snap, cm.backups) /\ grp \in DOMAIN snap /\ grp \in Nat
    BY SnapFacts
  <2>3. g \in DOMAIN snap
    BY <2>2 DEF Sorted
  <2>4. snap[g][k].name \in BackupNames
    BY <1>2, <2>2, <2>3 DEF Sorted
  <2> QED
    BY <2>1, <2>4
<1>4. PrePivot /\ pc \in Exporting => \A y \in DOMAIN cm.backups : Saved(y)'
  BY <1>0, <1>2 DEF WavesInv
<1>5. PrePivot => \A y, c \in DOMAIN cm.backups :
         Wave(cm.backups[y].wave) < Wave(cm.backups[c].wave) /\ Own(cl', c) => Saved(y)'
  BY <1>0, <1>2 DEF WavesInv
<1> QED
  BY <1>0, <1>3, <1>4, <1>5 DEF WavesInv

\* A backup that is under way goes on, and is not completed yet.
LEMMA PhaseMoved ==
    ASSUME Inv, Outside, storage' = storage, NEW b \in BackupNames, Unfinished(cl, b),
           NEW x, x.owner = Me, x.phase # "Completed",
           x.objs = cl.crs[b].objs, x.attempt = cl.crs[b].attempt,
           IsCluster(cl'), cl'.requests = cl.requests, SameRest(cl, cl'), OneCr(cl, cl', b, x)
    PROVE  Inv'
<1> USE OutsideFacts
<1>0. /\ prev = NoCluster /\ Home = cl /\ Home' = cl' /\ cl'.restores = cl.restores /\ cl'.label = cl.label
      /\ cl'.volumes = cl.volumes /\ storage' = storage
  BY DEF Inv, Base, VolumesInv, Home, SameRest
<1>a. \A y \in BackupNames : /\ Own(cl', y) <=> Own(cl, y)
                             /\ Unfinished(cl', y) => Unfinished(cl, y)
                             /\ cl'.crs[y].phase = "Completed" => cl'.crs[y] = cl.crs[y]
                             /\ Own(cl, y) => cl'.crs[y].objs = cl.crs[y].objs /\ cl'.crs[y].attempt = cl.crs[y].attempt
                             /\ Taken(cl.crs[y]) => Taken(cl'.crs[y])
                             /\ (Own(cl, y) /\ cl.crs[y].phase = "Completed") => cl'.crs[y] = cl.crs[y]
  <2> SUFFICES ASSUME NEW y \in BackupNames
               PROVE  /\ Own(cl', y) <=> Own(cl, y)
                      /\ Unfinished(cl', y) => Unfinished(cl, y)
                      /\ cl'.crs[y].phase = "Completed" => cl'.crs[y] = cl.crs[y]
                      /\ Own(cl, y) => cl'.crs[y].objs = cl.crs[y].objs /\ cl'.crs[y].attempt = cl.crs[y].attempt
                      /\ Taken(cl.crs[y]) => Taken(cl'.crs[y])
                      /\ (Own(cl, y) /\ cl.crs[y].phase = "Completed") => cl'.crs[y] = cl.crs[y]
    OBVIOUS
  <2>1. CASE y = b
    <3>1. cl'.crs[y] = x
      BY <2>1 DEF OneCr
    <3> QED
      BY <2>1, <3>1, OwnerFacts DEF Own, Unfinished, Taken, Pending
  <2>2. CASE y # b
    <3>1. cl'.crs[y] = cl.crs[y]
      BY <2>2 DEF OneCr
    <3> QED
      BY <3>1 DEF Own, Unfinished
  <2> QED
    BY <2>1, <2>2
<1>1. TypesInv'
  BY <1>0 DEF Inv, Base, TypesInv, Outside
<1>2. FlowInv'
  BY DEF Inv, Base, FlowInv
<1>3. VolumesInv'
  BY <1>0, <1>a DEF Inv, Base, VolumesInv, Outside
<1>4. ASSUME edits' = 0 PROVE Core'
  <2>0. Core
    BY <1>4 DEF Inv
  <2>1. PairedInv'
    BY <2>0 DEF Core, PairedInv
  <2>2. SnapInv'
    BY <2>0 DEF Core, SnapInv
  <2>3. SeedInv'
    BY <1>0 DEF SeedInv
  <2>4. HomeInv'
    <3>1. \A y \in BackupNames : Own(cl', y) /\ cl'.crs[y].phase = "Completed" => storage[y].owner = Me
      BY <1>0, <1>a, <2>0 DEF Core, HomeInv, Own
    <3> QED
      BY <1>0, <2>0, <3>1 DEF Core, HomeInv
  <2>5. RestoresInv'
    BY <1>0, <2>0 DEF Core, RestoresInv
  <2>6. ASSUME Probed' PROVE OwnInv'
    <3>0. OwnInv
      BY <2>0, <2>6 DEF Core, Outside
    <3>1. \A y \in BackupNames : Current(storage[y])' /\ DefInv(y, storage[y])'
      BY <1>0, <3>0 DEF OwnInv, Current, DefInv
    <3>2. \A y \in BackupNames : Current(cl.crs[y])' /\ DefInv(y, cl.crs[y])'
      BY <1>0, <1>a, <3>0 DEF OwnInv, Current, DefInv, Own
    <3>3. stage' \in {"Idle", "Prep"} \/ pc' = "restorePVs" => NoneOwn'
      BY <1>0, <1>a, <3>0 DEF OwnInv, NoneOwn, Own
    <3>4. \A y \in BackupNames : storage'[y].owner = Me => Own(cl', y)
      BY <1>0, <1>a, <3>0 DEF OwnInv
    <3>5. pc' = "waitAll" => \A y \in BackupNames : Own(cl', y) => y \in stale'
      BY <1>0, <1>a, <3>0 DEF OwnInv
    <3>6. \A y \in BackupNames : cl'.requests[y].phase = "New" => Taken(cl'.crs[y]) /\ (stage' # "Cleanup" => ~Own(cl', y))
      BY <1>0, <1>a, <3>0 DEF OwnInv
    <3> QED
      BY <1>0, <3>1, <3>2, <3>3, <3>4, <3>5, <3>6 DEF OwnInv
  <2>7. ASSUME Probed' PROVE WavesInv'
    <3>1. \A y \in BackupNames : Saved(y) => Saved(y)'
      BY <1>a DEF Saved, Own
    <3> QED
      BY <1>0, <1>4, <1>a, <2>7, <3>1, WavesMonotone DEF Outside
  <2>8. ASSUME Probed', ListedOnce PROVE LabelsInv'
    <3>0. LabelsInv
      BY <2>0, <2>8 DEF Core, Outside
    <3>1. PrePivot => \A y \in BackupNames : Unfinished(cl', y) => \A o \in cl'.crs[y].objs : cl'.label[o] = y
      BY <1>0, <1>a, <3>0 DEF LabelsInv, Unfinished
    <3> QED
      BY <1>0, <3>0, <3>1 DEF LabelsInv
  <2> QED
    BY <2>1, <2>2, <2>3, <2>4, <2>5, <2>6, <2>7, <2>8 DEF Core
<1> QED
  BY <1>1, <1>2, <1>3, <1>4 DEF Inv, Base

\* A request to delete a backup is answered.
LEMMA RequestsMoved ==
    ASSUME Inv, Outside, storage' = storage, IsCluster(cl'), cl'.crs = cl.crs, SameRest(cl, cl'),
           \A b \in BackupNames : cl'.requests[b].phase # "none" => cl.requests[b].phase # "none",
           \A b \in BackupNames : cl'.requests[b].phase = "New" => cl.requests[b].phase = "New"
    PROVE  Inv'
<1> USE OutsideFacts
<1>1. edits = 0 => \A b \in BackupNames : cl'.requests[b].phase # "none" => prev = NoCluster
  BY DEF Inv, Core, SeedInv
<1>2. pos \in Nat /\ faults' \in [FaultKinds -> Nat] /\ (Probed' => Probed)
  BY DEF Inv, Base, TypesInv, Outside
<1> QED
  BY <1>1, <1>2, RequestsKept

\* A phase that is written.
LEMMA PhaseWritten ==
    ASSUME NEW c, IsCluster(c), NEW b \in BackupNames, Own(c, b), NEW p \in Phases, NEW d,
           d = WithPhase(c, b, p)
    PROVE  /\ IsCluster(d) /\ d.requests = c.requests /\ SameRest(c, d)
           /\ \E x : /\ OneCr(c, d, b, x) /\ x.owner = Me /\ x.phase = p
                     /\ x.objs = c.crs[b].objs /\ x.attempt = c.crs[b].attempt
<1> DEFINE x == [c.crs[b] EXCEPT !.phase = p]
<1>1. IsBackup(c.crs[b])
  BY DEF IsCluster
<1>2. DOMAIN c.crs[b] = BackupFields /\ Kept(c.crs[b].volumes) /\ c.crs[b].owner = Me
  BY <1>1, BackupFacts DEF Own
<1>3. /\ x.owner = Me /\ x.phase = p /\ x.objs = c.crs[b].objs /\ x.attempt = c.crs[b].attempt
      /\ DOMAIN x = BackupFields /\ x.volumes = c.crs[b].volumes
  BY <1>2 DEF BackupFields
<1>4. d = WithCr(c, b, x)
  BY DEF WithCr, WithPhase
<1> HIDE DEF x
<1>5. IsBackup(x)
  BY <1>2, <1>3 DEF IsBackup
<1>6. IsCluster(d) /\ d.requests = c.requests /\ SameRest(c, d) /\ OneCr(c, d, b, x)
  BY <1>4, <1>5, CrsUpdated
<1> QED
  BY <1>3, <1>6

\* A backup starts.
LEMMA BackupStartsKept ==
    ASSUME Inv, NEW b \in BackupNames, BackupStarts(b)
    PROVE  Inv'
<1>1. Outside /\ storage' = storage
  BY VeleroOutside DEF BackupStarts, bounds
<1>2. Unfinished(cl, b) /\ Own(cl, b)
  BY DEF BackupStarts, Valid, Unfinished, Own, Pending
<1>3. IsCluster(cl)
  BY DEF Inv, Base, TypesInv
<1>4. cl' = WithPhase(cl, b, "InProgress") /\ "InProgress" \in Phases
  BY DEF BackupStarts, Phases, Pending, WithPhase
<1>5. /\ IsCluster(cl') /\ cl'.requests = cl.requests /\ SameRest(cl, cl')
      /\ \E x : /\ OneCr(cl, cl', b, x) /\ x.owner = Me /\ x.phase = "InProgress"
                /\ x.objs = cl.crs[b].objs /\ x.attempt = cl.crs[b].attempt
  BY <1>2, <1>3, <1>4, PhaseWritten
<1>6. PICK x : /\ OneCr(cl, cl', b, x) /\ x.owner = Me /\ x.phase = "InProgress"
               /\ x.objs = cl.crs[b].objs /\ x.attempt = cl.crs[b].attempt
  BY <1>5
<1>7. x.phase # "Completed"
  BY <1>6
<1> QED
  BY <1>1, <1>2, <1>5, <1>6, <1>7, PhaseMoved

\* A backup fails: the storage cannot be written or holds one of this name.
LEMMA BackupFailsKept ==
    ASSUME Inv, NEW b \in BackupNames, BackupFails(b)
    PROVE  Inv'
<1>1. Outside /\ storage' = storage
  BY VeleroOutside DEF BackupFails
<1>2. Unfinished(cl, b) /\ Own(cl, b)
  BY DEF BackupFails, Valid, Unfinished, Own, Pending
<1>3. IsCluster(cl)
  BY DEF Inv, Base, TypesInv
<1>4. cl' = WithPhase(cl, b, "PartiallyFailed") /\ "PartiallyFailed" \in Phases
  BY DEF BackupFails, Phases, Failed, WithPhase
<1>5. /\ IsCluster(cl') /\ cl'.requests = cl.requests /\ SameRest(cl, cl')
      /\ \E x : /\ OneCr(cl, cl', b, x) /\ x.owner = Me /\ x.phase = "PartiallyFailed"
                /\ x.objs = cl.crs[b].objs /\ x.attempt = cl.crs[b].attempt
  BY <1>2, <1>3, <1>4, PhaseWritten
<1>6. PICK x : /\ OneCr(cl, cl', b, x) /\ x.owner = Me /\ x.phase = "PartiallyFailed"
               /\ x.objs = cl.crs[b].objs /\ x.attempt = cl.crs[b].attempt
  BY <1>5
<1>7. x.phase # "Completed"
  BY <1>6
<1> QED
  BY <1>1, <1>2, <1>5, <1>6, <1>7, PhaseMoved

\* A request that failed expires.
LEMMA RequestExpiresKept ==
    ASSUME Inv, NEW b \in BackupNames, RequestExpires(b)
    PROVE  Inv'
<1>1. Outside /\ storage' = storage /\ IsCluster(cl) /\ cl.requests[b].phase = "Errors"
  BY VeleroOutside DEF RequestExpires, bounds, Inv, Base, TypesInv
<1>2. NoRequest \in Requests /\ cl' = WithRequest(cl, b, NoRequest)
  BY DEF NoRequest, Requests, RequestExpires, WithRequest
<1>3. IsCluster(cl') /\ cl'.crs = cl.crs /\ SameRest(cl, cl') /\ OneRequest(cl, cl', b, NoRequest)
  <2>1. IsCluster(cl)
    BY <1>1
  <2> QED
    BY <1>2, <2>1, RequestUpdated
<1> QED
  BY <1>1, <1>3, OwnerFacts, RequestsMoved DEF OneRequest

\* Velero looks at a request.
LEMMA DeletionFailsKept ==
    ASSUME Inv, NEW b \in BackupNames, Outside, storage' = storage, cl.requests[b].phase = "New",
           cl' = [cl EXCEPT !.requests[b].phase = "Errors"]
    PROVE  Inv'
<1>1. IsCluster(cl) /\ cl.requests[b] \in Requests
  BY DEF Inv, Base, TypesInv, IsCluster
<1> DEFINE x == [cl.requests[b] EXCEPT !.phase = "Errors"]
<1>2. x \in Requests /\ x.phase = "Errors" /\ cl' = WithRequest(cl, b, x)
  BY <1>1 DEF Requests, WithRequest
<1> HIDE DEF x
<1>3. IsCluster(cl') /\ cl'.crs = cl.crs /\ SameRest(cl, cl') /\ OneRequest(cl, cl', b, x)
  BY <1>1, <1>2, RequestUpdated
<1> QED
  BY <1>1, <1>2, <1>3, RequestsMoved DEF OneRequest

\* A backup is completed and stored.
LEMMA CompletionKept ==
    ASSUME Inv, Outside, NEW b \in BackupNames, Unfinished(cl, b),
           NEW x, IsBackup(x), x.owner = Me, x.phase = "Completed", x.objs = cl.crs[b].objs, x.attempt = cl.crs[b].attempt,
           x.volumes = cl.volumes, x.holds = {o \in cl.crs[b].objs : cl.label[o] = b},
           IsCluster(cl'), cl'.requests = cl.requests, SameRest(cl, cl'), OneCr(cl, cl', b, x),
           storage' = [storage EXCEPT ![b] = x]
    PROVE  Inv'
<1> USE OutsideFacts
<1>0. /\ prev = NoCluster /\ Home = cl /\ Home' = cl' /\ cl'.restores = cl.restores /\ cl'.label = cl.label
      /\ cl'.volumes = cl.volumes /\ (Probed => Retained(x.volumes))
  BY DEF Inv, Base, VolumesInv, Home, SameRest
<1>b. /\ storage'[b] = x /\ DOMAIN storage' = BackupNames /\ \A y \in BackupNames : y # b => storage'[y] = storage[y]
      /\ cl'.crs[b] = x /\ \A y \in BackupNames : y # b => cl'.crs[y] = cl.crs[y]
  BY DEF Inv, Base, TypesInv, OneCr
<1>a. \A y \in BackupNames : /\ Own(cl', y) <=> Own(cl, y)
                             /\ Unfinished(cl', y) => Unfinished(cl, y) /\ y # b
  <2> SUFFICES ASSUME NEW y \in BackupNames
               PROVE  (Own(cl', y) <=> Own(cl, y)) /\ (Unfinished(cl', y) => Unfinished(cl, y) /\ y # b)
    OBVIOUS
  <2>1. CASE y = b
    BY <1>b, <2>1 DEF Own, Unfinished, Pending
  <2>2. CASE y # b
    BY <1>b, <2>2 DEF Own, Unfinished
  <2> QED
    BY <2>1, <2>2
<1>1. TypesInv'
  BY <1>0, <1>b DEF Inv, Base, TypesInv, Outside
<1>2. FlowInv'
  BY DEF Inv, Base, FlowInv
<1>3. VolumesInv'
  <2>1. \A y \in BackupNames : storage'[y] # NoBackup => storage'[y].phase = "Completed" /\ (Probed => Retained(storage'[y].volumes))
    BY <1>0, <1>b DEF Inv, Base, VolumesInv
  <2> QED
    BY <1>0, <1>a, <2>1 DEF Inv, Base, VolumesInv, Outside
<1>4. ASSUME edits' = 0 PROVE Core'
  <2>0. Core
    BY <1>4 DEF Inv
  <2>1. PairedInv'
    BY <2>0 DEF Core, PairedInv
  <2>2. SnapInv'
    BY <2>0 DEF Core, SnapInv
  <2>3. SeedInv'
    BY <1>0 DEF SeedInv
  <2>4. HomeInv'
    <3>1. \A y \in BackupNames : Own(cl', y) /\ cl'.crs[y].phase = "Completed" => storage'[y].owner = Me
      BY <1>0, <1>a, <1>b, <2>0 DEF Core, HomeInv, Own
    <3> QED
      BY <1>0, <2>0, <3>1 DEF Core, HomeInv
  <2>5. RestoresInv'
    BY <1>0, <2>0 DEF Core, RestoresInv
  <2>6. ASSUME Probed' PROVE OwnInv'
    <3>0. OwnInv
      BY <2>0, <2>6 DEF Core, Outside
    <3>1. \A y \in BackupNames : Current(storage[y])' /\ DefInv(y, storage[y])' /\ Current(cl.crs[y])' /\ DefInv(y, cl.crs[y])'
      BY <1>0, <1>b, <3>0 DEF OwnInv, Current, DefInv, Unfinished, Own
    <3>3. stage' \in {"Idle", "Prep"} \/ pc' = "restorePVs" => NoneOwn'
      BY <3>0 DEF OwnInv, NoneOwn, Unfinished, Own
    <3>4. \A y \in BackupNames : storage'[y].owner = Me => Own(cl', y)
      BY <1>0, <1>a, <1>b, <3>0 DEF OwnInv, Unfinished
    <3>5. pc' = "waitAll" => \A y \in BackupNames : Own(cl', y) => y \in stale'
      BY <1>0, <1>a, <3>0 DEF OwnInv
    <3>6. \A y \in BackupNames : cl'.requests[y].phase = "New" => Taken(cl'.crs[y]) /\ (stage' # "Cleanup" => ~Own(cl', y))
      BY <1>0, <1>a, <1>b, <3>0, OwnerFacts DEF OwnInv, Taken
    <3> QED
      BY <1>0, <3>1, <3>3, <3>4, <3>5, <3>6 DEF OwnInv
  <2>7. ASSUME Probed' PROVE WavesInv'
    <3>1. \A y \in BackupNames : Saved(y) => Saved(y)'
      BY <1>b DEF Saved, Own
    <3> QED
      BY <1>0, <1>4, <1>a, <2>7, <3>1, WavesMonotone DEF Outside
  <2>8. ASSUME Probed', ListedOnce PROVE LabelsInv'
    <3>0. LabelsInv
      BY <2>0, <2>8 DEF Core, Outside
    <3>1. PrePivot => \A y \in BackupNames : Unfinished(cl', y) => \A o \in cl'.crs[y].objs : cl'.label[o] = y
      BY <1>0, <1>a, <1>b, <3>0 DEF LabelsInv
    <3>2. PrePivot => x.holds = x.objs
      BY <3>0 DEF LabelsInv
    <3>3. stage = "Upgrade" => \A y \in BackupNames : storage'[y].owner = Me => storage'[y].holds = storage'[y].objs
      BY <1>0, <1>b, <3>0, <3>2 DEF LabelsInv, PrePivot
    <3> QED
      BY <1>0, <3>0, <3>1, <3>3 DEF LabelsInv
  <2> QED
    BY <2>1, <2>2, <2>3, <2>4, <2>5, <2>6, <2>7, <2>8 DEF Core
<1> QED
  BY <1>1, <1>2, <1>3, <1>4 DEF Inv, Base

\* A backup completes (Velero, external).
LEMMA BackupCompletesKept ==
    ASSUME Inv, NEW b \in BackupNames, BackupCompletes(b)
    PROVE  Inv'
<1>1. Outside
  BY VeleroOutside DEF BackupCompletes, bounds
<1>2. Unfinished(cl, b) /\ Own(cl, b)
  BY DEF BackupCompletes, Valid, Unfinished, Own, Pending
<1>3. IsCluster(cl) /\ IsBackup(cl.crs[b]) /\ Kept(cl.volumes)
  BY DEF Inv, Base, TypesInv, IsCluster
<1> DEFINE x == [cl.crs[b] EXCEPT !.phase = "Completed", !.volumes = cl.volumes,
                     !.holds = {o \in cl.crs[b].objs : cl.label[o] = b}]
<1>4. cl' = WithCr(cl, b, x) /\ storage' = [storage EXCEPT ![b] = x]
  BY DEF BackupCompletes, WithCr
<1>5. DOMAIN cl.crs[b] = BackupFields /\ cl.crs[b].owner = Me
  BY <1>2, <1>3, BackupFacts DEF Own
<1>6. /\ x.owner = Me /\ x.phase = "Completed" /\ x.objs = cl.crs[b].objs /\ x.attempt = cl.crs[b].attempt
      /\ x.volumes = cl.volumes /\ x.holds = {o \in cl.crs[b].objs : cl.label[o] = b} /\ DOMAIN x = BackupFields
  BY <1>5 DEF BackupFields
<1> HIDE DEF x
<1>7. IsBackup(x)
  BY <1>3, <1>6 DEF IsBackup, Phases
<1>8. IsCluster(cl') /\ cl'.requests = cl.requests /\ SameRest(cl, cl') /\ OneCr(cl, cl', b, x)
  <2>1. IsCluster(cl)
    BY <1>3
  <2>2. cl' = WithCr(cl, b, x)
    BY <1>4
  <2> QED
    BY <2>1, <2>2, <1>7, CrsUpdated
<1> QED
  BY <1>1, <1>2, <1>4, <1>6, <1>7, <1>8, CompletionKept

\* A backup of the storage is synced to the cluster.
LEMMA BackupSyncedKept ==
    ASSUME Inv, NEW b \in BackupNames, BackupSynced(b)
    PROVE  Inv'
<1>c. IsCluster(cl') /\ cl'.requests = cl.requests /\ SameRest(cl, cl') /\ OneCr(cl, cl', b, storage[b])
  <2>1. cl' = WithCr(cl, b, storage[b])
    BY DEF BackupSynced, WithCr
  <2>2. IsCluster(cl) /\ IsBackup(storage[b])
    BY DEF Inv, Base, TypesInv
  <2> QED
    BY <2>1, <2>2, CrsUpdated
<1>o. Outside /\ storage' = storage
  BY VeleroOutside DEF BackupSynced, bounds
<1> USE <1>o, OutsideFacts
<1>t. IsCluster(cl) /\ IsBackup(storage[b]) /\ IsBackup(cl.crs[b])
  BY DEF Inv, Base, TypesInv, IsCluster
<1>u. ~Taken(cl.crs[b]) /\ Taken(storage[b]) /\ ~Own(cl, b) /\ storage[b] # NoBackup /\ cl.crs[b] = NoBackup
  BY <1>t, BackupFacts, OwnerFacts DEF BackupSynced, Taken, Own
<1>0. cl'.restores = cl.restores /\ cl'.label = cl.label /\ cl'.volumes = cl.volumes
  BY <1>c DEF SameRest
<1>b. cl'.crs[b] = storage[b] /\ \A y \in BackupNames : y # b => cl'.crs[y] = cl.crs[y]
  BY <1>c DEF OneCr
<1>p. storage[b].phase = "Completed"
  BY <1>u DEF Inv, Base, VolumesInv
<1>a. \A y \in BackupNames : /\ Own(cl, y) => Own(cl', y) /\ cl'.crs[y] = cl.crs[y]
                             /\ Unfinished(cl', y) <=> Unfinished(cl, y)
                             /\ y # b => (Own(cl', y) <=> Own(cl, y))
  <2> SUFFICES ASSUME NEW y \in BackupNames
               PROVE  /\ Own(cl, y) => Own(cl', y) /\ cl'.crs[y] = cl.crs[y]
                      /\ Unfinished(cl', y) <=> Unfinished(cl, y)
                      /\ y # b => (Own(cl', y) <=> Own(cl, y))
    OBVIOUS
  <2>1. CASE y = b
    BY <1>b, <1>p, <1>u, <2>1 DEF Own, Unfinished, Pending
  <2>2. CASE y # b
    BY <1>b, <2>2 DEF Own, Unfinished
  <2> QED
    BY <2>1, <2>2
<1>1. TypesInv'
  BY <1>c DEF Inv, Base, TypesInv, Outside
<1>2. FlowInv'
  BY DEF Inv, Base, FlowInv
<1>3. VolumesInv'
  BY <1>0, <1>a DEF Inv, Base, VolumesInv, Outside
<1>4. ASSUME edits' = 0 PROVE Core'
  <2>0. Core
    BY <1>4 DEF Inv
  <2>1. PairedInv'
    BY <2>0 DEF Core, PairedInv
  <2>2. SnapInv'
    BY <2>0 DEF Core, SnapInv
  <2>3. SeedInv'
    <3> SUFFICES ASSUME prev # NoCluster PROVE SeedInv'
      BY DEF SeedInv
    <3>0. SeedInv
      BY <2>0 DEF Core
    <3>1. \A y \in BackupNames : cl'.crs[y] # NoBackup => cl'.crs[y] = storage[y]
      BY <1>b, <3>0 DEF SeedInv
    <3>2. \A r \in RestoreNames : cl'.restores[r] # "none" => r \in DOMAIN cm.restores /\ Own(cl', cm.restores[r].of)
      <4>1. cm \in Contents
        BY DEF Inv, Base, TypesInv
      <4> QED
        BY <1>0, <1>a, <3>0, <4>1, NameFacts DEF SeedInv
    <3> QED
      BY <1>0, <1>c, <3>0, <3>1, <3>2 DEF SeedInv
  <2>4. HomeInv'
    <3>1. CASE prev = NoCluster
      <4>1. Home = cl /\ Home' = cl'
        BY <3>1 DEF Home
      <4>2. \A y \in BackupNames : Own(cl', y) /\ cl'.crs[y].phase = "Completed" => storage'[y].owner = Me
        BY <1>a, <1>b, <2>0, <4>1 DEF Core, HomeInv, Own
      <4> QED
        BY <1>0, <2>0, <3>1, <4>1, <4>2 DEF Core, HomeInv
    <3>2. CASE prev # NoCluster
      <4>1. Home = prev /\ Home' = prev'
        BY <3>2 DEF Home
      <4> QED
        BY <2>0, <3>2, <4>1 DEF Core, HomeInv, Own
    <3> QED
      BY <3>1, <3>2
  <2>5. RestoresInv'
    BY <1>0, <2>0 DEF Core, RestoresInv
  <2>i. ASSUME Probed', prev = NoCluster PROVE storage[b].owner # Me /\ ~Own(cl', b)
    <3>1. storage[b].owner # Me
      BY <1>u, <2>0, <2>i DEF Core, Outside, OwnInv, Home
    <3> QED
      BY <1>b, <3>1 DEF Own
  <2>6. ASSUME Probed' PROVE OwnInv'
    <3>0. OwnInv
      BY <2>0, <2>6 DEF Core, Outside
    <3>3. stage' \in {"Idle", "Prep"} \/ pc' = "restorePVs" => NoneOwn'
      BY <1>b, <3>0 DEF OwnInv, NoneOwn
    <3>5. pc' = "waitAll" => \A y \in BackupNames : Own(cl', y) => y \in stale'
      <4>1. pc = "waitAll" => prev = NoCluster
        BY DEF Inv, Base, FlowInv, TypesInv, PrePivot, PostPivot, Tracking, Exporting, Restoring
      <4> QED
        BY <1>a, <2>6, <2>i, <3>0, <4>1 DEF OwnInv
    <3>6. CASE prev = NoCluster
      <4>1. Home = cl /\ Home' = cl'
        BY <3>6 DEF Home
      <4>2. \A y \in BackupNames : Current(storage[y])' /\ DefInv(y, storage[y])' /\ Current(cl.crs[y])' /\ DefInv(y, cl.crs[y])'
        BY <1>b, <3>0, <4>1 DEF OwnInv, Current, DefInv
      <4>3. \A y \in BackupNames : storage'[y].owner = Me => Own(cl', y)
        BY <1>a, <3>0, <4>1 DEF OwnInv
      <4>4. \A y \in BackupNames : cl'.requests[y].phase = "New" => Taken(cl'.crs[y]) /\ (stage' # "Cleanup" => ~Own(cl', y))
        BY <1>a, <1>b, <1>c, <1>u, <3>0, <4>1 DEF OwnInv
      <4> QED
        BY <3>3, <3>5, <4>1, <4>2, <4>3, <4>4 DEF OwnInv
    <3>7. CASE prev # NoCluster
      <4>1. Home = prev /\ Home' = prev'
        BY <3>7 DEF Home
      <4> QED
        BY <3>0, <3>3, <3>5, <4>1 DEF OwnInv, Current, DefInv, Own
    <3> QED
      BY <3>6, <3>7
  <2>7. ASSUME Probed' PROVE WavesInv'
    <3>1. \A y \in BackupNames : Saved(y) => Saved(y)'
      BY <1>a DEF Saved, Own
    <3>2. PrePivot => \A y \in BackupNames : Own(cl', y) => Own(cl, y)
      BY <1>a, <2>7, <2>i DEF PrePivot
    <3> QED
      BY <1>4, <2>7, <3>1, <3>2, WavesMonotone DEF Outside
  <2>8. ASSUME Probed', ListedOnce PROVE LabelsInv'
    <3>0. LabelsInv
      BY <2>0, <2>8 DEF Core, Outside
    <3>1. PrePivot => \A y \in BackupNames : Unfinished(cl', y) => \A o \in cl'.crs[y].objs : cl'.label[o] = y
      BY <1>0, <1>a, <3>0 DEF LabelsInv, Unfinished
    <3> QED
      BY <1>0, <3>0, <3>1 DEF LabelsInv
  <2> QED
    BY <2>1, <2>2, <2>3, <2>4, <2>5, <2>6, <2>7, <2>8 DEF Core
<1> QED
  BY <1>1, <1>2, <1>3, <1>4 DEF Inv, Base

\* A backup is deleted, with what is stored of it.
LEMMA DeletionKept ==
    ASSUME Inv, Outside, NEW b \in BackupNames, cl.requests[b].phase = "New",
           cl' = [cl EXCEPT !.crs[b] = NoBackup, !.requests[b] = NoRequest],
           storage' = [storage EXCEPT ![b] = NoBackup]
    PROVE  Inv'
<1>c. /\ IsCluster(cl') /\ SameRest(cl, cl') /\ OneCr(cl, cl', b, NoBackup) /\ OneRequest(cl, cl', b, NoRequest)
  <2>1. IsCluster(cl) /\ IsBackup(NoBackup) /\ NoRequest \in Requests
    BY DEF Inv, Base, TypesInv, IsBackup, NoRequest, Requests
  <2> DEFINE m == WithCr(cl, b, NoBackup)
  <2>2. cl' = WithRequest(m, b, NoRequest)
    <3>1. DOMAIN cl = ClusterFields
      BY <2>1 DEF IsCluster
    <3> QED
      BY <3>1 DEF ClusterFields, WithCr, WithRequest
  <2>3. IsCluster(m) /\ m.requests = cl.requests /\ SameRest(cl, m) /\ OneCr(cl, m, b, NoBackup)
    BY <2>1, CrsUpdated
  <2> HIDE DEF m
  <2>4. IsCluster(cl') /\ cl'.crs = m.crs /\ SameRest(m, cl') /\ OneRequest(m, cl', b, NoRequest)
    BY <2>1, <2>2, <2>3, RequestUpdated
  <2> QED
    BY <2>3, <2>4 DEF SameRest, OneCr, OneRequest
<1> USE OutsideFacts
<1>0. cl'.restores = cl.restores /\ cl'.label = cl.label /\ cl'.volumes = cl.volumes
  BY <1>c DEF SameRest
<1>b. /\ storage'[b] = NoBackup /\ DOMAIN storage' = BackupNames /\ \A y \in BackupNames : y # b => storage'[y] = storage[y]
      /\ cl'.crs[b] = NoBackup /\ \A y \in BackupNames : y # b => cl'.crs[y] = cl.crs[y]
      /\ cl'.requests[b] = NoRequest /\ \A y \in BackupNames : y # b => cl'.requests[y] = cl.requests[y]
  BY <1>c DEF Inv, Base, TypesInv, OneCr, OneRequest
<1>a. \A y \in BackupNames : /\ Own(cl', y) => Own(cl, y) /\ y # b
                             /\ Unfinished(cl', y) => Unfinished(cl, y)
                             /\ cl'.crs[y].owner # "none" => cl'.crs[y] = cl.crs[y]
                             /\ storage'[y].owner = Me => storage'[y] = storage[y] /\ y # b
                             /\ cl'.requests[y].phase = "New" => cl.requests[y].phase = "New" /\ y # b
  <2> SUFFICES ASSUME NEW y \in BackupNames
               PROVE  /\ Own(cl', y) => Own(cl, y) /\ y # b
                      /\ Unfinished(cl', y) => Unfinished(cl, y)
                      /\ cl'.crs[y].owner # "none" => cl'.crs[y] = cl.crs[y]
                      /\ storage'[y].owner = Me => storage'[y] = storage[y] /\ y # b
                      /\ cl'.requests[y].phase = "New" => cl.requests[y].phase = "New" /\ y # b
    OBVIOUS
  <2>1. CASE y = b
    BY <1>b, <2>1, OwnerFacts DEF Own, Unfinished
  <2>2. CASE y # b
    BY <1>b, <2>2 DEF Own, Unfinished
  <2> QED
    BY <2>1, <2>2
<1>1. TypesInv'
  <2>1. \A y \in BackupNames : IsBackup(storage'[y])
    BY <1>b DEF Inv, Base, TypesInv, IsBackup
  <2> QED
    BY <1>b, <1>c, <2>1 DEF Inv, Base, TypesInv, Outside
<1>2. FlowInv'
  BY DEF Inv, Base, FlowInv
<1>3. VolumesInv'
  <2>1. \A y \in BackupNames : storage'[y] # NoBackup => storage'[y].phase = "Completed" /\ (Probed => Retained(storage'[y].volumes))
    BY <1>b DEF Inv, Base, VolumesInv
  <2> QED
    BY <1>0, <1>a, <2>1 DEF Inv, Base, VolumesInv, Outside
<1>4. ASSUME edits' = 0 PROVE Core'
  <2>0. Core
    BY <1>4 DEF Inv
  <2>h. prev = NoCluster /\ Home = cl /\ Home' = cl'
    BY <2>0 DEF Core, SeedInv, Home
  <2>1. PairedInv'
    BY <2>0 DEF Core, PairedInv
  <2>2. SnapInv'
    BY <2>0 DEF Core, SnapInv
  <2>3. SeedInv'
    BY <2>h DEF SeedInv
  <2>4. HomeInv'
    <3>1. \A y \in BackupNames : Own(cl', y) /\ cl'.crs[y].phase = "Completed" => storage'[y].owner = Me
      BY <1>a, <1>b, <2>0, <2>h DEF Core, HomeInv
    <3> QED
      BY <1>0, <2>0, <2>h, <3>1 DEF Core, HomeInv
  <2>5. RestoresInv'
    BY <1>0, <2>0 DEF Core, RestoresInv
  <2>6. ASSUME Probed' PROVE OwnInv'
    <3>0. OwnInv
      BY <2>0, <2>6 DEF Core, Outside
    <3>1. \A y \in BackupNames : Current(storage[y])' /\ DefInv(y, storage[y])' /\ Current(cl.crs[y])' /\ DefInv(y, cl.crs[y])'
      BY <1>b, <2>h, <3>0, OwnerFacts DEF OwnInv, Current, DefInv
    <3>3. stage' \in {"Idle", "Prep"} \/ pc' = "restorePVs" => NoneOwn'
      BY <1>a, <3>0 DEF OwnInv, NoneOwn, Own
    <3>4. \A y \in BackupNames : storage'[y].owner = Me => Own(cl', y)
      BY <1>a, <1>b, <2>h, <3>0 DEF OwnInv, Own
    <3>5. pc' = "waitAll" => \A y \in BackupNames : Own(cl', y) => y \in stale'
      BY <1>a, <3>0 DEF OwnInv
    <3>6. \A y \in BackupNames : cl'.requests[y].phase = "New" => Taken(cl'.crs[y]) /\ (stage' # "Cleanup" => ~Own(cl', y))
      BY <1>a, <1>b, <2>h, <3>0 DEF OwnInv
    <3> QED
      BY <2>h, <3>1, <3>3, <3>4, <3>5, <3>6 DEF OwnInv
  <2>7. ASSUME Probed' PROVE WavesInv'
    <3>1. PrePivot => ~Own(cl, b)
      BY <2>0, <2>7, <2>h DEF Core, Outside, OwnInv, PrePivot
    <3>2. PrePivot => \A y \in BackupNames : Saved(y) => Saved(y)'
      BY <1>b, <3>1 DEF Saved, Own
    <3> QED
      BY <1>4, <1>a, <2>7, <2>h, <3>2, WavesMonotone DEF Outside
  <2>8. ASSUME Probed', ListedOnce PROVE LabelsInv'
    <3>0. LabelsInv
      BY <2>0, <2>8 DEF Core, Outside
    <3>1. PrePivot => \A y \in BackupNames : Unfinished(cl', y) => \A o \in cl'.crs[y].objs : cl'.label[o] = y
      BY <1>0, <1>a, <1>b, <3>0 DEF LabelsInv, Unfinished
    <3>2. stage = "Upgrade" => \A y \in BackupNames : storage'[y].owner = Me => storage'[y].holds = storage'[y].objs
      BY <1>a, <3>0 DEF LabelsInv
    <3> QED
      BY <1>0, <3>0, <3>1, <3>2 DEF LabelsInv
  <2> QED
    BY <2>1, <2>2, <2>3, <2>4, <2>5, <2>6, <2>7, <2>8 DEF Core
<1> QED
  BY <1>1, <1>2, <1>3, <1>4 DEF Inv, Base

\* A request is carried out or refused.
LEMMA BackupDeletedKept ==
    ASSUME Inv, NEW b \in BackupNames, BackupDeleted(b)
    PROVE  Inv'
<1>1. Outside /\ cl.requests[b].phase = "New"
  BY VeleroOutside DEF BackupDeleted
<1>2. CASE /\ cl' = [cl EXCEPT !.crs[b] = NoBackup, !.requests[b] = NoRequest]
           /\ storage' = [storage EXCEPT ![b] = NoBackup]
  BY <1>1, <1>2, DeletionKept
<1>3. CASE cl' = [cl EXCEPT !.requests[b].phase = "Errors"] /\ storage' = storage
  BY <1>1, <1>3, DeletionFailsKept
<1> QED
  BY <1>2, <1>3 DEF BackupDeleted

\* A restore that is under way goes on.
LEMMA RestoreMoved ==
    ASSUME Inv, Outside, storage' = storage, NEW r \in RestoreNames, cl.restores[r] \in Pending,
           NEW x \in Phases, OneRestore(cl, cl', r, x),
           IsCluster(cl'), cl'.crs = cl.crs, cl'.requests = cl.requests,
           Probed /\ Retained(cl.volumes) => Retained(cl'.volumes),
           Clean(cl.volumes) /\ files = {} => Clean(cl'.volumes)
    PROVE  Inv'
<1> USE OutsideFacts
<1>0. \A y \in RestoreNames : (cl.restores[y] = "Completed" => cl'.restores[y] = "Completed")
                              /\ (cl'.restores[y] # "none" <=> cl.restores[y] # "none")
  <2>1. cl.restores[r] # "none" /\ cl.restores[r] # "Completed" /\ x # "none"
    BY DEF Pending, Phases, Failed
  <2> QED
    BY <2>1 DEF OneRestore
<1>1. TypesInv'
  BY DEF Inv, Base, TypesInv, Outside
<1>2. FlowInv'
  BY DEF Inv, Base, FlowInv
<1>3. VolumesInv'
  BY DEF Inv, Base, VolumesInv, FlowInv, Unfinished, Own, Outside
<1>4. ASSUME edits' = 0 PROVE Core'
  <2>0. Core
    BY <1>4 DEF Inv
  <2>h. prev # NoCluster /\ Home = prev /\ Home' = prev /\ ~PrePivot /\ cm \in Contents
    BY <2>0 DEF Core, HomeInv, Home, PrePivot, Inv, Base, TypesInv
  <2>1. PairedInv'
    BY <2>0 DEF Core, PairedInv
  <2>2. SnapInv'
    BY <2>0 DEF Core, SnapInv
  <2>3. SeedInv'
    <3>0. SeedInv
      BY <2>0 DEF Core
    <3>1. \A y \in RestoreNames : cl'.restores[y] # "none" => y \in DOMAIN cm.restores /\ Own(cl', cm.restores[y].of)
      BY <1>0, <2>h, <3>0 DEF SeedInv, Own
    <3>2. (pc \in {"restoredPVs", "removePath"} \/ cond = "Completed" \/ stage = "Cleanup") =>
             \A y \in DOMAIN cm.restores : cl'.restores[y] = "Completed"
      BY <1>0, <2>h, <3>0, NameFacts DEF SeedInv
    <3> QED
      BY <2>h, <3>0, <3>1, <3>2 DEF SeedInv
  <2>4. HomeInv'
    BY <2>0, <2>h DEF Core, HomeInv, Own
  <2>5. RestoresInv'
    <3>0. RestoresInv /\ DOMAIN cm.restores \subseteq RestoreNames
      BY <2>0, <2>h, NameFacts DEF Core
    <3>1. PostPivot /\ pc = "restore" =>
            \A g \in 1 .. grp - 1 : \A k \in DOMAIN snap[g] : cl'.restores[snap[g][k].name] = "Completed"
      <4> SUFFICES ASSUME PostPivot, pc = "restore", NEW g \in 1 .. grp - 1, NEW k \in DOMAIN snap[g]
                   PROVE  cl'.restores[snap[g][k].name] = "Completed"
        OBVIOUS
      <4>1. cl.restores[snap[g][k].name] = "Completed"
        BY <3>0 DEF RestoresInv
      <4>2. Sorted(snap, cm.restores) /\ grp \in DOMAIN snap /\ grp \in Nat
        BY <1>4, RestoreSnapFacts
      <4>3. g \in DOMAIN snap
        <5>1. DOMAIN snap = 1 .. Len(snap) /\ Len(snap) \in Nat
          BY <4>2 DEF Sorted
        <5> QED
          BY <4>2, <5>1
      <4>4. snap[g][k].name \in RestoreNames
        BY <3>0, <4>2, <4>3 DEF Sorted
      <4> QED
        BY <1>0, <4>1, <4>4
    <3>2. PostPivot => \A q, y \in DOMAIN cm.restores :
             Wave(cm.restores[q].wave) < Wave(cm.restores[y].wave) /\ cl'.restores[y] # "none" =>
                cl'.restores[q] = "Completed"
      BY <1>0, <3>0 DEF RestoresInv
    <3> QED
      BY <3>1, <3>2 DEF RestoresInv
  <2>6. Probed' => OwnInv'
    BY <2>0, <2>h DEF Core, OwnInv, Current, DefInv, Own, NoneOwn, Outside
  <2>7. Probed' => WavesInv'
    BY <2>0, <2>h DEF Core, WavesInv, Outside
  <2>8. Probed' /\ ListedOnce => LabelsInv'
    BY <2>0, <2>h DEF Core, LabelsInv, Outside
  <2> QED
    BY <2>1, <2>2, <2>3, <2>4, <2>5, <2>6, <2>7, <2>8 DEF Core
<1> QED
  BY <1>1, <1>2, <1>3, <1>4 DEF Inv, Base

\* A restore starts.
LEMMA RestoreStartsKept ==
    ASSUME Inv, NEW r \in RestoreNames, RestoreStarts(r)
    PROVE  Inv'
<1>1. Outside /\ storage' = storage
  BY VeleroOutside DEF RestoreStarts, bounds
<1>2. cl.restores[r] \in Pending
  BY DEF RestoreStarts, Pending
<1>3. IsCluster(cl)
  BY DEF Inv, Base, TypesInv
<1>4. PICK x \in Phases : cl' = WithRestore(cl, r, x)
  BY DEF RestoreStarts, Phases, Pending, WithRestore
<1>5. /\ IsCluster(cl') /\ cl'.crs = cl.crs /\ cl'.requests = cl.requests /\ cl'.volumes = cl.volumes
      /\ OneRestore(cl, cl', r, x)
  BY <1>3, <1>4, RestoreUpdated
<1> QED
  BY <1>1, <1>2, <1>5, RestoreMoved

\* A restore fails.
LEMMA RestoreFailsKept ==
    ASSUME Inv, NEW r \in RestoreNames, RestoreFails(r)
    PROVE  Inv'
<1>1. Outside /\ storage' = storage
  BY VeleroOutside DEF RestoreFails
<1>2. cl.restores[r] \in Pending
  BY DEF RestoreFails, Pending
<1>3. IsCluster(cl)
  BY DEF Inv, Base, TypesInv
<1>4. PICK x \in Phases : cl' = WithRestore(cl, r, x)
  BY DEF RestoreFails, Phases, Failed, WithRestore
<1>5. /\ IsCluster(cl') /\ cl'.crs = cl.crs /\ cl'.requests = cl.requests /\ cl'.volumes = cl.volumes
      /\ OneRestore(cl, cl', r, x)
  BY <1>3, <1>4, RestoreUpdated
<1> QED
  BY <1>1, <1>2, <1>5, RestoreMoved

\* A restore is completed: what it brings back.
LEMMA RestoreWritten ==
    ASSUME NEW c, IsCluster(c), NEW r, NEW l, DOMAIN l = Objects, NEW vols, Kept(vols), NEW d,
           d = WithRestored(c, r, l, vols)
    PROVE  /\ IsCluster(d) /\ d.crs = c.crs /\ d.requests = c.requests /\ d.volumes = vols /\ d.label = l
           /\ OneRestore(c, d, r, "Completed")
<1>1. DOMAIN c = ClusterFields /\ DOMAIN c.restores = RestoreNames
  BY DEF IsCluster
<1>2. /\ DOMAIN d = ClusterFields /\ d.restores = [c.restores EXCEPT ![r] = "Completed"]
      /\ d.crs = c.crs /\ d.requests = c.requests /\ d.label = l /\ d.volumes = vols
  BY <1>1 DEF ClusterFields, WithRestored
<1>3. DOMAIN d.restores = RestoreNames /\ OneRestore(c, d, r, "Completed")
  BY <1>1, <1>2 DEF OneRestore
<1>4. \A y \in RestoreNames : d.restores[y] \in {"none"} \cup Phases
  BY <1>3 DEF OneRestore, IsCluster, Phases
<1> QED
  BY <1>2, <1>3, <1>4 DEF IsCluster

\* The volumes that come back are those of the backup.
LEMMA BroughtBack ==
    ASSUME NEW vols, Kept(vols), NEW from, Kept(from), NEW w,
           w = [v \in Volumes |-> IF vols[v] = NoVolume THEN from[v] ELSE vols[v]]
    PROVE  Kept(w) /\ (Retained(vols) /\ Retained(from) => Retained(w))
BY DEF Kept, Retained

\* A restore completes and brings back objects and volumes.
LEMMA RestoreCompletesKept ==
    ASSUME Inv, NEW r \in RestoreNames, RestoreCompletes(r)
    PROVE  Inv'
<1>1. Outside /\ storage' = storage
  BY VeleroOutside DEF RestoreCompletes, bounds
<1>2. cl.restores[r] \in Pending
  BY DEF RestoreCompletes, Pending
<1>3. IsCluster(cl) /\ Kept(cl.volumes)
  BY DEF Inv, Base, TypesInv, IsCluster
<1>4. PICK f \in files :
          /\ f.name = r /\ Taken(storage[f.of])
          /\ cl' = [cl EXCEPT
                !.restores[r] = "Completed",
                !.label = [o \in Objects |-> IF o \in storage[f.of].holds THEN f.of ELSE @[o]],
                !.volumes = [v \in Volumes |-> IF @[v] = NoVolume THEN storage[f.of].volumes[v] ELSE @[v]]]
  BY DEF RestoreCompletes
<1> DEFINE l == [o \in Objects |-> IF o \in storage[f.of].holds THEN f.of ELSE cl.label[o]]
           from == storage[f.of].volumes
           w == [v \in Volumes |-> IF cl.volumes[v] = NoVolume THEN from[v] ELSE cl.volumes[v]]
<1>5. /\ DOMAIN l = Objects
      /\ w = [v \in Volumes |-> IF cl.volumes[v] = NoVolume THEN from[v] ELSE cl.volumes[v]]
      /\ cl' = WithRestored(cl, r, l, w)
  BY <1>4 DEF WithRestored
<1>6. Kept(from) /\ (Probed => Retained(from))
  <2>1. f.of \in BackupNames /\ IsBackup(storage[f.of])
    BY DEF Inv, Base, TypesInv
  <2>2. storage[f.of] # NoBackup /\ Kept(storage[f.of].volumes)
    BY <1>4, <2>1, BackupFacts
  <2> QED
    BY <2>1, <2>2 DEF Inv, Base, VolumesInv
<1> HIDE DEF l, w, from
<1>7. Kept(w) /\ (Probed /\ Retained(cl.volumes) => Retained(w))
  BY <1>3, <1>5, <1>6, BroughtBack
<1>8. /\ IsCluster(cl') /\ cl'.crs = cl.crs /\ cl'.requests = cl.requests /\ cl'.volumes = w
      /\ OneRestore(cl, cl', r, "Completed")
  <2>1. IsCluster(cl) /\ Kept(w)
    BY <1>3, <1>7
  <2>2. DOMAIN l = Objects
    BY <1>5
  <2>3. cl' = WithRestored(cl, r, l, w)
    BY <1>5
  <2> QED
    BY <2>1, <2>2, <2>3, RestoreWritten
<1>9. files # {} /\ "Completed" \in Phases
  BY <1>4 DEF Phases
<1> QED
  BY <1>1, <1>2, <1>7, <1>8, <1>9, RestoreMoved

-----------------------------------------------------------------------------
(* The cleanup. *)

\* When a cleanup begins, the booted cluster may take the place of the one that
\* made the backups: every backup of this cluster that is stored was restored
\* from, so it is known there.
LEMMA CleanupFacts ==
    ASSUME EachRestored, Inv, edits = 0, stage = "Cleanup"
    PROVE  /\ \A r \in RestoreNames : cl.restores[r] \notin Pending
           /\ \A b \in BackupNames : Own(cl, b) /\ cl.crs[b].phase = "Completed" => storage[b].owner = Me
           /\ Probed => \A b \in BackupNames :
                /\ Current(storage[b]) /\ Current(cl.crs[b]) /\ DefInv(b, storage[b]) /\ DefInv(b, cl.crs[b])
                /\ storage[b].owner = Me => Own(cl, b)
                /\ cl.requests[b].phase = "New" => Taken(cl.crs[b])
<1>0. Core /\ cm \in Contents /\ \A b \in BackupNames : IsBackup(cl.crs[b])
  BY DEF Inv, Base, TypesInv, IsCluster
<1>1. CASE prev = NoCluster
  <2>1. Home = cl
    BY <1>1 DEF Home
  <2> QED
    BY <1>0, <1>1, <2>1 DEF Core, HomeInv, OwnInv
<1>2. CASE prev # NoCluster
  <2>0. SeedInv /\ PairedCRs(cm) /\ (Probed => OwnInv)
    BY <1>0, <1>2 DEF Core, PairedInv
  <2>1. \A r \in RestoreNames : cl.restores[r] \notin Pending
    <3>1. "none" \notin Pending /\ "Completed" \notin Pending
      BY DEF Pending
    <3> QED
      BY <1>2, <2>0, <3>1 DEF SeedInv
  <2>2. \A b \in BackupNames : Own(cl, b) => cl.crs[b] = storage[b]
    BY <1>0, <1>2, <2>0, BackupFacts DEF SeedInv, Own
  <2>3. ASSUME Probed, NEW b \in BackupNames, storage[b].owner = Me PROVE Own(cl, b)
    <3>1. b \in DOMAIN cm.backups
      BY <2>0, <2>3 DEF OwnInv, DefInv
    <3>2. PICK r \in DOMAIN cm.restores : cm.restores[r].of = b
      BY <1>0, <2>0, <3>1 DEF EachRestored
    <3>3. cl.restores[r] = "Completed" /\ r \in RestoreNames
      BY <1>0, <1>2, <2>0, NameFacts DEF SeedInv
    <3>4. cl.restores[r] # "none"
      BY <3>3
    <3> QED
      BY <1>2, <2>0, <3>2, <3>3, <3>4 DEF SeedInv
  <2>4. \A b \in BackupNames : Own(cl, b) => storage[b].owner = Me
    BY <2>2 DEF Own
  <2>5. ASSUME Probed, NEW b \in BackupNames
        PROVE  Current(storage[b]) /\ Current(cl.crs[b]) /\ DefInv(b, storage[b]) /\ DefInv(b, cl.crs[b])
    <3>1. Current(storage[b]) /\ DefInv(b, storage[b])
      BY <2>0, <2>5 DEF OwnInv
    <3>2. cl.crs[b].owner = Me => cl.crs[b] = storage[b]
      BY <2>2 DEF Own
    <3> QED
      BY <3>1, <3>2 DEF Current, DefInv
  <2>6. \A b \in BackupNames : cl.requests[b].phase # "New"
    BY <1>2, <2>0 DEF SeedInv
  <2> QED
    BY <2>1, <2>3, <2>4, <2>5, <2>6
<1> QED
  BY <1>1, <1>2

\* Requests come and go at the beginning of a cleanup, and labels go.
LEMMA CleanupStep ==
    ASSUME EachRestored, Inv, stage = "Cleanup", cm' = cm, stage' = stage, cond' = cond, attempt' = attempt,
           storage' = storage, edits' = edits, prev' = NoCluster, files' = {},
           faults' = faults \/ (faults' \in [FaultKinds -> Nat] /\ (Probed' => Probed)),
           IsCluster(cl'), cl'.crs = cl.crs, cl'.restores = cl.restores, cl'.volumes = cl.volumes,
           pc' = "cleanup", grp' \in Nat, pos' \in Nat,
           \A b \in BackupNames : cl'.requests[b].phase = "New" => cl.requests[b].phase = "New" \/ Own(cl, b)
    PROVE  Inv'
<1>0. ~PrePivot' /\ ~PostPivot' /\ Home' = cl' /\ (Probed' => Probed) /\ faults' \in [FaultKinds -> Nat]
  BY DEF PrePivot, PostPivot, Home, Probed, Inv, Base, TypesInv
<1>1. TypesInv'
  BY <1>0 DEF Inv, Base, TypesInv
<1>2. FlowInv'
  BY <1>0 DEF Inv, Base, FlowInv, Cleaning
<1>3. VolumesInv'
  BY <1>0 DEF Inv, Base, VolumesInv, Unfinished, Own
<1>4. ASSUME edits' = 0 PROVE Core'
  <2>1. PairedInv'
    BY <1>0 DEF PairedInv
  <2>2. SnapInv' /\ RestoresInv' /\ LabelsInv' /\ WavesInv'
    BY NotUpgrading
  <2>3. SeedInv'
    BY DEF SeedInv
  <2>4. HomeInv'
    BY <1>0, <1>4, CleanupFacts DEF HomeInv, Own
  <2>5. ASSUME Probed' PROVE OwnInv'
    <3>1. \A b \in BackupNames : /\ Current(storage[b])' /\ Current(Home.crs[b])'
                                 /\ DefInv(b, storage[b])' /\ DefInv(b, Home.crs[b])'
                                 /\ (storage[b].owner = Me => Own(cl, b))
      BY <1>0, <1>4, <2>5, CleanupFacts DEF Current, DefInv
    <3>2. \A b \in BackupNames : Own(cl, b) => Taken(cl.crs[b])
      BY OwnerFacts DEF Own, Taken
    <3>3. \A b \in BackupNames : cl'.requests[b].phase = "New" => Taken(cl'.crs[b])
      BY <1>0, <1>4, <2>5, <3>2, CleanupFacts
    <3> QED
      BY <1>0, <3>1, <3>3 DEF OwnInv, Own
  <2> QED
    BY <2>1, <2>2, <2>3, <2>4, <2>5 DEF Core
<1> QED
  BY <1>1, <1>2, <1>3, <1>4 DEF Inv, Base

\* Cluster c in which all requests are written.
WithRequests(c, reqs) == [c EXCEPT !.requests = reqs]

\* The requests are written.
LEMMA RequestsUpdated ==
    ASSUME NEW c, IsCluster(c), NEW reqs, DOMAIN reqs = BackupNames,
           \A b \in BackupNames : reqs[b] \in Requests, NEW d, d = WithRequests(c, reqs)
    PROVE  /\ IsCluster(d) /\ d.crs = c.crs /\ SameRest(c, d) /\ d.requests = reqs
<1>1. DOMAIN c = ClusterFields /\ "requests" \in ClusterFields
  BY DEF IsCluster, ClusterFields
<1>2. /\ DOMAIN d = ClusterFields /\ d.requests = reqs
      /\ d.crs = c.crs /\ d.restores = c.restores /\ d.label = c.label
      /\ d.volumes = c.volumes /\ d.dpas = c.dpas
  BY <1>1 DEF ClusterFields, WithRequests
<1>3. IsCluster(d)
  BY <1>2 DEF IsCluster
<1> QED
  BY <1>2, <1>3 DEF SameRest

\* The cleanup begins: the unbooted stateroot is gone, its own requests too.
LEMMA CleanupDeleteBackupRequestsKept ==
    ASSUME EachRestored, Inv, CleanupDeleteBackupRequests
    PROVE  Inv'
<1>0. /\ stage = "Cleanup" /\ cm' = cm /\ stage' = stage /\ cond' = cond /\ attempt' = attempt
      /\ storage' = storage /\ edits' = edits /\ prev' = NoCluster /\ files' = {}
      /\ pc' = "cleanup" /\ grp' \in Nat /\ pos' \in Nat
  BY DEF CleanupDeleteBackupRequests, loop, Inv, Base, TypesInv
<1>1. IsCluster(cl)
  BY DEF Inv, Base, TypesInv
<1>2. \A b \in BackupNames : cl.requests[b] \in Requests
  BY <1>1 DEF IsCluster
<1> DEFINE reqs == [b \in BackupNames |-> IF cl.requests[b].labelled THEN NoRequest ELSE cl.requests[b]]
<1>2a. faults' = faults \/ (faults' \in [FaultKinds -> Nat] /\ (Probed' => Probed))
  BY FaultFacts DEF CleanupDeleteBackupRequests, Inv, Base, FaultKinds
<1>2b. CASE UNCHANGED cl
  BY <1>0, <1>1, <1>2a, <1>2b, CleanupStep
<1>3. cl' = WithRequests(cl, reqs) \/ cl' = cl
  BY DEF CleanupDeleteBackupRequests, WithRequests
<1>4. /\ DOMAIN reqs = BackupNames
      /\ \A b \in BackupNames : reqs[b] \in Requests /\ (reqs[b].phase = "New" => cl.requests[b].phase = "New")
  <2>1. NoRequest \in Requests /\ NoRequest.phase # "New"
    BY DEF NoRequest, Requests
  <2> QED
    BY <1>2, <2>1
<1> HIDE DEF reqs
<1>5. CASE cl' = WithRequests(cl, reqs)
  <2>1. IsCluster(cl') /\ cl'.crs = cl.crs /\ SameRest(cl, cl') /\ cl'.requests = reqs
    BY <1>1, <1>4, <1>5, RequestsUpdated
  <2> QED
    BY <1>0, <1>2a, <1>4, <2>1, CleanupStep DEF SameRest
<1> QED
  BY <1>2b, <1>3, <1>5

\* A failed probe: the cleanup is skipped.
LEMMA IsOadpInstalledKept ==
    ASSUME EachRestored, Inv, IsOadpInstalled
    PROVE  Inv'
<1>0. /\ stage = "Cleanup" /\ cm' = cm /\ stage' = "Idle" /\ cond' = "Completed" /\ attempt' = attempt /\ cl' = cl
      /\ storage' = storage /\ edits' = edits /\ prev' = NoCluster /\ files' = {}
      /\ pc' = "idle" /\ grp' = 1 /\ pos' = 1
  BY DEF IsOadpInstalled, Idle, End
<1>1. faults' \in [FaultKinds -> Nat] /\ ~Probed'
  <2>1. faults \in [FaultKinds -> Nat] /\ faults' = [faults EXCEPT !["probe"] = @ + 1]
    BY DEF Inv, Base, TypesInv, IsOadpInstalled, FaultOf
  <2>2. "probe" \in FaultKinds /\ faults["probe"] \in Nat
    BY <2>1 DEF FaultKinds
  <2> QED
    BY <2>1, <2>2 DEF Probed
<1>2. ~PrePivot' /\ ~PostPivot' /\ Home' = cl
  BY <1>0 DEF PrePivot, PostPivot, Home
<1>3. TypesInv'
  BY <1>0, <1>1 DEF Inv, Base, TypesInv
<1>4. FlowInv'
  BY <1>0, <1>2 DEF FlowInv
<1>5. VolumesInv'
  BY <1>0, <1>1, <1>2 DEF Inv, Base, VolumesInv, Unfinished, Own, Tracking
<1>6. ASSUME edits' = 0 PROVE Core'
  <2>1. PairedInv'
    BY <1>0, <1>2 DEF PairedInv
  <2>2. SnapInv' /\ RestoresInv'
    BY <1>0, NotUpgrading
  <2>3. SeedInv'
    BY <1>0 DEF SeedInv
  <2>4. HomeInv'
    BY <1>0, <1>2, <1>6, CleanupFacts DEF HomeInv, Own
  <2> QED
    BY <1>1, <2>1, <2>2, <2>3, <2>4 DEF Core
<1> QED
  BY <1>3, <1>4, <1>5, <1>6 DEF Inv, Base

\* The backups are not found.
LEMMA BackupsNotFoundKept ==
    ASSUME Inv, BackupsNotFound
    PROVE  Inv'
<1>1. faults \in [FaultKinds -> Nat] /\ faults' = [faults EXCEPT !["probe"] = @ + 1]
  BY DEF Inv, Base, TypesInv, BackupsNotFound, FaultOf
<1>2. faults' \in [FaultKinds -> Nat] /\ ~Probed'
  BY <1>1 DEF FaultKinds, Probed
<1>3. /\ Quiet /\ stage = "Cleanup" /\ pc = "cleanup" /\ pc' = "restorePVs" /\ files' = files /\ cond' = cond
      /\ grp' \in Nat /\ pos' \in Nat
  BY <1>2 DEF BackupsNotFound, Quiet, cluster, loop, Inv, Base, TypesInv
<1> QED
  BY <1>2, <1>3, CleaningKept DEF Cleaning

\* The requests of the cleanup are made, one by one.
LEMMA CleanupBackupsKept ==
    ASSUME EachRestored, Inv, CleanupBackups
    PROVE  Inv'
<1>0. /\ stage = "Cleanup" /\ pc = "cleanup" /\ cm' = cm /\ stage' = stage /\ attempt' = attempt
      /\ storage' = storage /\ edits' = edits /\ faults' = faults /\ prev' = prev /\ files' = files
      /\ grp \in Nat /\ pos \in Nat /\ prev = NoCluster /\ files = {} /\ faults' \in [FaultKinds -> Nat]
  BY DEF CleanupBackups, bounds, Inv, Base, TypesInv, FlowInv
<1>1. CASE Mine \ stale = {} /\ pc' = (IF stale = {} THEN "restorePVs" ELSE "waitAll") /\ UNCHANGED <<cl, cond, loop>>
  <2>1. Quiet /\ cond' = cond /\ grp' = grp /\ pos' = pos /\ stale' = stale
    BY <1>0, <1>1 DEF Quiet, Probed, loop
  <2>2. \A b \in BackupNames : Own(cl, b) => b \in stale
    BY <1>1 DEF Mine, Valid, Own
  <2>3. pc' = "restorePVs" => \A b \in BackupNames : ~Own(cl, b)
    BY <1>1, <2>2
  <2>4. edits = 0 /\ Probed /\ pc' = "restorePVs" => NoneOwn
    <3>1. edits = 0 /\ Probed => \A b \in BackupNames : storage[b].owner = Me => Own(cl, b)
      BY <1>0, CleanupFacts
    <3> QED
      BY <2>3, <3>1 DEF NoneOwn, Own
  <2> QED
    BY <1>0, <1>1, <2>1, <2>2, <2>3, <2>4, CleaningKept DEF Cleaning, Unfinished, Quiet
<1>2. ASSUME NEW b \in Mine \ stale,
             cl' = [cl EXCEPT !.requests[b] = [labelled |-> TRUE, phase |-> "New"],
                              !.label = cleanupBackupLabels(@, cl.crs[b].objs)],
             UNCHANGED <<cond, pc, snap, grp, pos>>
      PROVE  Inv'
  <2>0. IsCluster(cl) /\ b \in BackupNames /\ Own(cl, b)
    BY DEF Inv, Base, TypesInv, Mine, Valid, Own
  <2> DEFINE req == [labelled |-> TRUE, phase |-> "New"]
             label == cleanupBackupLabels(cl.label, cl.crs[b].objs)
             m == WithRequest(cl, b, req)
  <2>1. req \in Requests /\ DOMAIN label = Objects
    BY DEF Requests, cleanupBackupLabels
  <2>2. cl' = WithLabel(m, label)
    <3>1. DOMAIN cl = ClusterFields
      BY <2>0 DEF IsCluster
    <3> HIDE DEF req
    <3>2. cl' = [cl EXCEPT !.requests[b] = req, !.label = label]
      BY <1>2 DEF req
    <3> HIDE DEF label
    <3> QED
      BY <3>1, <3>2 DEF ClusterFields, WithRequest, WithLabel
  <2> HIDE DEF req, label
  <2>3. IsCluster(m) /\ m.crs = cl.crs /\ SameRest(cl, m) /\ OneRequest(cl, m, b, req)
    BY <2>0, <2>1, RequestUpdated
  <2> HIDE DEF m
  <2>4. IsCluster(cl') /\ cl'.crs = m.crs /\ cl'.requests = m.requests /\ cl'.restores = m.restores /\ cl'.volumes = m.volumes
    BY <2>1, <2>2, <2>3, LabelUpdated
  <2>5. \A y \in BackupNames : cl'.requests[y].phase = "New" => cl.requests[y].phase = "New" \/ Own(cl, y)
    BY <2>0, <2>3, <2>4 DEF OneRequest
  <2> QED
    BY <1>0, <1>2, <2>3, <2>4, <2>5, CleanupStep DEF SameRest
<1>3. CASE DeletionFailed /\ UNCHANGED cl
  <2>1. cond' \in {"InProgress", "Completed", "Failed"} /\ End /\ Quiet
    BY <1>0, <1>3 DEF DeletionFailed, Quiet, Probed
  <2> QED
    BY <1>0, <1>3, <2>1, EndKept DEF DeletionFailed, PostPivot
<1> QED
  BY <1>1, <1>2, <1>3 DEF CleanupBackups

\* The policy of a volume is restored.
LEMMA CleanupVolumeKept ==
    ASSUME Inv, stage = "Cleanup", pc = "restorePVs", NEW v \in Updated, RestorePVsReclaimPolicy(v),
           UNCHANGED <<cm, stage, cond, attempt, prev, storage, files, pc, loop, bounds>>
    PROVE  Inv'
<1>0. /\ cm' = cm /\ stage' = stage /\ cond' = cond /\ pc' = pc /\ snap' = snap /\ grp' = grp /\ pos' = pos /\ stale' = stale
      /\ attempt' = attempt /\ storage' = storage /\ edits' = edits /\ faults' = faults /\ prev' = prev /\ files' = files
      /\ prev = NoCluster /\ files = {} /\ IsCluster(cl) /\ Kept(cl.volumes)
  BY DEF bounds, loop, Inv, Base, TypesInv, FlowInv, IsCluster
<1> DEFINE vols == [cl.volumes EXCEPT ![v] = [policy |-> "Delete", updated |-> FALSE]]
<1>1. cl' = WithVolumes(cl, vols)
  BY DEF WithVolumes, RestorePVsReclaimPolicy
<1>1a. Kept(vols)
  BY <1>0, RestoredVolumes DEF Updated
<1> HIDE DEF vols
<1>2. /\ IsCluster(cl') /\ cl'.crs = cl.crs /\ cl'.requests = cl.requests /\ cl'.restores = cl.restores
  BY <1>0, <1>1, <1>1a, VolumesUpdated
<1>3. ~PrePivot' /\ ~PostPivot' /\ Home' = cl' /\ Home = cl /\ Probed' = Probed
  BY <1>0 DEF PrePivot, PostPivot, Home, Probed
<1>4. TypesInv'
  BY <1>0, <1>2 DEF Inv, Base, TypesInv
<1>5. FlowInv'
  BY <1>0, <1>3 DEF Inv, Base, FlowInv
<1>6. VolumesInv'
  <2>1. Probed => \A b \in BackupNames : ~Unfinished(cl', b)
    BY <1>0, <1>2 DEF Inv, Base, VolumesInv, Unfinished, Own
  <2> QED
    BY <1>0, <1>3, <2>1 DEF Inv, Base, VolumesInv
<1>7. ASSUME edits' = 0 PROVE Core'
  <2>0. Core
    BY <1>0, <1>7 DEF Inv
  <2>1. PairedInv'
    BY <1>0, <1>3 DEF PairedInv
  <2>2. SnapInv' /\ RestoresInv' /\ LabelsInv' /\ WavesInv'
    BY <1>0, NotUpgrading
  <2>3. SeedInv'
    BY <1>0 DEF SeedInv
  <2>4. HomeInv'
    BY <1>0, <1>2, <1>3, <2>0 DEF Core, HomeInv, Own
  <2>5. ASSUME Probed' PROVE OwnInv'
    <3>1. OwnInv
      BY <1>0, <1>3, <2>0, <2>5 DEF Core
    <3> QED
      BY <1>0, <1>2, <1>3, <3>1 DEF OwnInv, NoneOwn, Own, Current, DefInv
  <2> QED
    BY <2>1, <2>2, <2>3, <2>4, <2>5 DEF Core
<1> QED
  BY <1>4, <1>5, <1>6, <1>7 DEF Inv, Base

\* When all policies are restored, Idle is reached.
LEMMA CleanupEndKept ==
    ASSUME Inv, stage = "Cleanup", pc = "restorePVs", Updated = {}, Idle, UNCHANGED cl,
           UNCHANGED <<cm, attempt, prev, storage, files, bounds>>
    PROVE  Inv'
<1>0. /\ cm' = cm /\ stage' = "Idle" /\ cond' = "Completed"
      /\ attempt' = attempt /\ storage' = storage /\ edits' = edits /\ faults' = faults /\ prev' = prev /\ files' = files
      /\ prev = NoCluster /\ files = {} /\ pc' = "idle" /\ grp' = 1 /\ pos' = 1
      /\ IsCluster(cl)
  BY DEF bounds, Inv, Base, TypesInv, FlowInv, Idle, End
<1>1. Clean(cl.volumes)
  BY <1>0, LoopsEnd
<1>2. /\ IsCluster(cl') /\ cl'.crs = cl.crs /\ cl'.requests = cl.requests /\ cl'.restores = cl.restores
      /\ cl'.volumes = cl.volumes
  BY <1>0
<1>3. ~PrePivot' /\ ~PostPivot' /\ Home' = cl' /\ Home = cl /\ Probed' = Probed
  BY <1>0 DEF PrePivot, PostPivot, Home, Probed
<1>4. TypesInv'
  BY <1>0, <1>2 DEF Inv, Base, TypesInv
<1>5. FlowInv'
  BY <1>0, <1>3 DEF FlowInv
<1>6. VolumesInv'
  <2>1. Probed => \A b \in BackupNames : ~Unfinished(cl', b)
    BY <1>0, <1>2 DEF Inv, Base, VolumesInv, Unfinished, Own
  <2>2. Clean(cl'.volumes)
    BY <1>1, <1>2
  <2> QED
    BY <1>0, <1>3, <2>1, <2>2 DEF Inv, Base, VolumesInv
<1>7. ASSUME edits' = 0 PROVE Core'
  <2>0. Core
    BY <1>0, <1>7 DEF Inv
  <2>1. PairedInv'
    BY <1>0, <1>3 DEF PairedInv
  <2>2. SnapInv' /\ RestoresInv' /\ LabelsInv' /\ WavesInv'
    BY <1>0, NotUpgrading
  <2>3. SeedInv'
    BY <1>0 DEF SeedInv
  <2>4. HomeInv'
    BY <1>0, <1>2, <1>3, <2>0 DEF Core, HomeInv, Own
  <2>5. ASSUME Probed' PROVE OwnInv'
    <3>1. OwnInv /\ NoneOwn
      BY <1>0, <1>3, <2>0, <2>5 DEF Core, OwnInv
    <3> QED
      BY <1>0, <1>2, <1>3, <3>1 DEF OwnInv, NoneOwn, Own, Current, DefInv
  <2> QED
    BY <2>1, <2>2, <2>3, <2>4, <2>5 DEF Core
<1> QED
  BY <1>4, <1>5, <1>6, <1>7 DEF Inv, Base

\* The volumes one by one, then Idle.
LEMMA CleanupPVsKept ==
    ASSUME Inv, CleanupPVs
    PROVE  Inv'
BY CleanupVolumeKept, CleanupEndKept DEF CleanupPVs

-----------------------------------------------------------------------------
(* Users. *)

\* An upgrade begins: nothing of the last one is left.
LEMMA StartPrepKept ==
    ASSUME Inv, StartPrep
    PROVE  Inv'
<1>0. /\ stage = "Idle" /\ stage' = "Prep" /\ cond' = "InProgress" /\ attempt' = attempt + 1
      /\ pc = "idle" /\ pc' = pc /\ cm' = cm /\ storage' = storage /\ files' = files /\ cl' = cl /\ prev' = prev
      /\ snap' = snap /\ grp' = grp /\ pos' = pos /\ stale' = stale /\ edits' = edits /\ faults' = faults
      /\ prev = NoCluster /\ files = {}
  BY DEF StartPrep, UserStep, cluster, loop, bounds, Inv, Base, FlowInv
<1>1. ~PrePivot' /\ ~PostPivot' /\ Home' = cl /\ Home = cl /\ Probed' = Probed
  BY <1>0 DEF PrePivot, PostPivot, Home, Probed
<1>2. TypesInv'
  BY <1>0 DEF Inv, Base, TypesInv
<1>3. FlowInv'
  BY <1>0, <1>1 DEF Inv, Base, FlowInv
<1>4. VolumesInv'
  BY <1>0, <1>1 DEF Inv, Base, VolumesInv, Unfinished, Own
<1>5. ASSUME edits' = 0 PROVE Core'
  <2>0. Core
    BY <1>0, <1>5 DEF Inv
  <2>1. PairedInv'
    BY <1>0, <1>1 DEF PairedInv
  <2>2. SnapInv' /\ RestoresInv' /\ LabelsInv' /\ WavesInv'
    BY <1>0, NotUpgrading
  <2>3. SeedInv'
    BY <1>0 DEF SeedInv
  <2>4. HomeInv'
    BY <1>0, <1>1, <2>0 DEF Core, HomeInv, Own
  <2>5. ASSUME Probed' PROVE OwnInv'
    <3>1. OwnInv /\ NoneOwn
      BY <1>0, <1>1, <2>0, <2>5 DEF Core, OwnInv
    <3>2. \A b \in BackupNames : /\ Current(storage[b])' /\ Current(Home.crs[b])'
                                 /\ DefInv(b, storage[b])' /\ DefInv(b, Home.crs[b])'
      BY <1>0, <1>1, <3>1 DEF NoneOwn, Current, DefInv
    <3> QED
      BY <1>0, <1>1, <3>1, <3>2 DEF OwnInv, NoneOwn, Own
  <2> QED
    BY <2>1, <2>2, <2>3, <2>4, <2>5 DEF Core
<1> QED
  BY <1>2, <1>3, <1>4, <1>5 DEF Inv, Base

\* The stage is set to Upgrade.
LEMMA StartUpgradeKept ==
    ASSUME Inv, StartUpgrade
    PROVE  Inv'
<1>0. /\ stage = "Prep" /\ cond = "Completed" /\ stage' = "Upgrade" /\ cond' = "InProgress" /\ attempt' = attempt
      /\ pc = "idle" /\ pc' = pc /\ cm' = cm /\ storage' = storage /\ files' = files /\ cl' = cl /\ prev' = prev
      /\ snap' = snap /\ grp' = grp /\ pos' = pos /\ stale' = stale /\ edits' = edits /\ faults' = faults
      /\ prev = NoCluster /\ files = {}
  BY DEF StartUpgrade, UserStep, cluster, loop, bounds, Inv, Base, FlowInv
<1>1. PrePivot' /\ ~PostPivot' /\ Home' = cl /\ Home = cl /\ Probed' = Probed
  BY <1>0 DEF PrePivot, PostPivot, Home, Probed
<1>2. TypesInv'
  BY <1>0 DEF Inv, Base, TypesInv
<1>3. FlowInv'
  BY <1>0, <1>1 DEF Inv, Base, FlowInv
<1>4. VolumesInv'
  BY <1>0, <1>1 DEF Inv, Base, VolumesInv, Unfinished, Own, Tracking
<1>5. ASSUME edits' = 0 PROVE Core'
  <2>0. Core
    BY <1>0, <1>5 DEF Inv
  <2>1. PairedInv'
    BY <1>0, <1>1, <2>0 DEF Core, PairedInv
  <2>2. SnapInv' /\ RestoresInv'
    BY <1>0, <1>1 DEF SnapInv, RestoresInv, Tracking
  <2>3. SeedInv'
    BY <1>0 DEF SeedInv
  <2>4. HomeInv'
    BY <1>0, <1>1, <2>0 DEF Core, HomeInv, Own
  <2>5. ASSUME Probed' PROVE OwnInv' /\ WavesInv' /\ LabelsInv'
    <3>1. OwnInv /\ NoneOwn /\ cm \in Contents
      BY <1>0, <1>1, <2>0, <2>5 DEF Core, OwnInv, Inv, Base, TypesInv
    <3>2. OwnInv'
      BY <1>0, <1>1, <3>1 DEF OwnInv, Own, Current, DefInv, NoneOwn
    <3>3. WavesInv'
      BY <1>0, <3>1, NameFacts DEF WavesInv, NoneOwn, Own, Tracking, Exporting
    <3>4. LabelsInv'
      BY <1>0, <3>1 DEF LabelsInv, NoneOwn, Unfinished, Own
    <3> QED
      BY <3>2, <3>3, <3>4
  <2> QED
    BY <2>1, <2>2, <2>3, <2>4, <2>5 DEF Core
<1> QED
  BY <1>2, <1>3, <1>4, <1>5 DEF Inv, Base

\* The stage is set to Idle.
LEMMA AbortOrFinalizeKept ==
    ASSUME Inv, AbortOrFinalize
    PROVE  Inv'
<1>0. /\ stage' = "Cleanup" /\ cond' = "InProgress" /\ attempt' = attempt
      /\ pc = "idle" /\ pc' = pc /\ cm' = cm /\ storage' = storage /\ files' = files /\ cl' = cl /\ prev' = prev
      /\ snap' = snap /\ grp' = grp /\ pos' = pos /\ stale' = stale /\ edits' = edits /\ faults' = faults
  BY DEF AbortOrFinalize, UserStep, cluster, loop, bounds
<1>1. ~PrePivot' /\ ~PostPivot' /\ Home' = Home /\ Probed' = Probed
  BY <1>0 DEF PrePivot, PostPivot, Home, Probed
<1>2. prev # NoCluster => cond = "Completed" /\ stage = "Upgrade"
  BY DEF AbortOrFinalize, PrePivot, PostPivot, Inv, Base, FlowInv
<1>3. TypesInv'
  BY <1>0 DEF Inv, Base, TypesInv
<1>4. FlowInv'
  BY <1>0, <1>1 DEF Inv, Base, FlowInv
<1>5. VolumesInv'
  BY <1>0, <1>1 DEF Inv, Base, VolumesInv, Unfinished, Own
<1>6. ASSUME edits' = 0 PROVE Core'
  <2>0. Core
    BY <1>0, <1>6 DEF Inv
  <2>1. PairedInv'
    BY <1>0, <1>1, <2>0 DEF Core, PairedInv
  <2>2. SnapInv' /\ RestoresInv' /\ LabelsInv'
    BY <1>0, NotUpgrading
  <2>3. SeedInv'
    BY <1>0, <1>2, <2>0 DEF Core, SeedInv, Own
  <2>4. HomeInv'
    BY <1>0, <1>1, <2>0 DEF Core, HomeInv, Own
  <2>5. Probed' => OwnInv'
    BY <1>0, <1>1, <2>0 DEF Core, OwnInv, Own, Current, DefInv, NoneOwn
  <2>6. Probed' => WavesInv'
    BY <1>0, <1>1, <2>0 DEF Core, WavesInv
  <2> QED
    BY <2>1, <2>2, <2>3, <2>4, <2>5, <2>6 DEF Core
<1> QED
  BY <1>3, <1>4, <1>5, <1>6 DEF Inv, Base

\* The old stateroot is booted again.
LEMMA RollbackKept ==
    ASSUME Inv, Rollback
    PROVE  Inv'
<1>0. /\ stage = "Upgrade" /\ prev # NoCluster /\ stage' = "Rollback" /\ cond' = "Completed" /\ attempt' = attempt
      /\ pc = "idle" /\ pc' = pc /\ cm' = cm /\ storage' = storage /\ files' = files /\ cl' = prev /\ prev' = NoCluster
      /\ snap' = snap /\ grp' = grp /\ pos' = pos /\ stale' = stale /\ edits' = edits /\ faults' = faults
  BY DEF Rollback, UserStep, loop, bounds, PostPivot
<1>1. ~PrePivot' /\ ~PostPivot' /\ Home' = prev /\ Home = prev /\ Probed' = Probed
  BY <1>0 DEF PrePivot, PostPivot, Home, Probed
<1>3. TypesInv'
  BY <1>0 DEF Inv, Base, TypesInv
<1>4. FlowInv'
  BY <1>0, <1>1 DEF Inv, Base, FlowInv
<1>5. VolumesInv'
  BY <1>0, <1>1 DEF Inv, Base, VolumesInv, Unfinished, Own
<1>6. ASSUME edits' = 0 PROVE Core'
  <2>0. Core
    BY <1>0, <1>6 DEF Inv
  <2>1. PairedInv'
    BY <1>0, <1>1, <2>0 DEF Core, PairedInv
  <2>2. SnapInv' /\ RestoresInv' /\ LabelsInv' /\ WavesInv'
    BY <1>0, NotUpgrading
  <2>3. SeedInv'
    BY <1>0 DEF SeedInv
  <2>4. HomeInv'
    BY <1>0, <1>1, <2>0 DEF Core, HomeInv, SeedInv, Own
  <2>5. Probed' => OwnInv'
    BY <1>0, <1>1, <2>0 DEF Core, OwnInv, Own, Current, DefInv, NoneOwn
  <2> QED
    BY <2>1, <2>2, <2>3, <2>4, <2>5 DEF Core
<1> QED
  BY <1>3, <1>4, <1>5, <1>6 DEF Inv, Base

\* A failed cleanup is acknowledged.
LEMMA ManualCleanupDoneKept ==
    ASSUME Inv, ManualCleanupDone
    PROVE  Inv'
<1>0. /\ stage = "Cleanup" /\ stage' = stage /\ cond = "Failed" /\ cond' = "InProgress" /\ attempt' = attempt
      /\ pc = "idle" /\ pc' = pc /\ cm' = cm /\ storage' = storage /\ files' = files /\ cl' = cl /\ prev' = prev
      /\ snap' = snap /\ grp' = grp /\ pos' = pos /\ stale' = stale /\ edits' = edits /\ faults' = faults
  BY DEF ManualCleanupDone, UserStep, cluster, loop, bounds
<1>1. ~PrePivot' /\ ~PostPivot' /\ Home' = Home /\ Probed' = Probed
  BY <1>0 DEF PrePivot, PostPivot, Home, Probed
<1>3. TypesInv'
  BY <1>0 DEF Inv, Base, TypesInv
<1>4. FlowInv'
  BY <1>0, <1>1 DEF Inv, Base, FlowInv
<1>5. VolumesInv'
  BY <1>0, <1>1 DEF Inv, Base, VolumesInv, Unfinished, Own
<1>6. ASSUME edits' = 0 PROVE Core'
  <2>0. Core
    BY <1>0, <1>6 DEF Inv
  <2>1. PairedInv'
    BY <1>0, <1>1, <2>0 DEF Core, PairedInv
  <2>2. SnapInv' /\ RestoresInv' /\ LabelsInv'
    BY <1>0, NotUpgrading
  <2>3. SeedInv'
    BY <1>0, <2>0 DEF Core, SeedInv, Own
  <2>4. HomeInv'
    BY <1>0, <1>1, <2>0 DEF Core, HomeInv, Own
  <2>5. Probed' => OwnInv'
    BY <1>0, <1>1, <2>0 DEF Core, OwnInv, Own, Current, DefInv, NoneOwn
  <2>6. Probed' => WavesInv'
    BY <1>0, <1>1, <2>0 DEF Core, WavesInv
  <2> QED
    BY <2>1, <2>2, <2>3, <2>4, <2>5, <2>6 DEF Core
<1> QED
  BY <1>3, <1>4, <1>5, <1>6 DEF Inv, Base

\* The ConfigMap is edited: what is said of the volumes does not depend on it.
LEMMA EditConfigMapKept ==
    ASSUME Inv, EditConfigMap
    PROVE  Inv'
<1>0. /\ stage' = stage /\ cond' = cond /\ attempt' = attempt /\ cm' \in Contents /\ edits' = edits + 1
      /\ pc' = pc /\ storage' = storage /\ files' = files /\ cl' = cl /\ prev' = prev
      /\ snap' = snap /\ grp' = grp /\ pos' = pos /\ stale' = stale /\ faults' = faults /\ edits \in Nat
  BY DEF EditConfigMap, cluster, loop, Inv, Base, TypesInv
<1>1. PrePivot' = PrePivot /\ PostPivot' = PostPivot /\ Probed' = Probed
  BY <1>0 DEF PrePivot, PostPivot, Probed
<1>2. TypesInv'
  BY <1>0 DEF Inv, Base, TypesInv
<1>3. FlowInv'
  BY <1>0, <1>1 DEF Inv, Base, FlowInv
<1>4. VolumesInv'
  BY <1>0, <1>1 DEF Inv, Base, VolumesInv, Unfinished, Own
<1>5. edits' # 0
  BY <1>0
<1> QED
  BY <1>2, <1>3, <1>4, <1>5 DEF Inv, Base

\* Nothing happens.
LEMMA StutterKept ==
    ASSUME Inv, UNCHANGED vars
    PROVE  Inv'
<1>0. /\ stage' = stage /\ cond' = cond /\ attempt' = attempt /\ cm' = cm /\ edits' = edits
      /\ pc' = pc /\ storage' = storage /\ files' = files /\ cl' = cl /\ prev' = prev
      /\ snap' = snap /\ grp' = grp /\ pos' = pos /\ stale' = stale /\ faults' = faults
  BY DEF vars, cluster, loop, bounds
<1>1. IsCluster(cl') /\ cl'.crs = cl.crs /\ SameRest(cl, cl')
  BY <1>0 DEF Inv, Base, TypesInv, SameRest
<1>2. faults' \in [FaultKinds -> Nat] /\ (Probed' => Probed) /\ pos' \in Nat
  BY <1>0 DEF Inv, Base, TypesInv, Probed
<1>3. edits = 0 => \A b \in BackupNames : cl'.requests[b].phase # "none" => prev = NoCluster
  BY <1>0 DEF Inv, Core, SeedInv
<1> QED
  BY <1>0, <1>1, <1>2, <1>3, RequestsKept

-----------------------------------------------------------------------------
(* The invariant. *)

\* At first the storage holds backups of others.
LEMMA InvInit ==
    ASSUME Init
    PROVE  Inv
<1> DEFINE vols == [v \in Volumes |-> IF v = "late" THEN NoVolume ELSE Untouched(v)]
<1>0. /\ cm \in Contents /\ stage = "Idle" /\ cond = "Completed" /\ attempt = 0 /\ prev = NoCluster
      /\ files = {} /\ pc = "idle" /\ grp = 1 /\ pos = 1 /\ stale = {} /\ edits = 0
      /\ faults \in [FaultKinds -> Nat]
      /\ storage \in [BackupNames -> {NoBackup} \cup {Stored(w, 0) : w \in Owners}]
  BY DEF Init
<1>1. Kept(vols) /\ Clean(vols)
  BY VolumeFacts DEF Kept, Clean, Volume
<1>2. PICK e : e = EmptyCluster(1)
  OBVIOUS
<1>3. cl = WithVolumes(e, vols)
  BY <1>2 DEF Init, WithVolumes
<1> HIDE DEF vols
<1>4. /\ IsCluster(e) /\ \A b \in BackupNames : e.crs[b] = NoBackup /\ e.requests[b] = NoRequest
      /\ \A r \in RestoreNames : e.restores[r] = "none"
  BY <1>2, EmptyFacts
<1>5. IsCluster(e)
  BY <1>4
<1>6. IsCluster(cl) /\ cl.crs = e.crs /\ cl.requests = e.requests /\ cl.restores = e.restores /\ cl.volumes = vols
  BY <1>1, <1>3, <1>5, VolumesUpdated
<1>7. \A b \in BackupNames : /\ IsBackup(storage[b]) /\ storage[b].owner # Me
                             /\ storage[b] # NoBackup => storage[b].phase = "Completed" /\ Retained(storage[b].volumes)
  <2>1. ASSUME NEW w \in Owners, NEW x, x = Stored(w, 0)
        PROVE  IsBackup(x) /\ x.owner # Me /\ x.phase = "Completed" /\ Retained(x.volumes)
    <3>1. DOMAIN x = BackupFields /\ x.owner = w /\ x.phase = "Completed" /\ x.volumes = [v \in Volumes |-> NoVolume]
      BY <2>1 DEF Stored, BackupFields
    <3>2. Kept(x.volumes) /\ Retained(x.volumes)
      BY <3>1, VolumeFacts DEF Kept, Retained, Volume
    <3> QED
      BY <3>1, <3>2, OwnerFacts DEF IsBackup, Phases
  <2>2. \A b \in BackupNames : storage[b] = NoBackup \/ \E w \in Owners : storage[b] = Stored(w, 0)
    BY <1>0
  <2>3. IsBackup(NoBackup) /\ NoBackup.owner # Me
    BY OwnerFacts DEF IsBackup
  <2> QED
    BY <2>1, <2>2, <2>3
<1>8. ~PrePivot /\ ~PostPivot /\ Home = cl
  BY <1>0 DEF PrePivot, PostPivot, Home
<1>9. \A b \in BackupNames : ~Own(cl, b) /\ ~Unfinished(cl, b) /\ cl.crs[b].owner # Me /\ cl.requests[b].phase = "none"
  BY <1>4, <1>6, OwnerFacts DEF Own, Unfinished
<1>10. TypesInv
  BY <1>0, <1>6, <1>7 DEF TypesInv
<1>11. FlowInv
  BY <1>0, <1>8 DEF FlowInv
<1>12. VolumesInv
  BY <1>0, <1>1, <1>6, <1>7, <1>8, <1>9 DEF VolumesInv
<1>13. PairedInv /\ SnapInv /\ SeedInv /\ RestoresInv /\ WavesInv /\ LabelsInv
  BY <1>0, <1>8 DEF PairedInv, SnapInv, SeedInv, RestoresInv, WavesInv, LabelsInv
<1>14. HomeInv
  <2>1. "none" \notin Pending
    BY DEF Pending
  <2> QED
    BY <1>0, <1>4, <1>6, <1>8, <1>9, <2>1 DEF HomeInv
<1>15. OwnInv
  BY <1>0, <1>7, <1>8, <1>9 DEF OwnInv, NoneOwn, Current, DefInv
<1> QED
  BY <1>10, <1>11, <1>12, <1>13, <1>14, <1>15 DEF Inv, Base, Core

\* Every step keeps it.
LEMMA InvNext ==
    ASSUME EachRestored, Inv, [Next]_vars
    PROVE  Inv'
<1>1. CASE Controller
  BY <1>1, CleanupStaleBackupsKept, EnsureDeletedKept, ValidateKept, PrepDoneKept, HandleBackupKept, PatchKept,
     StartOrTrackBackupKept, BackupGroupKept, ExportDPAKept, ExportRestoresKept, PivotKept, HandleRestoreKept,
     StartOrTrackRestoreKept, RestoreGroupKept, RestoredPVsKept, RemoveOadpPathKept,
     CleanupDeleteBackupRequestsKept, CleanupBackupsKept, CleanupPVsKept DEF Controller
<1>2. CASE VeleroWorks
  BY <1>2, BackupStartsKept, BackupCompletesKept, BackupSyncedKept, BackupDeletedKept, RequestExpiresKept,
     RestoreStartsKept, RestoreCompletesKept DEF VeleroWorks
<1>3. CASE \/ Interrupt \/ DeletionTimeout \/ IsOadpInstalled \/ BackupsNotFound
           \/ \E b \in BackupNames : BackupFails(b)
           \/ \E r \in RestoreNames : RestoreFails(r)
  BY <1>3, InterruptKept, DeletionTimeoutKept, IsOadpInstalledKept, BackupsNotFoundKept, BackupFailsKept, RestoreFailsKept
<1>4. CASE \/ StartPrep \/ StartUpgrade \/ AbortOrFinalize \/ Rollback \/ ManualCleanupDone
           \/ EditConfigMap \/ CreateVolume
  BY <1>4, StartPrepKept, StartUpgradeKept, AbortOrFinalizeKept, RollbackKept, ManualCleanupDoneKept,
     EditConfigMapKept, CreateVolumeKept
<1>5. CASE UNCHANGED vars
  BY <1>5, StutterKept
<1> QED
  BY <1>1, <1>2, <1>3, <1>4, <1>5 DEF Next, Done

\* It holds in every reachable state.
LEMMA InvHolds ==
    ASSUME EachRestored
    PROVE  Spec => []Inv
<1>1. Init => Inv
  BY InvInit
<1>2. Inv /\ [Next]_vars => Inv'
  BY InvNext
<1> QED
  BY <1>1, <1>2, PTL DEF Spec

-----------------------------------------------------------------------------
(* What follows for the system. *)

\* An upgrade that ended left neither backups nor patched volumes behind.
LEMMA InvIsClean ==
    ASSUME Inv
    PROVE  IdleIsClean
<1>1. NoBackupsLeft
  BY DEF Inv, Core, OwnInv, NoneOwn, NoBackupsLeft, Undisturbed, Probed
<1>2. PoliciesKept
  BY DEF Inv, Base, VolumesInv, Clean, PoliciesKept, Probed
<1> QED
  BY <1>1, <1>2 DEF IdleIsClean

\* A restore that was applied is of a backup of this cluster and upgrade.
LEMMA InvIsOwn ==
    ASSUME Inv, edits = 0
    PROVE  RestoreFromThisUpgrade
<1> SUFFICES ASSUME PostPivot, NEW f \in files, cl.restores[f.name] # "none"
             PROVE  /\ storage[f.of].owner = Me
                    /\ Undisturbed => storage[f.of].attempt = attempt
  BY DEF RestoreFromThisUpgrade
<1>0. Core /\ cm \in Contents /\ prev # NoCluster /\ IsCluster(cl) /\ f.name \in RestoreNames /\ f.of \in BackupNames
  BY DEF Inv, Base, TypesInv, PostPivot
<1>1. files = ExportedRestores(cm)
  BY <1>0 DEF Core, PairedInv
<1>2. f.name \in DOMAIN cm.restores /\ f.of = cm.restores[f.name].of
  BY <1>0, <1>1, ExportedFiles DEF Exports
<1>3. Own(cl, f.of) /\ (cl.crs[f.of] # NoBackup => cl.crs[f.of] = storage[f.of])
  BY <1>0, <1>2 DEF Core, SeedInv
<1>4. storage[f.of].owner = Me
  BY <1>3, OwnerFacts DEF Own
<1>5. Undisturbed => storage[f.of].attempt = attempt
  BY <1>0, <1>4 DEF Core, OwnInv, Current, Undisturbed, Probed
<1> QED
  BY <1>4, <1>5

\* The application's data goes along.
LEMMA InvCarries ==
    ASSUME EachRestored, ListedOnce, Inv, edits = 0
    PROVE  DataCarried
<1>0. Core /\ cm \in Contents /\ \A b \in BackupNames : IsBackup(storage[b])
  BY DEF Inv, Base, TypesInv
<1>1. NothingLost
  <2> SUFFICES ASSUME Undisturbed, PostPivot, cond = "InProgress",
                      NEW b \in DOMAIN cm.backups \cup {f.of : f \in files}
               PROVE  /\ storage[b] # NoBackup /\ storage[b].owner = Me /\ storage[b].attempt = attempt
                      /\ \E f \in files : f.of = b
    BY DEF NothingLost
  <2>0. OwnInv /\ WavesInv /\ prev # NoCluster /\ PairedCRs(cm) /\ files = ExportedRestores(cm)
    BY <1>0 DEF Core, Undisturbed, Probed, PostPivot, PairedInv
  <2>1. Exports(files, cm.restores)
    BY <1>0, <2>0, ExportedFiles
  <2>2. b \in DOMAIN cm.backups /\ b \in BackupNames
    <3>1. ASSUME NEW f \in files PROVE f.of \in DOMAIN cm.backups
      BY <2>0, <2>1 DEF Exports, PairedCRs
    <3> QED
      BY <1>0, <3>1, NameFacts
  <2>3. storage[b].owner = Me
    BY <2>0, <2>2 DEF WavesInv
  <2>4. storage[b] # NoBackup /\ storage[b].attempt = attempt
    BY <1>0, <2>0, <2>2, <2>3, BackupFacts DEF OwnInv, Current
  <2>5. PICK r \in DOMAIN cm.restores : cm.restores[r].of = b
    BY <1>0, <2>0, <2>2 DEF EachRestored
  <2>6. \E f \in files : f.of = b
    BY <2>1, <2>5 DEF Exports
  <2> QED
    BY <2>3, <2>4, <2>6
<1>2. BackupHoldsListed
  BY <1>0 DEF Core, LabelsInv, BackupHoldsListed, Probed, Undisturbed
<1>3. RetainWhenBackedUp
  BY DEF Inv, Base, VolumesInv, Retained, RetainWhenBackedUp, Probed
<1>4. WavesInOrder
  BY <1>0 DEF Core, WavesInv, RestoresInv, WavesInOrder, Probed, Undisturbed, Saved, Own, Valid
<1> QED
  BY <1>1, <1>2, <1>3, <1>4 DEF DataCarried

\* An upgrade that was aborted, finalized or rolled back leaves no backup of this
\* cluster behind, in the cluster or in the storage, and every volume with the
\* policy it had (cleanupOADPResources), whatever fails or restarts.
THEOREM IdleClean ==
    ASSUME EachRestored
    PROVE  Spec => []IdleIsClean
<1>1. Inv => IdleIsClean
  BY InvIsClean
<1> QED
  BY <1>1, InvHolds, PTL

\* Restores are applied only from backups that this cluster made for this
\* upgrade (getValidBackup, CleanupBackups), while the ConfigMap is not edited.
THEOREM OwnRestores ==
    ASSUME EachRestored
    PROVE  Spec => [](edits = 0 => RestoreFromThisUpgrade)
<1>1. Inv => (edits = 0 => RestoreFromThisUpgrade)
  BY InvIsOwn
<1> QED
  BY <1>1, InvHolds, PTL

\* Nothing the ConfigMap lists is left behind, in the order of the waves
\* (HandleBackup, HandleRestore), while it is not edited.
THEOREM NothingLeftBehind ==
    ASSUME EachRestored, ListedOnce
    PROVE  Spec => [](edits = 0 => DataCarried)
<1>1. Inv => (edits = 0 => DataCarried)
  BY InvCarries
<1> QED
  BY <1>1, InvHolds, PTL

=============================================================================

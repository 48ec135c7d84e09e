----------------------------- MODULE DataInduction -----------------------------
(***************************************************************************)
(* Induction over the naturals with sets in the place of predicates: the     *)
(* library's induction theorems take an operator as a parameter, which the   *)
(* provers cannot instantiate; these follow from well-foundedness of the     *)
(* subset ordering of a finite interval.                                     *)
(***************************************************************************)
EXTENDS Naturals, Sequences, Slices, FiniteSetTheorems, TLAPS

\* A non-empty set of naturals has a least element.
LEMMA LeastNatural ==
  ASSUME NEW T \in SUBSET Nat, NEW n \in T PROVE \E m \in T : \A k \in T : m <= k
  <1> DEFINE S == 0 .. n
             I == {0 .. m : m \in {k \in T : k <= n}}
  <1>1. IsFiniteSet(S)
    BY FS_Interval
  <1>2. IsWellFoundedOn(StrictSubsetOrdering(S), FiniteSubsetsOf(S))
    BY <1>1, FS_StrictSubsetOrderingWellFounded
  <1>3. I \subseteq FiniteSubsetsOf(S) /\ I # {}
    <2>1. \A m \in {k \in T : k <= n} : (0 .. m) \subseteq S /\ IsFiniteSet(0 .. m)
      BY FS_Interval
    <2> QED
      BY <2>1 DEF FiniteSubsetsOf
  <1>4. \E x \in I : \A y \in I : ~(<<y, x>> \in StrictSubsetOrdering(S))
    <2> HIDE DEF I, S
    <2> QED
      BY <1>2, <1>3, WFMin
  <1>5. PICK m \in {k \in T : k <= n} : \A y \in I : ~(<<y, 0 .. m>> \in StrictSubsetOrdering(S))
    BY <1>4
  <1>6. ASSUME NEW k \in T, k < m PROVE FALSE
    <2>1. (0 .. k) \in I
      BY <1>5, <1>6
    <2>2. (0 .. k) \subseteq (0 .. m) /\ (0 .. k) # (0 .. m) /\ (0 .. m) \subseteq S
      <3>1. m \in 0 .. m /\ m \notin 0 .. k
        BY <1>5, <1>6
      <3> QED
        BY <3>1, <1>6, <1>5
    <2>3. <<0 .. k, 0 .. m>> \in StrictSubsetOrdering(S)
      BY <2>2 DEF StrictSubsetOrdering
    <2> QED
      BY <1>5, <2>1, <2>3
  <1> QED
    BY <1>5, <1>6

\* A set of naturals that holds 0, and the successor of each of its members, holds all.
LEMMA NatSet ==
  ASSUME NEW T \in SUBSET Nat, 0 \in T, \A n \in T : n + 1 \in T
  PROVE  T = Nat
  <1> SUFFICES ASSUME NEW n \in Nat \ T PROVE FALSE
    OBVIOUS
  <1>0. Nat \ T \in SUBSET Nat /\ n \in Nat \ T
    OBVIOUS
  <1>1. PICK m \in Nat \ T : \A k \in Nat \ T : m <= k
    BY <1>0, LeastNatural
  <1>2. m # 0 /\ m - 1 \in Nat /\ m - 1 \in T
    BY <1>1
  <1> QED
    BY <1>1, <1>2

\* A non-empty finite set of naturals has a greatest element.
LEMMA GreatestNatural ==
  ASSUME NEW T \in SUBSET Nat, IsFiniteSet(T), T # {} PROVE \E m \in T : \A k \in T : k <= m
  <1> DEFINE Above(m) == {k \in T : m < k}
             I == {Above(m) : m \in T}
  <1>1. IsWellFoundedOn(StrictSubsetOrdering(T), FiniteSubsetsOf(T))
    BY FS_StrictSubsetOrderingWellFounded
  <1>2. I \subseteq FiniteSubsetsOf(T) /\ I # {}
    <2>1. \A m \in T : Above(m) \subseteq T /\ IsFiniteSet(Above(m))
      BY FS_Subset
    <2> QED
      BY <2>1 DEF FiniteSubsetsOf
  <1>3. \E x \in I : \A y \in I : ~(<<y, x>> \in StrictSubsetOrdering(T))
    <2> HIDE DEF I
    <2> QED
      BY <1>1, <1>2, WFMin
  <1>4. PICK m \in T : \A y \in I : ~(<<y, Above(m)>> \in StrictSubsetOrdering(T))
    BY <1>3
  <1>5. ASSUME NEW k \in T, m < k PROVE FALSE
    <2>1. Above(k) \in I
      OBVIOUS
    <2>2. k \in Above(m) /\ k \notin Above(k) /\ Above(k) \subseteq Above(m) /\ Above(m) \subseteq T
      <3>1. k \in Nat /\ m \in Nat
        OBVIOUS
      <3>2. \A j \in T : j \in Nat /\ (k < j => m < j)
        BY <1>5, <3>1
      <3>3. ~(k < k)
        BY <3>1
      <3> QED
        BY <1>5, <3>2, <3>3
    <2>3. <<Above(k), Above(m)>> \in StrictSubsetOrdering(T)
      BY <2>2 DEF StrictSubsetOrdering
    <2> QED
      BY <1>4, <2>1, <2>3
  <1> QED
    BY <1>4, <1>5

\* A sequence of states, each the one before it put through a step, exists for any
\* number of steps.
LEMMA IteratesExist ==
  ASSUME NEW S, NEW seed \in S, NEW n \in Nat, NEW step \in [1 .. n -> [S -> S]]
  PROVE  \E f \in [0 .. n -> S] : f[0] = seed /\ \A i \in 1 .. n : f[i] = step[i][f[i - 1]]
  <1> DEFINE Reached(m) == \E f \in [0 .. m -> S] :
                             f[0] = seed /\ \A i \in 1 .. m : f[i] = step[i][f[i - 1]]
             T == {m \in Nat : m <= n => Reached(m)}
  <1>1. Reached(0)
    <2>1. [i \in 0 .. 0 |-> seed] \in [0 .. 0 -> S]
      OBVIOUS
    <2>2. [i \in 0 .. 0 |-> seed][0] = seed
      OBVIOUS
    <2>3. \A i \in 1 .. 0 : FALSE
      OBVIOUS
    <2> QED
      BY <2>1, <2>2, <2>3
  <1>2. ASSUME NEW m \in Nat, m + 1 <= n, Reached(m) PROVE Reached(m + 1)
    <2>1. PICK f \in [0 .. m -> S] : f[0] = seed /\ \A i \in 1 .. m : f[i] = step[i][f[i - 1]]
      BY <1>2
    <2> DEFINE g == [i \in 0 .. m + 1 |-> IF i <= m THEN f[i] ELSE step[m + 1][f[m]]]
    <2>2. step[m + 1][f[m]] \in S
      BY <1>2, <2>1
    <2>3. g \in [0 .. m + 1 -> S]
      BY <2>1, <2>2
    <2>4. g[0] = seed
      BY <2>1
    <2>5. ASSUME NEW i \in 1 .. m + 1 PROVE g[i] = step[i][g[i - 1]]
      <3>1. CASE i = m + 1
        BY <3>1
      <3>2. CASE i # m + 1
        <4>1. i \in 1 .. m /\ i - 1 \in 0 .. m /\ i \in 0 .. m /\ i \in 0 .. m + 1 /\ i - 1 \in 0 .. m + 1
          BY <3>2
        <4> QED
          BY <4>1, <2>1
      <3> QED
        BY <3>1, <3>2
    <2> HIDE DEF g
    <2> QED
      BY <2>3, <2>4, <2>5
  <1>3. T = Nat
    <2> HIDE DEF Reached
    <2>1. 0 \in T
      BY <1>1
    <2>2. \A m \in T : m + 1 \in T
      BY <1>2
    <2>3. T \in SUBSET Nat
      OBVIOUS
    <2> HIDE DEF T
    <2> QED
      BY <2>1, <2>2, <2>3, NatSet
  <1>4. n \in T
    BY <1>3
  <1> QED
    BY <1>4

\* ... and so the recursive function that names them.
LEMMA RecursionSolved ==
  ASSUME NEW S, NEW seed \in S, NEW n \in Nat, NEW step \in [1 .. n -> [S -> S]]
  PROVE  \E f \in [0 .. n -> S] :
           f = [i \in 0 .. n |-> IF i = 0 THEN seed ELSE step[i][f[i - 1]]]
  <1>1. PICK f \in [0 .. n -> S] : f[0] = seed /\ \A i \in 1 .. n : f[i] = step[i][f[i - 1]]
    BY IteratesExist
  <1>2. \A i \in 0 .. n : i = 0 \/ i \in 1 .. n
    OBVIOUS
  <1>3. \A i \in 0 .. n : f[i] = IF i = 0 THEN seed ELSE step[i][f[i - 1]]
    BY <1>1, <1>2
  <1>4. f = [i \in 0 .. n |-> IF i = 0 THEN seed ELSE step[i][f[i - 1]]]
    BY <1>1, <1>3
  <1> QED
    BY <1>1, <1>4

-----------------------------------------------------------------------------
(* What Kept keeps. *)

\* seq draws members of set from the first n of list, each position once, and misses none.
Draws(list, set, seq, n) ==
  /\ seq \in Seq(set)
  /\ \E r \in [1 .. Len(seq) -> 1 .. n] :
       /\ \A k \in 1 .. Len(seq) : seq[k] = list[r[k]]
       /\ \A k, l \in 1 .. Len(seq) : r[k] = r[l] => k = l
  /\ \A j \in 1 .. n : list[j] \in set => \E k \in 1 .. Len(seq) : seq[k] = list[j]

\* The recursion of Kept has a solution, and Kept is its last value.
LEMMA KeptPrefixes ==
  ASSUME NEW S, NEW list \in Seq(S), NEW set
  PROVE  \E f : /\ f[0] = <<>>
                /\ \A i \in 1 .. Len(list) :
                     f[i] = IF list[i] \in set THEN Append(f[i - 1], list[i]) ELSE f[i - 1]
                /\ Kept(list, set) = f[Len(list)]
  <1> DEFINE n == Len(list)
             Body(f) == [i \in 0 .. n |->
                           IF i = 0 THEN <<>>
                           ELSE IF list[i] \in set THEN Append(f[i - 1], list[i]) ELSE f[i - 1]]
             step == [i \in 1 .. n |->
                        [s \in Seq(S) |-> IF list[i] \in set THEN Append(s, list[i]) ELSE s]]
  <1>1. n \in Nat /\ \A i \in 1 .. n : list[i] \in S
    OBVIOUS
  <1>2. \A i \in 1 .. n : \A s \in Seq(S) :
          (IF list[i] \in set THEN Append(s, list[i]) ELSE s) \in Seq(S)
    BY <1>1
  <1>3. step \in [1 .. n -> [Seq(S) -> Seq(S)]]
    BY <1>2
  <1>4. <<>> \in Seq(S)
    OBVIOUS
  <1>5. PICK g \in [0 .. n -> Seq(S)] : g[0] = <<>> /\ \A i \in 1 .. n : g[i] = step[i][g[i - 1]]
    <2> DEFINE States == Seq(S)
               empty == <<>>
    <2>1. n \in Nat /\ empty \in States /\ step \in [1 .. n -> [States -> States]]
      BY <1>1, <1>3, <1>4
    <2> HIDE DEF n, step, States, empty
    <2>2. \E h \in [0 .. n -> States] : h[0] = empty /\ \A i \in 1 .. n : h[i] = step[i][h[i - 1]]
      BY <2>1, IteratesExist
    <2> QED
      BY <2>2 DEF States, empty
  <1>6. \A i \in 1 .. n : i - 1 \in 0 .. n /\ i \in 0 .. n /\ i # 0
    BY <1>1
  <1>7. \A i \in 1 .. n : g[i] = IF list[i] \in set THEN Append(g[i - 1], list[i]) ELSE g[i - 1]
    <2>1. \A i \in 1 .. n : g[i - 1] \in Seq(S)
      BY <1>5, <1>6
    <2> QED
      BY <1>5, <2>1
  <1>8. g = Body(g)
    <2>1. \A i \in 0 .. n : i = 0 \/ i \in 1 .. n
      BY <1>1
    <2>2. \A i \in 0 .. n :
            g[i] = IF i = 0 THEN <<>>
                   ELSE IF list[i] \in set THEN Append(g[i - 1], list[i]) ELSE g[i - 1]
      BY <1>5, <1>6, <1>7, <2>1
    <2> QED
      BY <1>5, <2>2
  <1> DEFINE f == CHOOSE h : h = Body(h)
  <1>9. f = Body(f)
    <2> HIDE DEF Body
    <2> QED
      BY <1>8
  <1>10. Kept(list, set) = f[n]
    BY DEF Kept
  <1> HIDE DEF f
  <1>11. /\ f[0] = <<>>
         /\ \A i \in 1 .. n :
              f[i] = IF list[i] \in set THEN Append(f[i - 1], list[i]) ELSE f[i - 1]
    <2>1. /\ Body(f)[0] = <<>>
          /\ \A i \in 1 .. n :
               Body(f)[i] = IF list[i] \in set THEN Append(f[i - 1], list[i]) ELSE f[i - 1]
      BY <1>1, <1>6
    <2> HIDE DEF Body
    <2>2. \A i : f[i] = Body(f)[i]
      BY <1>9
    <2> QED
      BY <2>1, <2>2
  <1> QED
    BY <1>10, <1>11

LEMMA DrawsNothing ==
  ASSUME NEW list, NEW set PROVE Draws(list, set, <<>>, 0)
  <1>1. <<>> \in Seq(set) /\ Len(<<>>) = 0
    OBVIOUS
  <1>2. [k \in 1 .. 0 |-> k] \in [1 .. 0 -> 1 .. 0] /\ 1 .. 0 = {}
    OBVIOUS
  <1>3. \E r \in [1 .. 0 -> 1 .. 0] : TRUE
    BY <1>2
  <1> QED
    BY <1>1, <1>2, <1>3 DEF Draws

LEMMA DrawsMore ==
  ASSUME NEW list, NEW set, NEW seq, NEW n \in Nat, Draws(list, set, seq, n)
  PROVE  Draws(list, set, IF list[n + 1] \in set THEN Append(seq, list[n + 1]) ELSE seq, n + 1)
  <1>1. PICK r \in [1 .. Len(seq) -> 1 .. n] :
          /\ \A k \in 1 .. Len(seq) : seq[k] = list[r[k]]
          /\ \A k, l \in 1 .. Len(seq) : r[k] = r[l] => k = l
    BY DEF Draws
  <1>2. seq \in Seq(set) /\ Len(seq) \in Nat
    BY DEF Draws
  <1>3. \A j \in 1 .. n : list[j] \in set => \E k \in 1 .. Len(seq) : seq[k] = list[j]
    BY DEF Draws
  <1>4. \A j \in 1 .. n + 1 : j \in 1 .. n \/ j = n + 1
    OBVIOUS
  <1>5. CASE list[n + 1] \notin set
    <2>1. r \in [1 .. Len(seq) -> 1 .. n + 1]
      BY <1>1
    <2>2. \A j \in 1 .. n + 1 : list[j] \in set => \E k \in 1 .. Len(seq) : seq[k] = list[j]
      BY <1>3, <1>4, <1>5
    <2>3. Draws(list, set, seq, n + 1)
      BY <1>1, <1>2, <2>1, <2>2 DEF Draws
    <2> QED
      BY <1>5, <2>3
  <1>6. CASE list[n + 1] \in set
    <2> DEFINE more == Append(seq, list[n + 1])
               m == Len(seq)
               rr == [k \in 1 .. m + 1 |-> IF k = m + 1 THEN n + 1 ELSE r[k]]
    <2>1. /\ more \in Seq(set) /\ Len(more) = m + 1
          /\ \A k \in 1 .. m : more[k] = seq[k]
          /\ more[m + 1] = list[n + 1]
      BY <1>2, <1>6
    <2>2. \A k \in 1 .. m + 1 : k \in 1 .. m \/ k = m + 1
      BY <1>2
    <2>3. \A k \in 1 .. m : r[k] \in 1 .. n /\ k # m + 1 /\ k \in 1 .. m + 1
      BY <1>1, <1>2
    <2>4. /\ \A k \in 1 .. m : rr[k] = r[k]
          /\ rr[m + 1] = n + 1
      BY <1>2, <2>3
    <2>5. rr \in [1 .. m + 1 -> 1 .. n + 1]
      BY <2>2, <2>3
    <2> HIDE DEF more, rr
    <2>6. \A k \in 1 .. m + 1 : more[k] = list[rr[k]]
      BY <1>1, <2>1, <2>2, <2>4
    <2>7. \A k, l \in 1 .. m + 1 : rr[k] = rr[l] => k = l
      <3>1. n + 1 \notin 1 .. n
        OBVIOUS
      <3> QED
        BY <1>1, <2>2, <2>3, <2>4, <3>1
    <2>8. \A j \in 1 .. n + 1 : list[j] \in set => \E k \in 1 .. m + 1 : more[k] = list[j]
      <3>1. \A k \in 1 .. m : k \in 1 .. m + 1
        BY <2>3
      <3>2. m + 1 \in 1 .. m + 1
        BY <1>2
      <3> QED
        BY <1>3, <1>4, <2>1, <3>1, <3>2
    <2>9. Draws(list, set, more, n + 1)
      <3>1. Len(more) = m + 1 /\ more \in Seq(set)
        BY <2>1
      <3> HIDE DEF m
      <3>2. rr \in [1 .. Len(more) -> 1 .. n + 1]
        BY <2>5, <3>1
      <3>3. /\ \A k \in 1 .. Len(more) : more[k] = list[rr[k]]
            /\ \A k, l \in 1 .. Len(more) : rr[k] = rr[l] => k = l
        BY <2>6, <2>7, <3>1
      <3>4. \A j \in 1 .. n + 1 : list[j] \in set => \E k \in 1 .. Len(more) : more[k] = list[j]
        BY <2>8, <3>1
      <3> QED
        BY <3>1, <3>2, <3>3, <3>4 DEF Draws
    <2> QED
      BY <1>6, <2>9 DEF more
  <1> QED
    BY <1>5, <1>6

LEMMA KeptDraws ==
  ASSUME NEW S, NEW list \in Seq(S), NEW set
  PROVE  Draws(list, set, Kept(list, set), Len(list))
  <1>1. PICK f : /\ f[0] = <<>>
                 /\ \A i \in 1 .. Len(list) :
                      f[i] = IF list[i] \in set THEN Append(f[i - 1], list[i]) ELSE f[i - 1]
                 /\ Kept(list, set) = f[Len(list)]
    BY KeptPrefixes
  <1> DEFINE T == {i \in Nat : i <= Len(list) => Draws(list, set, f[i], i)}
  <1>2. 0 \in T
    BY <1>1, DrawsNothing
  <1>3. ASSUME NEW i \in T PROVE i + 1 \in T
    <2> SUFFICES ASSUME i + 1 <= Len(list) PROVE Draws(list, set, f[i + 1], i + 1)
      OBVIOUS
    <2>1. i \in Nat /\ i <= Len(list) /\ i + 1 \in 1 .. Len(list) /\ (i + 1) - 1 = i
      OBVIOUS
    <2>2. Draws(list, set, f[i], i)
      BY <2>1
    <2>3. f[i + 1] = IF list[i + 1] \in set THEN Append(f[i], list[i + 1]) ELSE f[i]
      BY <1>1, <2>1
    <2>4. Draws(list, set, IF list[i + 1] \in set THEN Append(f[i], list[i + 1]) ELSE f[i], i + 1)
      BY <2>1, <2>2, DrawsMore
    <2> QED
      BY <2>3, <2>4
  <1>4. T \in SUBSET Nat
    OBVIOUS
  <1>5. T = Nat
    <2> HIDE DEF T
    <2> QED
      BY <1>2, <1>3, <1>4, NatSet
  <1>6. Len(list) \in T
    BY <1>5
  <1> QED
    BY <1>1, <1>6

=============================================================================

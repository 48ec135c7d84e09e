--------------------------- MODULE AddonUpdateProofs ---------------------------
(***************************************************************************)
(* Theorems about AddonUpdate: the order sortByDependency answers with, and  *)
(* what every worker, the loop and the exit code may rely on.                *)
(***************************************************************************)
EXTENDS AddonInvariant, DataInduction, Integers, SequenceTheorems

--------------------------------------------------------------------------------
(* Lists: what Kept keeps. *)

\* What a list holds.
LEMMA Held ==
  ASSUME NEW S, NEW seq \in Seq(S)
  PROVE  /\ \A i \in 1 .. Len(seq) : seq[i] \in ToSet(seq)
         /\ \A x \in ToSet(seq) : \E i \in 1 .. Len(seq) : seq[i] = x
         /\ ToSet(seq) \subseteq S
  BY DEF ToSet

\* What Kept keeps is what the list holds of the set ...
LEMMA KeptMembers ==
  ASSUME NEW S, NEW list \in Seq(S), NEW set
  PROVE  /\ Kept(list, set) \in Seq(ToSet(list) \cap set)
         /\ ToSet(Kept(list, set)) = ToSet(list) \cap set
  <1> DEFINE kept == Kept(list, set)
  <1>1. Draws(list, set, kept, Len(list))
    BY KeptDraws
  <1> HIDE DEF kept
  <1>2. PICK r \in [1 .. Len(kept) -> 1 .. Len(list)] :
          \A k \in 1 .. Len(kept) : kept[k] = list[r[k]]
    BY <1>1 DEF Draws
  <1>3. kept \in Seq(set) /\ Len(kept) \in Nat
    BY <1>1 DEF Draws
  <1>4. \A k \in 1 .. Len(kept) : kept[k] \in set /\ kept[k] \in ToSet(list)
    BY <1>2, <1>3 DEF ToSet
  <1>5. kept \in Seq(ToSet(list) \cap set)
    <2>1. kept = [k \in 1 .. Len(kept) |-> kept[k]]
      BY <1>3
    <2>2. kept \in [1 .. Len(kept) -> ToSet(list) \cap set]
      BY <1>4, <2>1
    <2> QED
      BY <1>3, <2>2
  <1>6. \A j \in 1 .. Len(list) : list[j] \in set => \E k \in 1 .. Len(kept) : kept[k] = list[j]
    BY <1>1 DEF Draws
  <1>7. ToSet(kept) = ToSet(list) \cap set
    <2>1. ASSUME NEW x \in ToSet(kept) PROVE x \in ToSet(list) \cap set
      BY <1>3, <1>4, <2>1, Held
    <2>2. ASSUME NEW x \in ToSet(list) \cap set PROVE x \in ToSet(kept)
      <3>1. PICK j \in 1 .. Len(list) : list[j] = x
        BY Held
      <3>2. PICK k \in 1 .. Len(kept) : kept[k] = x
        BY <1>6, <3>1
      <3> QED
        BY <1>3, <3>2, Held
    <2> QED
      BY <2>1, <2>2
  <1> QED
    BY <1>5, <1>7 DEF kept

--------------------------------------------------------------------------------
(* sortByDependency: every turn of the loop keeps its books. *)

\* seq holds what the list holds, no position twice.
Injects(list, seq) ==
  \E p \in [1 .. Len(seq) -> 1 .. Len(list)] :
    /\ \A k \in 1 .. Len(seq) : seq[k] = list[p[k]]
    /\ \A k, l \in 1 .. Len(seq) : p[k] = p[l] => k = l

\* Names taken from the queue follow what they depend on, those in it may be taken, and
\* none that may be taken is missing.
Books(list, s) ==
  /\ s \in SortStates
  /\ Injects(list, s.ordered \o s.queue)
  /\ \A i \in 1 .. Len(s.ordered) : \A b \in Present(list, s.ordered[i]) :
       \E j \in 1 .. i - 1 : s.ordered[j] = b
  /\ \A i \in 1 .. Len(s.queue) : Present(list, s.queue[i]) \subseteq ToSet(s.ordered)
  /\ \A a \in ToSet(list) : Present(list, a) \subseteq ToSet(s.ordered) =>
       a \in ToSet(s.ordered) \cup ToSet(s.queue)

LEMMA Concat ==
  ASSUME NEW S, NEW s \in Seq(S), NEW t \in Seq(S)
  PROVE  /\ s \o t \in Seq(S) /\ Len(s \o t) = Len(s) + Len(t)
         /\ \A i \in 1 .. Len(s) : (s \o t)[i] = s[i]
         /\ \A i \in 1 .. Len(t) : (s \o t)[Len(s) + i] = t[i]
         /\ ToSet(s \o t) = ToSet(s) \cup ToSet(t)
  <1>1. /\ s \o t \in Seq(S) /\ Len(s \o t) = Len(s) + Len(t)
        /\ \A i \in 1 .. Len(s) + Len(t) :
             (s \o t)[i] = IF i <= Len(s) THEN s[i] ELSE t[i - Len(s)]
    BY ConcatProperties
  <1>2. Len(s) \in Nat /\ Len(t) \in Nat
    OBVIOUS
  <1>3. \A i \in 1 .. Len(s) : i \in 1 .. Len(s) + Len(t) /\ i <= Len(s)
    BY <1>2
  <1>4. \A i \in 1 .. Len(t) : /\ Len(s) + i \in 1 .. Len(s) + Len(t) /\ ~(Len(s) + i <= Len(s))
                               /\ (Len(s) + i) - Len(s) = i
    BY <1>2
  <1>5. /\ \A i \in 1 .. Len(s) : (s \o t)[i] = s[i]
        /\ \A i \in 1 .. Len(t) : (s \o t)[Len(s) + i] = t[i]
    BY <1>1, <1>3, <1>4
  <1>6. \A i \in 1 .. Len(s) + Len(t) : i \in 1 .. Len(s) \/ \E j \in 1 .. Len(t) : i = Len(s) + j
    <2> TAKE i \in 1 .. Len(s) + Len(t)
    <2>1. CASE i <= Len(s)
      BY <1>2, <2>1
    <2>2. CASE ~(i <= Len(s))
      <3>1. i - Len(s) \in 1 .. Len(t) /\ i = Len(s) + (i - Len(s))
        BY <1>2, <2>2
      <3> QED
        BY <3>1
    <2> QED
      BY <2>1, <2>2
  <1>7. ASSUME NEW x \in ToSet(s \o t) PROVE x \in ToSet(s) \cup ToSet(t)
    <2>1. PICK i \in 1 .. Len(s) + Len(t) : (s \o t)[i] = x
      BY <1>1, Held
    <2> QED
      BY <1>5, <1>6, <2>1, Held
  <1>8. ASSUME NEW x \in ToSet(s) \cup ToSet(t) PROVE x \in ToSet(s \o t)
    <2>1. \A i \in 1 .. Len(s) + Len(t) : (s \o t)[i] \in ToSet(s \o t)
      BY <1>1, Held
    <2>2. CASE x \in ToSet(s)
      <3>1. PICK i \in 1 .. Len(s) : s[i] = x
        BY <2>2, Held
      <3> QED
        BY <1>3, <1>5, <2>1, <3>1
    <2>3. CASE x \in ToSet(t)
      <3>1. PICK i \in 1 .. Len(t) : t[i] = x
        BY <2>3, Held
      <3> QED
        BY <1>4, <1>5, <2>1, <3>1
    <2> QED
      BY <2>2, <2>3
  <1> QED
    BY <1>1, <1>5, <1>7, <1>8

LEMMA Appended ==
  ASSUME NEW S, NEW s \in Seq(S), NEW x \in S
  PROVE  ToSet(Append(s, x)) = ToSet(s) \cup {x}
  <1>1. Append(s, x) = s \o <<x>> /\ <<x>> \in Seq(S)
    OBVIOUS
  <1>2. ToSet(<<x>>) = {x}
    BY DEF ToSet
  <1>3. ToSet(s \o <<x>>) = ToSet(s) \cup ToSet(<<x>>)
    BY <1>1, Concat
  <1> QED
    BY <1>1, <1>2, <1>3, Zenon

LEMMA InjectsMore ==
  ASSUME NEW list \in Seq(Names), NEW seq \in Seq(Names), NEW more \in Seq(Names),
         Injects(list, seq), Injects(list, more), ToSet(seq) \cap ToSet(more) = {}
  PROVE  Injects(list, seq \o more)
  <1>1. PICK p \in [1 .. Len(seq) -> 1 .. Len(list)] :
          /\ \A k \in 1 .. Len(seq) : seq[k] = list[p[k]]
          /\ \A k, l \in 1 .. Len(seq) : p[k] = p[l] => k = l
    BY DEF Injects
  <1>2. PICK r \in [1 .. Len(more) -> 1 .. Len(list)] :
          /\ \A k \in 1 .. Len(more) : more[k] = list[r[k]]
          /\ \A k, l \in 1 .. Len(more) : r[k] = r[l] => k = l
    BY DEF Injects
  <1> DEFINE m == Len(seq)
             n == Len(more)
             q == [k \in 1 .. m + n |-> IF k <= m THEN p[k] ELSE r[k - m]]
             both == seq \o more
  <1>3. m \in Nat /\ n \in Nat
    OBVIOUS
  <1>4. /\ Len(both) = m + n
        /\ \A k \in 1 .. m : both[k] = seq[k]
        /\ \A k \in 1 .. n : both[m + k] = more[k]
    BY Concat
  <1> HIDE DEF m, n
  <1>5. \A k \in 1 .. m + n : k \in 1 .. m \/ \E j \in 1 .. n : k = m + j
    <2> TAKE k \in 1 .. m + n
    <2>1. CASE k <= m
      BY <1>3, <2>1
    <2>2. CASE ~(k <= m)
      <3>1. k - m \in 1 .. n /\ k = m + (k - m)
        BY <1>3, <2>2
      <3> QED
        BY <3>1
    <2> QED
      BY <2>1, <2>2
  <1>6. /\ \A k \in 1 .. m : k \in 1 .. m + n /\ k <= m
        /\ \A j \in 1 .. n : m + j \in 1 .. m + n /\ ~(m + j <= m) /\ (m + j) - m = j
    BY <1>3
  <1>7. /\ \A k \in 1 .. m : q[k] = p[k] /\ p[k] \in 1 .. Len(list)
        /\ \A j \in 1 .. n : q[m + j] = r[j] /\ r[j] \in 1 .. Len(list)
    BY <1>1, <1>2, <1>6 DEF m, n
  <1>8. q \in [1 .. m + n -> 1 .. Len(list)]
    <2>1. \A k \in 1 .. m + n : q[k] \in 1 .. Len(list)
      BY <1>5, <1>7
    <2> QED
      BY <2>1
  <1> HIDE DEF q, both
  <1>9. \A k \in 1 .. m + n : both[k] = list[q[k]]
    <2>1. \A k \in 1 .. m : both[k] = list[q[k]]
      BY <1>1, <1>4, <1>7 DEF m
    <2>2. \A j \in 1 .. n : both[m + j] = list[q[m + j]]
      BY <1>2, <1>4, <1>7 DEF n
    <2> QED
      BY <1>5, <2>1, <2>2
  <1>10. \A k \in 1 .. m : \A j \in 1 .. n : p[k] # r[j]
    <2>1. \A k \in 1 .. m : seq[k] \in ToSet(seq)
      BY Held DEF m
    <2>2. \A j \in 1 .. n : more[j] \in ToSet(more)
      BY Held DEF n
    <2>3. \A k \in 1 .. m : list[p[k]] \in ToSet(seq)
      BY <1>1, <2>1 DEF m
    <2>4. \A j \in 1 .. n : list[r[j]] \in ToSet(more)
      BY <1>2, <2>2 DEF n
    <2> QED
      BY <2>3, <2>4
  <1>11. ASSUME NEW k \in 1 .. m + n, NEW l \in 1 .. m + n, q[k] = q[l] PROVE k = l
    <2>1. CASE k \in 1 .. m /\ l \in 1 .. m
      BY <1>1, <1>7, <1>11, <2>1 DEF m
    <2>2. CASE k \in 1 .. m /\ \E j \in 1 .. n : l = m + j
      BY <1>7, <1>10, <1>11, <2>2
    <2>3. CASE l \in 1 .. m /\ \E j \in 1 .. n : k = m + j
      BY <1>7, <1>10, <1>11, <2>3
    <2>4. ASSUME NEW i \in 1 .. n, NEW j \in 1 .. n, k = m + i, l = m + j PROVE k = l
      BY <1>2, <1>7, <1>11, <2>4 DEF n
    <2> QED
      BY <1>5, <2>1, <2>2, <2>3, <2>4
  <1>12. Len(both) = m + n
    BY <1>4
  <1>13. /\ q \in [1 .. Len(both) -> 1 .. Len(list)]
         /\ \A k \in 1 .. Len(both) : both[k] = list[q[k]]
         /\ \A k, l \in 1 .. Len(both) : q[k] = q[l] => k = l
    BY <1>8, <1>9, <1>11, <1>12
  <1>14. Injects(list, both)
    BY <1>13 DEF Injects
  <1> QED
    BY <1>14 DEF both

\* Only an add-on depends, and only on others of the list.
LEMMA PresentKnown ==
  ASSUME NEW list, NEW a \in Names
  PROVE  /\ Present(list, a) \subseteq Addons \cap ToSet(list)
         /\ a = Absent => Present(list, a) = {}
  BY AddonAssumption DEF Present, Names

LEMMA NameOnce ==
  ASSUME NEW list, Listed(list), NEW seq, Injects(list, seq),
         NEW i \in 1 .. Len(seq), NEW j \in 1 .. Len(seq), seq[i] = seq[j], seq[i] # Absent
  PROVE  i = j
  BY DEF Listed, Injects

\* Taking a name moves it from the queue to the order.
LEMMA TakeName ==
  ASSUME NEW o \in Seq(Names), NEW q \in Seq(Names), q # <<>>
  PROVE  Append(o, Head(q)) \o Tail(q) = o \o q
  <1> DEFINE left == Append(o, Head(q)) \o Tail(q)
             right == o \o q
  <1>1. /\ Head(q) = q[1] /\ Head(q) \in Names /\ Tail(q) \in Seq(Names)
        /\ Len(q) \in Nat \ {0} /\ Len(Tail(q)) = Len(q) - 1
        /\ \A i \in 1 .. Len(Tail(q)) : Tail(q)[i] = q[i + 1]
    OBVIOUS
  <1>2. /\ Append(o, Head(q)) \in Seq(Names) /\ Len(Append(o, Head(q))) = Len(o) + 1
        /\ \A i \in 1 .. Len(o) : Append(o, Head(q))[i] = o[i]
        /\ Append(o, Head(q))[Len(o) + 1] = q[1]
    BY <1>1
  <1>3. /\ left \in Seq(Names) /\ Len(left) = Len(o) + 1 + Len(Tail(q))
        /\ \A i \in 1 .. Len(o) + 1 : left[i] = Append(o, Head(q))[i]
        /\ \A i \in 1 .. Len(Tail(q)) : left[(Len(o) + 1) + i] = Tail(q)[i]
    BY <1>1, <1>2, Concat
  <1>4. /\ right \in Seq(Names) /\ Len(right) = Len(o) + Len(q)
        /\ \A i \in 1 .. Len(o) : right[i] = o[i]
        /\ \A i \in 1 .. Len(q) : right[Len(o) + i] = q[i]
    BY Concat
  <1>5. Len(o) \in Nat
    OBVIOUS
  <1> HIDE DEF left, right
  <1>6. ASSUME NEW i \in 1 .. Len(o) + Len(q) PROVE left[i] = right[i]
    <2>1. CASE i <= Len(o)
      <3>1. i \in 1 .. Len(o) /\ i \in 1 .. Len(o) + 1
        BY <1>5, <2>1
      <3> QED
        BY <1>2, <1>3, <1>4, <3>1
    <2>2. CASE i = Len(o) + 1
      <3>1. left[i] = q[1]
        BY <1>2, <1>3, <1>5, <2>2
      <3>2. 1 \in 1 .. Len(q)
        BY <1>1
      <3> QED
        BY <1>4, <2>2, <3>1, <3>2
    <2>3. CASE i > Len(o) + 1
      <3> DEFINE j == i - (Len(o) + 1)
      <3>1. /\ j \in 1 .. Len(Tail(q)) /\ i = (Len(o) + 1) + j
            /\ j + 1 \in 1 .. Len(q) /\ i = Len(o) + (j + 1)
        BY <1>1, <1>5, <2>3
      <3> HIDE DEF j
      <3>2. left[i] = q[j + 1]
        BY <1>1, <1>3, <3>1
      <3> QED
        BY <1>4, <3>1, <3>2
    <2>4. i \in Int /\ Len(o) \in Int
      BY <1>5
    <2>5. i <= Len(o) \/ i = Len(o) + 1 \/ i > Len(o) + 1
      BY <2>4
    <2> QED
      BY <2>1, <2>2, <2>3, <2>5, Zenon
  <1>7. Len(left) = Len(right) /\ Len(left) = Len(o) + Len(q)
    BY <1>1, <1>3, <1>4, <1>5
  <1>8. left = right
    BY <1>3, <1>4, <1>6, <1>7, SeqEqual
  <1> QED
    BY <1>8 DEF left, right

LEMMA KahnBooks ==
  ASSUME NEW list, Listed(list), NEW s, Books(list, s), s.queue # <<>>
  PROVE  /\ Books(list, Kahn(list)[s])
         /\ Len(Kahn(list)[s].ordered) = Len(s.ordered) + 1
  <1> DEFINE o == s.ordered
             q == s.queue
             name == Head(q)
             ordered == Append(o, name)
             freed == Released(list, name, ordered)
             rest == Tail(q)
             queue == rest \o freed
             t == Kahn(list)[s]
             due == {a \in ToSet(list) : name \in Present(list, a)
                                          /\ Present(list, a) \subseteq ToSet(ordered)}
  <1>1. /\ list \in Seq(Names) /\ o \in Seq(Names) /\ q \in Seq(Names) /\ q # <<>>
        /\ s \in SortStates
    BY DEF Listed, Books, SortStates
  <1>2. t = [ordered |-> ordered, queue |-> queue]
    BY <1>1 DEF Kahn
  <1>3. /\ name \in Names /\ name = q[1] /\ 1 \in 1 .. Len(q)
        /\ rest \in Seq(Names) /\ Len(rest) = Len(q) - 1 /\ Len(q) \in Nat
        /\ \A i \in 1 .. Len(rest) : i + 1 \in 1 .. Len(q) /\ rest[i] = q[i + 1]
    BY <1>1
  <1>4. ordered \in Seq(Names) /\ Len(ordered) = Len(o) + 1 /\ Len(o) \in Nat
        /\ (\A i \in 1 .. Len(o) : ordered[i] = o[i]) /\ ordered[Len(o) + 1] = name
    BY <1>1, <1>3
  <1>5. ToSet(ordered) = ToSet(o) \cup {name}
    BY <1>1, <1>3, Appended
  <1>6. freed = Kept(list, due)
    BY DEF Released
  <1> HIDE DEF due
  <1>7. /\ freed \in Seq(ToSet(list) \cap due) /\ ToSet(freed) = ToSet(list) \cap due
        /\ Injects(list, freed)
    <2>1. Draws(list, due, freed, Len(list))
      BY <1>1, <1>6, KeptDraws
    <2>2. Injects(list, freed)
      BY <2>1 DEF Draws, Injects
    <2> QED
      BY <1>1, <1>6, <2>2, KeptMembers
  <1>8. freed \in Seq(Names)
    <2>1. ToSet(list) \cap due \subseteq Names
      BY <1>1, Held
    <2> QED
      BY <1>7, <2>1, SeqMonotonic
  <1>8a. /\ Injects(list, o \o q)
         /\ \A i \in 1 .. Len(o) : \A b \in Present(list, o[i]) : \E j \in 1 .. i - 1 : o[j] = b
         /\ \A i \in 1 .. Len(q) : Present(list, q[i]) \subseteq ToSet(o)
         /\ \A a \in ToSet(list) : Present(list, a) \subseteq ToSet(o) =>
              a \in ToSet(o) \cup ToSet(q)
    BY DEF Books
  <1>8b. /\ queue = rest \o freed
         /\ ordered \o rest = o \o q
    BY <1>1, TakeName
  <1> HIDE DEF freed, name, ordered, rest, queue, o, q
  <1>9. /\ o \o q \in Seq(Names) /\ Len(o \o q) = Len(o) + Len(q)
        /\ \A i \in 1 .. Len(o) : (o \o q)[i] = o[i]
        /\ \A i \in 1 .. Len(q) : (o \o q)[Len(o) + i] = q[i]
        /\ ToSet(o \o q) = ToSet(o) \cup ToSet(q)
    BY <1>1, Concat
  <1>10. ordered \o queue = (o \o q) \o freed
    <2>1. (ordered \o rest) \o freed = ordered \o (rest \o freed)
      <3>1. ordered \in Seq(Names) /\ rest \in Seq(Names) /\ freed \in Seq(Names)
        BY <1>3, <1>4, <1>8
      <3>2. \A u, v, w \in Seq(Names) : (u \o v) \o w = u \o (v \o w)
        BY ConcatAssociative
      <3> QED
        BY <3>1, <3>2, Zenon
    <2> QED
      BY <1>8b, <2>1, Zenon
  \* What was due was not in the books: it waited for the name just taken.
  <1>11. \A a \in due : /\ a \in ToSet(list) /\ name \in Present(list, a)
                        /\ Present(list, a) \subseteq ToSet(ordered)
    BY DEF due
  <1>12. ASSUME NEW a \in due, a \in ToSet(o \o q) PROVE FALSE
    <2>1. PICK m \in 1 .. Len(o \o q) : (o \o q)[m] = a
      BY <1>9, <1>12, Held
    <2>2. a \in Names /\ Present(list, a) \subseteq Addons /\ name \in Addons /\ name # Absent
      <3>1. a \in Names
        BY <1>1, <1>11, Held
      <3> QED
        BY <1>11, <3>1, PresentKnown, AddonAssumption
    <2>3. Present(list, a) \subseteq ToSet(o)
      <3>1. CASE a \in ToSet(o)
        <4>1. PICK i \in 1 .. Len(o) : o[i] = a
          BY <1>1, <3>1, Held
        <4>2. ASSUME NEW b \in Present(list, a) PROVE b \in ToSet(o)
          <5>1. PICK j \in 1 .. i - 1 : o[j] = b
            BY <1>8a, <4>1
          <5>2. j \in 1 .. Len(o)
            BY <1>4
          <5> QED
            BY <1>1, <5>1, <5>2, Held
        <4> QED
          BY <4>2
      <3>2. CASE a \in ToSet(q)
        <4>1. PICK i \in 1 .. Len(q) : q[i] = a
          BY <1>1, <3>2, Held
        <4> QED
          BY <1>8a, <4>1
      <3> QED
        BY <1>9, <1>12, <3>1, <3>2
    <2>4. name \in ToSet(o)
      BY <1>11, <2>3
    <2>5. PICK i \in 1 .. Len(o) : o[i] = name
      BY <1>1, <2>4, Held
    <2>6. /\ i \in 1 .. Len(o \o q) /\ Len(o) + 1 \in 1 .. Len(o \o q) /\ i # Len(o) + 1
          /\ (o \o q)[i] = name /\ (o \o q)[Len(o) + 1] = name
      <3>1. Len(q) \in Nat /\ 1 <= Len(q)
        BY <1>1, <1>3
      <3>2. i \in 1 .. Len(o \o q) /\ Len(o) + 1 \in 1 .. Len(o \o q) /\ i # Len(o) + 1
        BY <1>4, <1>9, <3>1
      <3> QED
        BY <1>3, <1>9, <2>5, <3>2
    <2> QED
      BY <1>8a, <2>2, <2>6, NameOnce
  <1>13. Injects(list, ordered \o queue)
    <2>1. ToSet(o \o q) \cap ToSet(freed) = {}
      BY <1>7, <1>12
    <2> QED
      BY <1>1, <1>7, <1>8, <1>8a, <1>9, <1>10, <2>1, InjectsMore
  <1>14. queue \in Seq(Names) /\ ToSet(queue) = ToSet(rest) \cup ToSet(freed)
    <2>1. /\ rest \o freed \in Seq(Names)
          /\ ToSet(rest \o freed) = ToSet(rest) \cup ToSet(freed)
      BY <1>3, <1>8, Concat
    <2> QED
      BY <1>8b, <2>1, Zenon
  <1>15. ASSUME NEW i \in 1 .. Len(ordered), NEW b \in Present(list, ordered[i])
         PROVE  \E j \in 1 .. i - 1 : ordered[j] = b
    <2>1. CASE i \in 1 .. Len(o)
      <3>1. PICK j \in 1 .. i - 1 : o[j] = b
        BY <1>4, <1>8a, <1>15, <2>1
      <3>2. j \in 1 .. Len(o)
        BY <1>4, <2>1
      <3> QED
        BY <1>4, <3>1, <3>2
    <2>2. CASE i = Len(o) + 1
      <3>1. b \in Present(list, q[1])
        BY <1>3, <1>4, <1>15, <2>2
      <3>2. b \in ToSet(o)
        BY <1>3, <1>8a, <3>1
      <3>3. PICK j \in 1 .. Len(o) : o[j] = b
        BY <1>1, <3>2, Held
      <3>4. j \in 1 .. i - 1
        BY <1>4, <2>2
      <3> QED
        BY <1>4, <3>3, <3>4
    <2> QED
      BY <1>4, <1>15, <2>1, <2>2
  <1>16. ASSUME NEW a \in ToSet(queue) PROVE Present(list, a) \subseteq ToSet(ordered)
    <2>1. CASE a \in ToSet(rest)
      <3>1. PICK i \in 1 .. Len(rest) : rest[i] = a
        BY <1>3, <2>1, Held
      <3>2. Present(list, q[i + 1]) \subseteq ToSet(o)
        BY <1>3, <1>8a
      <3> QED
        BY <1>3, <1>5, <3>1, <3>2
    <2>2. CASE a \in ToSet(freed)
      BY <1>7, <1>11, <2>2
    <2> QED
      BY <1>14, <1>16, <2>1, <2>2
  <1>17. ASSUME NEW a \in ToSet(list), Present(list, a) \subseteq ToSet(ordered)
         PROVE  a \in ToSet(ordered) \cup ToSet(queue)
    <2>1. CASE Present(list, a) \subseteq ToSet(o)
      <3>1. a \in ToSet(o) \cup ToSet(q)
        BY <1>8a, <1>17, <2>1
      <3>2. CASE a \in ToSet(q)
        <4>1. PICK i \in 1 .. Len(q) : q[i] = a
          BY <1>1, <3>2, Held
        <4>2. CASE i = 1
          BY <1>3, <1>5, <4>1, <4>2
        <4>3. CASE i # 1
          <5>1. i - 1 \in 1 .. Len(rest) /\ (i - 1) + 1 = i
            BY <1>3, <4>3
          <5>1a. rest[i - 1] = a
            BY <1>3, <4>1, <5>1
          <5>2. a \in ToSet(rest)
            BY <1>3, <5>1, <5>1a, Held
          <5> QED
            BY <1>14, <5>2
        <4> QED
          BY <4>2, <4>3
      <3> QED
        BY <1>5, <3>1, <3>2
    <2>2. CASE ~(Present(list, a) \subseteq ToSet(o))
      <3>1. name \in Present(list, a)
        BY <1>5, <1>17, <2>2
      <3>2. a \in due
        BY <1>17, <3>1 DEF due
      <3> QED
        BY <1>7, <1>14, <1>17, <3>2
    <2> QED
      BY <2>1, <2>2
  <1>18. t \in SortStates /\ t.ordered = ordered /\ t.queue = queue
    BY <1>2, <1>4, <1>14 DEF SortStates
  <1>19. \A i \in 1 .. Len(queue) : Present(list, queue[i]) \subseteq ToSet(ordered)
    BY <1>14, <1>16, Held
  <1> HIDE DEF t
  <1>20. Books(list, t)
    BY <1>13, <1>15, <1>17, <1>18, <1>19 DEF Books
  <1> QED
    BY <1>4, <1>18, <1>20 DEF t, o

Seed(list) == [ordered |-> <<>>, queue |-> Kept(list, {a \in ToSet(list) : Present(list, a) = {}})]

LEMMA KeptNames ==
  ASSUME NEW list \in Seq(Names), NEW set PROVE Kept(list, set) \in Seq(Names)
  <1>1. Kept(list, set) \in Seq(ToSet(list) \cap set)
    BY KeptMembers
  <1>2. ToSet(list) \cap set \subseteq Names
    BY Held
  <1> QED
    BY <1>1, <1>2, SeqMonotonic

LEMMA SeedBooks ==
  ASSUME NEW list, Listed(list) PROVE Books(list, Seed(list))
  <1> DEFINE ready == {a \in ToSet(list) : Present(list, a) = {}}
             queue == Kept(list, ready)
             s == Seed(list)
  <1>1. list \in Seq(Names)
    BY DEF Listed
  <1>2. s = [ordered |-> <<>>, queue |-> queue]
    BY DEF Seed
  <1>3. queue \in Seq(Names) /\ ToSet(queue) = ToSet(list) \cap ready
    BY <1>1, KeptNames, KeptMembers
  <1>4. Injects(list, queue)
    <2>1. Draws(list, ready, queue, Len(list))
      BY <1>1, KeptDraws
    <2> HIDE DEF ready, queue
    <2> QED
      BY <2>1 DEF Draws, Injects
  <1>5. \A a \in ToSet(queue) : Present(list, a) = {}
    BY <1>3
  <1>6. \A a \in ToSet(list) : Present(list, a) \subseteq {} => a \in ToSet(queue)
    BY <1>3
  <1> HIDE DEF s, queue, ready
  <1>7. <<>> \in Seq(Names) /\ ToSet(<<>>) = {} /\ Len(<<>>) = 0 /\ <<>> \o queue = queue
    BY <1>3, ConcatEmptySeq DEF ToSet
  <1>8. s \in SortStates /\ s.ordered = <<>> /\ s.queue = queue
    BY <1>2, <1>3, <1>7 DEF SortStates
  <1>9. Injects(list, s.ordered \o s.queue)
    BY <1>4, <1>7, <1>8
  <1>10. \A i \in 1 .. Len(queue) : Present(list, queue[i]) \subseteq ToSet(<<>>)
    BY <1>3, <1>5, Held
  <1>11. Books(list, s)
    BY <1>6, <1>7, <1>8, <1>9, <1>10 DEF Books
  <1> QED
    BY <1>11 DEF s

LEMMA KahnTyped ==
  ASSUME NEW list \in Seq(Names) PROVE Kahn(list) \in [SortStates -> SortStates]
  <1>1. ASSUME NEW s \in SortStates, s.queue # <<>>
        PROVE  [ordered |-> Append(s.ordered, Head(s.queue)),
                queue |-> Tail(s.queue) \o Released(list, Head(s.queue),
                                                    Append(s.ordered, Head(s.queue)))]
               \in SortStates
    <2> DEFINE o == s.ordered
               q == s.queue
               freed == Released(list, Head(q), Append(o, Head(q)))
    <2>1. o \in Seq(Names) /\ q \in Seq(Names) /\ q # <<>>
      BY <1>1 DEF SortStates
    <2>2. freed \in Seq(Names)
      BY KeptNames DEF Released
    <2>3. Head(q) \in Names /\ Tail(q) \in Seq(Names)
      BY <2>1
    <2> HIDE DEF o, q, freed
    <2>4. Append(o, Head(q)) \in Seq(Names) /\ Tail(q) \o freed \in Seq(Names)
      BY <2>1, <2>2, <2>3
    <2>5. [ordered |-> Append(o, Head(q)), queue |-> Tail(q) \o freed] \in SortStates
      BY <2>4 DEF SortStates
    <2> QED
      BY <2>5 DEF o, q, freed
  <1> QED
    BY <1>1 DEF Kahn

\* The recursion of Turns has a solution, and Turns is one.
LEMMA TurnsStep ==
  ASSUME NEW list \in Seq(Names)
  PROVE  /\ Turns(list)[0] = Seed(list)
         /\ \A k \in 1 .. Len(list) : Turns(list)[k] = Kahn(list)[Turns(list)[k - 1]]
  <1> DEFINE n == Len(list)
             seed == Seed(list)
             turn == Kahn(list)
             Body(f) == [k \in 0 .. n |-> IF k = 0 THEN seed ELSE turn[f[k - 1]]]
             steps == [k \in 1 .. n |-> turn]
  <1>1. n \in Nat
    OBVIOUS
  <1>2. seed \in SortStates
    BY KeptNames DEF Seed, SortStates
  <1>3. turn \in [SortStates -> SortStates]
    BY KahnTyped
  <1>4. Turns(list) = CHOOSE f : f = Body(f)
    BY DEF Turns, Seed
  <1> HIDE DEF n, seed, turn
  <1>5. PICK g \in [0 .. n -> SortStates] :
          g[0] = seed /\ \A k \in 1 .. n : g[k] = steps[k][g[k - 1]]
    <2>1. steps \in [1 .. n -> [SortStates -> SortStates]]
      BY <1>3
    <2> DEFINE States == SortStates
    <2>2. n \in Nat /\ seed \in States /\ steps \in [1 .. n -> [States -> States]]
      BY <1>1, <1>2, <2>1
    <2> HIDE DEF steps, States
    <2>3. \E h \in [0 .. n -> States] : h[0] = seed /\ \A i \in 1 .. n : h[i] = steps[i][h[i - 1]]
      BY <2>2, IteratesExist
    <2> QED
      BY <2>3 DEF States
  <1>6. \A k \in 0 .. n : k = 0 \/ k \in 1 .. n
    BY <1>1
  <1>7. g = Body(g)
    <2>1. \A k \in 0 .. n : g[k] = IF k = 0 THEN seed ELSE turn[g[k - 1]]
      BY <1>5, <1>6
    <2> QED
      BY <1>5, <2>1
  <1>8. Turns(list) = Body(Turns(list))
    <2> HIDE DEF Body
    <2> QED
      BY <1>4, <1>7
  <1>9. /\ Body(Turns(list))[0] = seed
        /\ \A k \in 1 .. n : Body(Turns(list))[k] = turn[Turns(list)[k - 1]]
    BY <1>1
  <1> HIDE DEF Body
  <1>10. \A k : Turns(list)[k] = Body(Turns(list))[k]
    BY <1>8
  <1> QED
    BY <1>9, <1>10 DEF n, seed, turn

LEMMA TurnsBooks ==
  ASSUME NEW list, Listed(list), NEW k \in 0 .. Len(list)
  PROVE  /\ Books(list, Turns(list)[k])
         /\ Len(Turns(list)[k].ordered) = k \/ Turns(list)[k].queue = <<>>
  <1> DEFINE Fine(s, m) == Books(list, s) /\ (Len(s.ordered) = m \/ s.queue = <<>>)
             T == {m \in Nat : m <= Len(list) => Fine(Turns(list)[m], m)}
  <1>1. list \in Seq(Names) /\ Len(list) \in Nat
    BY DEF Listed
  <1>2. 0 \in T
    <2>1. Books(list, Seed(list)) /\ Len(Seed(list).ordered) = 0
      BY SeedBooks DEF Seed
    <2>2. Turns(list)[0] = Seed(list)
      BY <1>1, TurnsStep
    <2> QED
      BY <2>1, <2>2
  <1>3. ASSUME NEW m \in T PROVE m + 1 \in T
    <2> SUFFICES ASSUME m + 1 <= Len(list) PROVE Fine(Turns(list)[m + 1], m + 1)
      OBVIOUS
    <2> DEFINE s == Turns(list)[m]
    <2>1. m \in Nat /\ m <= Len(list) /\ m + 1 \in 1 .. Len(list) /\ (m + 1) - 1 = m
      BY <1>1
    <2>2. Fine(s, m)
      BY <2>1
    <2>3. Turns(list)[m + 1] = Kahn(list)[s]
      BY <1>1, <2>1, TurnsStep
    <2> HIDE DEF s
    <2>4. CASE s.queue = <<>>
      <3>1. Kahn(list)[s] = s
        BY <2>2, <2>4 DEF Kahn, Books
      <3> QED
        BY <2>2, <2>3, <2>4, <3>1
    <2>5. CASE s.queue # <<>>
      BY <2>2, <2>3, <2>5, KahnBooks
    <2> QED
      BY <2>4, <2>5
  <1>4. T \in SUBSET Nat
    OBVIOUS
  <1>5. T = Nat
    <2> HIDE DEF T
    <2> QED
      BY <1>2, <1>3, <1>4, NatSet
  <1>6. k \in T /\ k <= Len(list)
    BY <1>1, <1>5
  <1> QED
    BY <1>6

\* A list can be injected into no shorter one.
LEMMA InjectsShort ==
  ASSUME NEW list, NEW seq, Len(list) \in Nat, Len(seq) \in Nat, Injects(list, seq)
  PROVE  Len(seq) <= Len(list)
  <1> DEFINE S == 1 .. Len(seq)
             T == 1 .. Len(list)
  <1>1. PICK p \in [S -> T] : \A k, l \in S : p[k] = p[l] => k = l
    BY DEF Injects
  <1>2. p \in Injection(S, T)
    BY <1>1 DEF Injection, IsInjective
  <1>3. /\ IsFiniteSet(S) /\ Cardinality(S) = Len(seq)
        /\ IsFiniteSet(T) /\ Cardinality(T) = Len(list)
    <2>1. \A n \in Nat : IsFiniteSet(1 .. n) /\ Cardinality(1 .. n) = n
      <3> TAKE n \in Nat
      <3>1. n \in Int /\ 1 \in Int
        OBVIOUS
      <3>2. IsFiniteSet(1 .. n) /\ Cardinality(1 .. n) = IF 1 > n THEN 0 ELSE n - 1 + 1
        BY <3>1, FS_Interval
      <3>3. 1 > n => n = 0
        OBVIOUS
      <3>4. n - 1 + 1 = n
        OBVIOUS
      <3> QED
        BY <3>2, <3>3, <3>4
    <2> QED
      BY <2>1
  <1> HIDE DEF S, T
  <1>4. Cardinality(S) <= Cardinality(T)
    BY <1>2, <1>3, FS_Injection
  <1> QED
    BY <1>3, <1>4

\* No cycle of dependencies: what none of a list's unordered add-ons may precede is empty.
LEMMA Acyclic ==
  ASSUME NEW rest \in SUBSET Addons,
         \A a \in rest : \E b \in rest : b \in DependsOn[a]
  PROVE  rest = {}
  <1>1. PICK rank \in [Addons -> 0 .. Cardinality(Addons)] :
          \A a \in Addons : \A b \in DependsOn[a] : rank[b] < rank[a]
    BY AddonAssumption
  <1> DEFINE T == {rank[a] : a \in rest}
  <1>2. \A a \in rest : rank[a] \in Nat
    <2>1. Cardinality(Addons) \in Nat
      BY AddonAssumption, FS_CardinalityType
    <2> QED
      BY <1>1, <2>1
  <1>3. T \in SUBSET Nat
    BY <1>2
  <1> SUFFICES ASSUME NEW a0 \in rest PROVE FALSE
    OBVIOUS
  <1>4. rank[a0] \in T
    OBVIOUS
  <1>5. PICK m \in T : \A k \in T : m <= k
    <2> HIDE DEF T
    <2> QED
      BY <1>3, <1>4, LeastNatural
  <1>6. PICK a \in rest : m = rank[a]
    BY <1>5
  <1>7. PICK b \in rest : b \in DependsOn[a]
    OBVIOUS
  <1>8. rank[b] < rank[a] /\ rank[b] \in Nat /\ rank[a] \in Nat /\ m <= rank[b]
    BY <1>1, <1>2, <1>5, <1>7
  <1> QED
    BY <1>6, <1>8

\* sortByDependency answers with the list's add-ons, each once, after all of the list that
\* it depends on, for any dependencies without a cycle and any order of the list.
THEOREM SortSorts ==
  ASSUME NEW list, Listed(list)
  PROVE  /\ SortByDependency(list) \in Seq(Names)
         /\ Len(SortByDependency(list)) <= Len(list)
         /\ ToSet(SortByDependency(list)) = ToSet(list)
         /\ \A i, j \in 1 .. Len(SortByDependency(list)) :
              i < j /\ SortByDependency(list)[i] # Absent =>
                SortByDependency(list)[j] \notin DependsOn[SortByDependency(list)[i]]
                                                  \cup {SortByDependency(list)[i]}
  <1> DEFINE n == Len(list)
             s == Turns(list)[n]
             o == s.ordered
             q == s.queue
  <1>1. list \in Seq(Names) /\ n \in Nat /\ n \in 0 .. n
    BY DEF Listed
  <1>2. Books(list, s) /\ (Len(o) = n \/ q = <<>>)
    BY <1>1, TurnsBooks
  <1>3. SortByDependency(list) = o \o Kept(list, ToSet(list) \ ToSet(o))
    BY DEF SortByDependency
  <1>4. o \in Seq(Names) /\ q \in Seq(Names)
    BY <1>2 DEF Books, SortStates
  <1>5. /\ Injects(list, o \o q)
        /\ \A i \in 1 .. Len(o) : \A b \in Present(list, o[i]) : \E j \in 1 .. i - 1 : o[j] = b
        /\ \A a \in ToSet(list) : Present(list, a) \subseteq ToSet(o) =>
             a \in ToSet(o) \cup ToSet(q)
    BY <1>2 DEF Books
  <1> HIDE DEF s, o, q, n
  <1>6. q = <<>>
    <2>1. Len(o \o q) = Len(o) + Len(q) /\ Len(o) \in Nat /\ Len(q) \in Nat
      BY <1>4, Concat
    <2>2. Len(o \o q) <= n
      <3> DEFINE both == o \o q
      <3>1. Injects(list, both) /\ Len(both) \in Nat /\ Len(list) \in Nat
        BY <1>1, <1>5, <2>1 DEF n
      <3>2. Len(both) <= Len(list)
        <4> HIDE DEF both
        <4> QED
          BY <3>1, InjectsShort
      <3> QED
        BY <3>2 DEF n
    <2>3. Len(o) = n => Len(q) = 0
      BY <1>1, <2>1, <2>2
    <2>4. Len(q) = 0 => q = <<>>
      BY <1>4
    <2> QED
      BY <1>2, <2>3, <2>4
  <1>7. Injects(list, o)
    BY <1>4, <1>5, <1>6, ConcatEmptySeq
  <1>8. ToSet(o) \subseteq ToSet(list)
    <2>1. \A i \in 1 .. Len(o) : o[i] \in ToSet(list)
      BY <1>1, <1>7, Held DEF Injects, n
    <2> QED
      BY <1>4, <2>1, Held
  <1>9. ToSet(list) \ ToSet(o) = {}
    <2> DEFINE rest == ToSet(list) \ ToSet(o)
    <2>1. ToSet(<<>>) = {}
      BY DEF ToSet
    <2>2. ASSUME NEW a \in rest PROVE a \in Addons /\ \E b \in rest : b \in DependsOn[a]
      <3>1. a \in Names
        BY <1>1, Held
      <3>2. PICK b \in Present(list, a) : b \notin ToSet(o)
        BY <1>5, <1>6, <2>1
      <3>3. a # Absent
        BY <3>2 DEF Present
      <3> QED
        BY <3>1, <3>2, <3>3 DEF Present, Names
    <2> HIDE DEF rest
    <2>3. rest = {}
      BY <2>2, Acyclic
    <2> QED
      BY <2>3 DEF rest
  <1>10. SortByDependency(list) = o
    <2>1. Kept(list, {}) \in Seq({})
      <3>1. Kept(list, {}) \in Seq(ToSet(list) \cap {})
        BY <1>1, KeptMembers
      <3>2. ToSet(list) \cap {} = {}
        OBVIOUS
      <3> QED
        BY <3>1, <3>2
    <2>2. \A e \in Seq({}) : e = <<>>
      OBVIOUS
    <2>3. Kept(list, {}) = <<>>
      BY <2>1, <2>2
    <2> QED
      BY <1>3, <1>4, <1>9, <2>3, ConcatEmptySeq
  <1>11. Len(o) <= Len(list)
    BY <1>1, <1>4, <1>7, InjectsShort DEF n
  <1>12. ASSUME NEW i \in 1 .. Len(o), NEW j \in 1 .. Len(o), i < j, o[i] # Absent
         PROVE  o[j] \notin DependsOn[o[i]] \cup {o[i]}
    <2>1. o[j] # o[i]
      BY <1>7, <1>12, NameOnce
    <2>2. ASSUME o[j] \in DependsOn[o[i]] PROVE FALSE
      <3>1. o[j] \in ToSet(list) /\ o[i] \in Names
        BY <1>4, <1>8, Held
      <3>2. o[j] \in Present(list, o[i])
        BY <1>12, <2>2, <3>1 DEF Present
      <3>3. PICK k \in 1 .. i - 1 : o[k] = o[j]
        BY <1>5, <3>2
      <3>4. k \in 1 .. Len(o) /\ k # j /\ o[j] # Absent
        <4>1. o[j] # Absent
          BY <3>1, <3>2, PresentKnown, AddonAssumption
        <4> QED
          BY <1>4, <1>12, <4>1
      <3> QED
        BY <1>7, <3>3, <3>4, NameOnce
    <2> QED
      BY <2>1, <2>2
  <1> QED
    BY <1>4, <1>8, <1>9, <1>10, <1>11, <1>12

--------------------------------------------------------------------------------
(* Numbers and lists of the state. *)

WorkerStates ==
  [at : Started \cup {"idle"}, scoped : BOOLEAN, target : Versions, attempt : 1 .. MaxAttempts]

\* There are as many positions as names, and room for every list that names each once.
LEMMA PositionsFinite ==
  /\ Cardinality(Names) \in Nat /\ 1 <= Cardinality(Names)
  /\ IsFiniteSet(Positions) /\ Positions \subseteq Nat /\ 1 \in Positions
  /\ Cardinality(Names) = Cardinality(Addons) + 1 /\ Cardinality(Addons) \in Nat
  <1>1. Cardinality(Addons) \in Nat
    BY AddonAssumption, FS_CardinalityType
  <1>2. IsFiniteSet(Names) /\ Cardinality(Names) = Cardinality(Addons) + 1
    BY AddonAssumption, FS_AddElement DEF Names
  <1>3. Cardinality(Names) \in Nat /\ 1 <= Cardinality(Names)
    BY <1>1, <1>2
  <1>4. IsFiniteSet(Positions)
    <2> DEFINE n == Cardinality(Names)
    <2>1. n \in Int /\ 1 \in Int
      BY <1>3
    <2> HIDE DEF n
    <2>2. IsFiniteSet(1 .. n)
      BY <2>1, FS_Interval
    <2> QED
      BY <2>2 DEF Positions, n
  <1> QED
    BY <1>1, <1>2, <1>3, <1>4 DEF Positions

\* A listing of the cluster's add-ons has a position for each.
LEMMA OrderFits ==
  ASSUME NEW list \in ListOrders
  PROVE  Listed(list) /\ Len(list) <= Cardinality(Names) /\ ToSet(list) = Addons
  <1>1. /\ list \in Seq(Addons) /\ ToSet(list) = Addons
        /\ \A i, j \in 1 .. Len(list) : list[i] = list[j] => i = j
    BY AddonAssumption
  <1>2. list \in Seq(Names) /\ Len(list) \in Nat
    BY <1>1 DEF Names
  <1>3. Len(list) <= Cardinality(Addons)
    <2> DEFINE S == 1 .. Len(list)
    <2>1. IsFiniteSet(S) /\ Cardinality(S) = Len(list)
      <3>1. \A n \in Nat : IsFiniteSet(1 .. n) /\ Cardinality(1 .. n) = n
        <4> TAKE n \in Nat
        <4>1. n \in Int /\ 1 \in Int
          OBVIOUS
        <4>2. IsFiniteSet(1 .. n) /\ Cardinality(1 .. n) = IF 1 > n THEN 0 ELSE n - 1 + 1
          BY <4>1, FS_Interval
        <4>3. 1 > n => n = 0
          OBVIOUS
        <4>4. n - 1 + 1 = n
          OBVIOUS
        <4> QED
          BY <4>2, <4>3, <4>4
      <3> QED
        BY <1>2, <3>1
    <2>2. [i \in S |-> list[i]] \in Injection(S, Addons)
      BY <1>1 DEF Injection, IsInjective
    <2> HIDE DEF S
    <2>3. Cardinality(S) <= Cardinality(Addons)
      BY <2>1, <2>2, AddonAssumption, FS_Injection
    <2> QED
      BY <2>1, <2>3
  <1> QED
    BY <1>1, <1>2, <1>3, PositionsFinite DEF Listed

\* The newest of a set of versions is one of them.
LEMMA NewestKnown ==
  ASSUME NEW set \in SUBSET Versions
  PROVE  /\ Newest(set) \in Versions
         /\ set # {} => Newest(set) \in set /\ \A w \in set : w <= Newest(set)
  <1>1. CASE set = {}
    BY <1>1, NumberAssumption DEF Newest
  <1>2. CASE set # {}
    <2>1. set \in SUBSET Nat /\ IsFiniteSet(set)
      BY NumberAssumption, FS_Subset
    <2>2. \E v \in set : \A w \in set : w <= v
      BY <1>2, <2>1, GreatestNatural
    <2> QED
      BY <1>2, <2>2 DEF Newest
  <1> QED
    BY <1>1, <1>2

\* What is left of a listing once the add-ons to skip are taken out.
LEMMA KeptListed ==
  ASSUME NEW list, Listed(list), NEW set
  PROVE  /\ Listed(Kept(list, set)) /\ Len(Kept(list, set)) <= Len(list)
         /\ ToSet(Kept(list, set)) = ToSet(list) \cap set
  <1> DEFINE seq == Kept(list, set)
  <1>1. list \in Seq(Names) /\ Len(list) \in Nat
    BY DEF Listed
  <1>2. seq \in Seq(Names) /\ ToSet(seq) = ToSet(list) \cap set
    BY <1>1, KeptNames, KeptMembers
  <1>3. Injects(list, seq)
    <2>1. Draws(list, set, seq, Len(list))
      BY <1>1, KeptDraws
    <2> QED
      BY <2>1 DEF Draws, Injects
  <1> HIDE DEF seq
  <1>4. Listed(seq)
    BY <1>2, <1>3, NameOnce DEF Listed
  <1>5. Len(seq) <= Len(list)
    BY <1>1, <1>2, <1>3, InjectsShort
  <1> QED
    BY <1>2, <1>4, <1>5 DEF seq

\* What sortByDependency returns names each add-on once, after those it depends on.
LEMMA SortedListed ==
  ASSUME NEW list, Listed(list)
  PROVE  /\ Listed(SortByDependency(list)) /\ Ordered(SortByDependency(list))
         /\ Len(SortByDependency(list)) <= Len(list)
         /\ ToSet(SortByDependency(list)) = ToSet(list)
  <1> DEFINE sorted == SortByDependency(list)
  <1>1. /\ sorted \in Seq(Names) /\ Len(sorted) <= Len(list) /\ ToSet(sorted) = ToSet(list)
        /\ \A i, j \in 1 .. Len(sorted) :
             i < j /\ sorted[i] # Absent =>
               sorted[j] \notin DependsOn[sorted[i]] \cup {sorted[i]}
    BY SortSorts
  <1> HIDE DEF sorted
  <1>2. Ordered(sorted)
    BY <1>1 DEF Ordered
  <1>3. ASSUME NEW i \in 1 .. Len(sorted), NEW j \in 1 .. Len(sorted),
               sorted[i] = sorted[j], sorted[i] # Absent
        PROVE  i = j
    <2>1. ~(i < j) /\ ~(j < i)
      BY <1>1, <1>3
    <2>2. i \in Int /\ j \in Int
      OBVIOUS
    <2> QED
      BY <2>1, <2>2
  <1>4. Listed(sorted)
    BY <1>1, <1>3 DEF Listed
  <1> QED
    BY <1>1, <1>2, <1>4 DEF sorted

\* The summaries of a listing: those that were filled in keep their names, and a listing
\* that lost none is complete.
Summaries(order, named) == [i \in 1 .. Len(order) |-> IF i <= named THEN order[i] ELSE Absent]
LEMMA SummariesListed ==
  ASSUME NEW order \in ListOrders, NEW named \in 0 .. Len(order), NEW skip \in SUBSET Addons
  PROVE  LET kept == Kept(Summaries(order, named), Names \ skip) IN
         /\ Listed(kept) /\ Len(kept) <= Cardinality(Names)
         /\ Absent \notin ToSet(kept) => ToSet(kept) = Addons \ skip
         /\ named = Len(order) => Absent \notin ToSet(kept)
  <1> DEFINE list == Summaries(order, named)
             set == Names \ skip
             kept == Kept(list, set)
  <1>1. /\ order \in Seq(Names) /\ Len(order) \in Nat /\ Len(order) <= Cardinality(Names)
        /\ ToSet(order) = Addons /\ Listed(order)
    BY OrderFits DEF Listed
  <1>2. \A i \in 1 .. Len(order) : order[i] \in Addons
    BY <1>1, Held
  <1>3. Absent \notin Addons /\ Absent \in Names /\ Absent \in set
    BY AddonAssumption DEF Names
  <1>4. list \in Seq(Names) /\ Len(list) = Len(order)
    <2>1. \A i \in 1 .. Len(order) : (IF i <= named THEN order[i] ELSE Absent) \in Names
      BY <1>2, <1>3 DEF Names
    <2>2. list \in [1 .. Len(order) -> Names]
      BY <2>1 DEF Summaries
    <2> QED
      BY <1>1, <2>2
  <1>5. \A i \in 1 .. Len(list) : list[i] = IF i <= named THEN order[i] ELSE Absent
    BY <1>4 DEF Summaries
  <1> HIDE DEF list, set
  <1>6. Listed(list)
    BY <1>1, <1>4, <1>5 DEF Listed
  <1>7. Listed(kept) /\ Len(kept) <= Len(list) /\ ToSet(kept) = ToSet(list) \cap set
    BY <1>6, KeptListed
  <1>10. Len(kept) <= Cardinality(Names)
    <2>1. Len(kept) \in Nat
      BY <1>7 DEF Listed
    <2> QED
      BY <1>1, <1>4, <1>7, <2>1, PositionsFinite
  <1>8. CASE named = Len(order)
    <2>1. \A i \in 1 .. Len(list) : list[i] = order[i]
      BY <1>1, <1>4, <1>5, <1>8
    <2>2. ToSet(list) = Addons
      <3>1. \A a \in ToSet(list) : a \in Addons
        BY <1>2, <1>4, <2>1, Held
      <3>2. \A a \in Addons : a \in ToSet(list)
        BY <1>1, <1>4, <2>1, Held
      <3> QED
        BY <3>1, <3>2
    <2>3. ToSet(kept) = Addons \ skip /\ Absent \notin ToSet(kept)
      BY <1>3, <1>7, <2>2 DEF set, Names
    <2> QED
      BY <1>7, <1>10, <2>3 DEF list, set
  <1>9. CASE named # Len(order)
    <2>1. named < Len(order) /\ Len(order) \in 1 .. Len(list)
      BY <1>1, <1>4, <1>9
    <2>2. list[Len(order)] = Absent
      BY <1>5, <2>1
    <2>3. Absent \in ToSet(list)
      BY <1>4, <2>1, <2>2, Held
    <2>4. Absent \in ToSet(kept)
      BY <1>3, <1>7, <2>3
    <2> QED
      BY <1>7, <1>9, <1>10, <2>4 DEF list, set
  <1> QED
    BY <1>8, <1>9

--------------------------------------------------------------------------------
(* The invariant holds initially. *)

LEMMA IdleTyped == Idle \in WorkerStates /\ Idle.at = "idle"
  BY NumberAssumption DEF Idle, WorkerStates, Started

LEMMA InitInvariant == Init => AddonsInvariant
  <1> SUFFICES ASSUME Init PROVE AddonsInvariant
    OBVIOUS
  <1>1. work = <<>> /\ work \in Seq(Names) /\ Len(work) = 0 /\ next = 1
    <2>1. work = <<>> /\ next = 1
      BY DEF Init
    <2>2. <<>> \in Seq(Names) /\ Len(<<>>) = 0
      OBVIOUS
    <2> QED
      BY <2>1, <2>2
  <1>2. /\ pc = "idle" /\ ctx = "live" /\ exit = 2 /\ request \in Invocations
        /\ addon \in StartAddons /\ mine = [a \in Addons |-> "none"]
        /\ applied = [a \in Addons |-> 0] /\ faults = 0 /\ others = {}
    BY DEF Init, NoExit
  <1>3. /\ worker \in [Positions -> WorkerStates] /\ result \in [Positions -> Statuses]
        /\ \A i \in Positions : worker[i].at = "idle" /\ result[i] = ""
    <2>1. Idle \in WorkerStates /\ Idle.at = "idle"
      BY IdleTyped
    <2>2. "" \in Statuses
      BY DEF Statuses
    <2>3. worker = [i \in Positions |-> Idle] /\ result = [i \in Positions |-> ""]
      BY DEF Init
    <2> QED
      BY <2>1, <2>2, <2>3
  <1>4. TypeOK
    <2>1. addon \in [Addons -> AddonStates] /\ request \in Requests
      BY <1>2, RequestAssumption, StartAssumption
    <2>2. next \in 1 .. Len(work) + 1 /\ Len(work) <= Cardinality(Names)
      BY <1>1, PositionsFinite
    <2>3. known \in BOOLEAN
      BY DEF Init
    <2>4. exit \in 0 .. NoExit
      BY <1>2 DEF NoExit
    <2> QED
      BY <1>1, <1>2, <1>3, <2>1, <2>2, <2>3, <2>4 DEF TypeOK, WorkerStates
  <1>5. ListOK
    BY <1>1, <1>2 DEF ListOK, Listed, Ordered
  <1>6. Running = {}
    BY <1>3 DEF Running, Started
  <1>7. LoopOK
    <2>1. Cardinality(Running) = 0
      BY <1>6, FS_EmptySet
    <2>2. \A i \in Positions : ~(i < next)
      BY <1>1, PositionsFinite DEF Positions
    <2>3. Running \subseteq {next - 1} /\ Cardinality(Running) <= Cap
      BY <1>6, <2>1, NumberAssumption
    <2> QED
      BY <1>1, <1>2, <1>3, <2>2, <2>3 DEF LoopOK
  <1>8. ExitOK
    BY <1>2, <1>6 DEF ExitOK, NoExit
  <1>9. CloudOK /\ OwnerOK
    BY <1>2 DEF CloudOK, OwnerOK
  <1>10. WorkerOK
    BY <1>1, PositionsFinite DEF WorkerOK, Positions
  <1> QED
    BY <1>4, <1>5, <1>7, <1>8, <1>9, <1>10 DEF AddonsInvariant

--------------------------------------------------------------------------------
(* Steps of the command keep the invariant. *)

LEMMA TypeStill ==
  ASSUME TypeOK, UNCHANGED <<cloudVars, request, workVars, others>>, faults' \in Nat,
         pc' \in {"idle", "list", "describe", "dispatch", "join", "done"},
         ctx' \in {"live", "done"}, work' \in Seq(Names), Len(work') <= Cardinality(Names),
         next' \in 1 .. Len(work') + 1, exit' \in 0 .. NoExit
  PROVE  TypeOK'
  <1>1. UNCHANGED <<addon, mine, applied, request, known, worker, result, others>>
    BY DEF cloudVars, workVars
  <1> QED
    BY <1>1 DEF TypeOK

LEMMA RunningStill == ASSUME UNCHANGED worker PROVE Running' = Running
  BY DEF Running

\* The list and the workers stay: EKS's side, the owners and the workers' knowledge do.
LEMMA WorkersStill ==
  ASSUME AddonsInvariant, UNCHANGED <<cloudVars, request, work, next, workVars, others>>
  PROVE  CloudOK' /\ OwnerOK' /\ WorkerOK'
  <1>1. UNCHANGED <<addon, mine, applied, request, known, worker, result, others, work, next>>
    BY DEF cloudVars, workVars
  <1>2. CloudOK'
    BY <1>1 DEF AddonsInvariant, CloudOK
  <1>3. OwnerOK'
    BY <1>1 DEF AddonsInvariant, OwnerOK, Has
  <1>4. WorkerOK'
    <2>1. ASSUME NEW i \in Positions, i < next PROVE Knows(i)'
      <3>1. Knows(i)
        BY <2>1 DEF AddonsInvariant, WorkerOK
      <3> QED
        BY <1>1, <3>1 DEF Knows, Has, Settled
    <2> QED
      BY <1>1, <2>1 DEF WorkerOK
  <1> QED
    BY <1>2, <1>3, <1>4

\* Before the first dispatch no worker runs and EKS has accepted nothing.
LEMMA Unstarted ==
  ASSUME AddonsInvariant, pc \in {"idle", "list", "describe"}
  PROVE  /\ next = 1 /\ Running = {} /\ \A a \in Addons : mine[a] = "none"
         /\ \A i \in Positions : ~(i < 1) /\ worker[i].at = "idle" /\ result[i] = ""
  <1>1. next = 1
    BY DEF AddonsInvariant, LoopOK
  <1>2. \A i \in Positions : ~(i < 1)
    BY PositionsFinite DEF Positions
  <1>3. \A i \in Positions : worker[i].at = "idle" /\ result[i] = ""
    BY <1>1, <1>2 DEF AddonsInvariant, LoopOK
  <1>4. Running = {}
    BY <1>3 DEF Running, Started
  <1>5. \A a \in Addons : mine[a] = "none"
    <2>1. \A i \in 1 .. Len(work) : ~(i < 1)
      OBVIOUS
    <2> QED
      BY <1>1, <2>1 DEF AddonsInvariant, OwnerOK
  <1> QED
    BY <1>1, <1>2, <1>3, <1>4, <1>5

\* So the list may still change.
LEMMA ListChanges ==
  ASSUME AddonsInvariant, pc \in {"idle", "list", "describe"}, pc' # "join", pc' # "done",
         UNCHANGED <<cloudVars, request, next, workVars, exit, others>>, ListOK', TypeOK'
  PROVE  AddonsInvariant'
  <1>1. UNCHANGED <<addon, mine, applied, request, known, worker, result, others, next, exit>>
    BY DEF cloudVars, workVars
  <1>2. /\ next = 1 /\ Running = {} /\ \A a \in Addons : mine[a] = "none"
        /\ \A i \in Positions : ~(i < 1) /\ worker[i].at = "idle" /\ result[i] = ""
    BY Unstarted
  <1>3. Running' = {}
    BY <1>1, <1>2, RunningStill
  <1>4. LoopOK'
    <2>1. Cardinality(Running') = 0
      BY <1>3, FS_EmptySet
    <2>2. Cardinality(Running') <= Cap /\ Running' \subseteq {next' - 1}
      BY <1>3, <2>1, NumberAssumption
    <2> QED
      BY <1>1, <1>2, <2>2 DEF LoopOK, Has
  <1>5. ExitOK'
    <2>1. exit = NoExit
      BY DEF AddonsInvariant, ExitOK
    <2> QED
      BY <1>1, <2>1 DEF ExitOK, NoExit
  <1>6. CloudOK'
    BY <1>1 DEF AddonsInvariant, CloudOK
  <1>7. OwnerOK' /\ WorkerOK'
    BY <1>1, <1>2 DEF OwnerOK, WorkerOK
  <1> QED
    BY <1>4, <1>5, <1>6, <1>7 DEF AddonsInvariant

LEMMA FaultsCounted ==
  ASSUME faults \in Nat
  PROVE  /\ NoFault => faults' \in Nat
         /\ Answered => faults' \in Nat /\ ctx = "live"
         /\ CallFails => faults' \in Nat
         /\ \A kind : Fault(kind) => faults' \in Nat
  <1>1. ASSUME NEW kind, Fault(kind) PROVE faults' \in Nat
    BY <1>1 DEF Fault
  <1>2. NoFault => faults' \in Nat
    BY DEF NoFault
  <1>3. CallFails => faults' \in Nat
    BY <1>1, <1>2 DEF CallFails
  <1> QED
    BY <1>1, <1>2, <1>3 DEF Answered

\* A lookup that fails ends the command before any worker has started.
LEMMA EarlyExit ==
  ASSUME AddonsInvariant, pc \in {"idle", "list"}, CallFails, Exit(1),
         UNCHANGED <<cloudVars, request, ctx, next, workVars, others, work>>
  PROVE  AddonsInvariant'
  <1>1. UNCHANGED <<addon, mine, applied, request, known, worker, result, others, next, work, ctx>>
    BY DEF cloudVars, workVars
  <1>2. pc' = "done" /\ exit' = 1
    BY DEF Exit
  <1>3. /\ next = 1 /\ Running = {} /\ \A a \in Addons : mine[a] = "none"
        /\ \A i \in Positions : ~(i < 1) /\ worker[i].at = "idle" /\ result[i] = ""
    BY Unstarted
  <1>4. TypeOK'
    <2>1. TypeOK /\ faults \in Nat
      BY DEF AddonsInvariant, TypeOK
    <2>2. faults' \in Nat
      BY <2>1, FaultsCounted
    <2>3. /\ work' \in Seq(Names) /\ Len(work') <= Cardinality(Names) /\ ctx' \in {"live", "done"}
          /\ next' \in 1 .. Len(work') + 1
      BY <1>1, <2>1 DEF TypeOK
    <2>4. pc' \in {"idle", "list", "describe", "dispatch", "join", "done"} /\ exit' \in 0 .. NoExit
      BY <1>2 DEF NoExit
    <2> QED
      BY <2>1, <2>2, <2>3, <2>4, TypeStill
  <1>5. ListOK'
    BY <1>1, <1>2 DEF AddonsInvariant, ListOK, Listed, Ordered, Has
  <1>6. LoopOK'
    <2>1. Running' = Running
      BY <1>1, RunningStill
    <2> QED
      BY <1>1, <1>2, <2>1 DEF AddonsInvariant, LoopOK, Has
  <1>7. ExitOK'
    <2>1. Running' = {}
      BY <1>1, <1>3, RunningStill
    <2> QED
      BY <1>2, <2>1 DEF ExitOK, NoExit
  <1>8. CloudOK' /\ OwnerOK' /\ WorkerOK'
    BY WorkersStill
  <1> QED
    BY <1>4, <1>5, <1>6, <1>7, <1>8 DEF AddonsInvariant

LEMMA LaunchKept == ASSUME AddonsInvariant, Launch PROVE AddonsInvariant'
  <1>1. /\ TypeOK /\ ListOK /\ faults \in Nat /\ request \in Requests /\ pc = "idle"
        /\ UNCHANGED <<cloudVars, request, ctx, next, workVars, others>>
    BY DEF AddonsInvariant, TypeOK, Launch
  <1>2. next = 1 /\ exit = NoExit
    BY <1>1, Unstarted DEF AddonsInvariant, ExitOK
  <1>3. CASE Has("all") /\ NoFault /\ pc' = "list" /\ UNCHANGED <<work, exit>>
    <2>1. ListOK'
      BY <1>1, <1>2, <1>3 DEF ListOK, Listed, Ordered, Has, NoExit
    <2>2. faults' \in Nat
      BY <1>1, <1>3, FaultsCounted
    <2>3. TypeOK'
      BY <1>1, <1>3, <2>2, TypeStill DEF TypeOK
    <2> QED
      BY <1>1, <1>3, <2>1, <2>3, ListChanges
  <1>4. CASE ~Has("all") /\ NoFault /\ pc' = "dispatch" /\ work' = <<request.addon>> /\ UNCHANGED exit
    <2>1. request.addon \in Names
      BY <1>1 DEF Requests
    <2>2. /\ work' \in Seq(Names) /\ Len(work') = 1 /\ work'[1] = request.addon
      BY <1>4, <2>1
    <2>3. Listed(work') /\ Ordered(work')
      BY <2>2 DEF Listed, Ordered
    <2>4. ListOK'
      BY <1>1, <1>2, <1>4, <2>3 DEF ListOK, Has, Listed, Ordered
    <2>5. faults' \in Nat
      BY <1>1, <1>4, FaultsCounted
    <2>6. TypeOK'
      <3>1. next' \in 1 .. Len(work') + 1 /\ Len(work') <= Cardinality(Names)
        BY <1>1, <1>2, <2>2, PositionsFinite
      <3>2. /\ pc' \in {"idle", "list", "describe", "dispatch", "join", "done"}
            /\ exit' \in 0 .. NoExit /\ ctx' \in {"live", "done"}
        BY <1>1, <1>2, <1>4 DEF NoExit, TypeOK
      <3> QED
        BY <1>1, <2>2, <2>5, <3>1, <3>2, TypeStill
    <2> QED
      BY <1>1, <1>4, <2>4, <2>6, ListChanges
  <1>5. CASE CallFails /\ Exit(1) /\ UNCHANGED work
    BY <1>1, <1>5, EarlyExit
  <1> QED
    BY <1>3, <1>4, <1>5 DEF Launch

LEMMA ListAddonsKept == ASSUME AddonsInvariant, ListAddons PROVE AddonsInvariant'
  <1>1. /\ TypeOK /\ ListOK /\ faults \in Nat /\ pc = "list"
        /\ UNCHANGED <<cloudVars, request, next, ctx, workVars, others>>
    BY DEF AddonsInvariant, TypeOK, ListAddons
  <1>2. next = 1 /\ exit = NoExit
    BY <1>1, Unstarted DEF AddonsInvariant, ExitOK
  <1>3. CASE Answered /\ pc' = "describe" /\ work' \in ListOrders /\ UNCHANGED exit
    <2>1. Listed(work') /\ Len(work') <= Cardinality(Names)
      BY <1>3, OrderFits
    <2>2. work' \in Seq(Names) /\ Len(work') \in Nat
      BY <2>1 DEF Listed
    <2>3. ListOK'
      <3>1. Listed(work)' /\ Has("all")'
        BY <1>1, <2>1 DEF Listed, ListOK, Has
      <3> QED
        BY <1>1, <1>2, <1>3, <3>1 DEF ListOK, NoExit
    <2>4. faults' \in Nat
      BY <1>1, <1>3, FaultsCounted
    <2>5. TypeOK'
      <3>1. next' \in 1 .. Len(work') + 1
        BY <1>1, <1>2, <2>2
      <3>2. /\ pc' \in {"idle", "list", "describe", "dispatch", "join", "done"}
            /\ exit' \in 0 .. NoExit /\ ctx' \in {"live", "done"}
        BY <1>1, <1>2, <1>3 DEF NoExit, TypeOK
      <3> QED
        BY <1>1, <2>1, <2>2, <2>4, <3>1, <3>2, TypeStill
    <2> QED
      BY <1>1, <1>3, <2>3, <2>5, ListChanges
  <1>4. CASE CallFails /\ Exit(1) /\ UNCHANGED work
    BY <1>1, <1>4, EarlyExit
  <1> QED
    BY <1>3, <1>4 DEF ListAddons

LEMMA ListSummariesKept == ASSUME AddonsInvariant, ListSummaries PROVE AddonsInvariant'
  <1>1. /\ TypeOK /\ ListOK /\ faults \in Nat /\ request \in Requests /\ pc = "describe"
        /\ pc' = "dispatch" /\ NoFault
        /\ UNCHANGED <<cloudVars, request, next, exit, ctx, workVars, others>>
    BY DEF AddonsInvariant, TypeOK, ListSummaries
  <1>2. next = 1 /\ exit = NoExit /\ work \in ListOrders /\ Has("all")
    BY <1>1, Unstarted DEF AddonsInvariant, ExitOK, ListOK
  <1>3. PICK named \in 0 .. Len(work) :
          /\ ctx = "live" => named = Len(work)
          /\ LET kept == Kept(Summaries(work, named), Names \ request.skip) IN
             work' = IF Has("dependencyOrder") THEN SortByDependency(kept) ELSE kept
    BY DEF ListSummaries, Summaries
  <1> DEFINE kept == Kept(Summaries(work, named), Names \ request.skip)
  <1>4. work' = IF Has("dependencyOrder") THEN SortByDependency(kept) ELSE kept
    BY <1>3
  <1>5. /\ Listed(kept) /\ Len(kept) <= Cardinality(Names)
        /\ Absent \notin ToSet(kept) => ToSet(kept) = Addons \ request.skip
        /\ named = Len(work) => Absent \notin ToSet(kept)
    <2>1. request.skip \in SUBSET Addons
      BY <1>1 DEF Requests
    <2> QED
      BY <1>2, <1>3, <2>1, SummariesListed
  <1> HIDE DEF kept
  <1>6. /\ Listed(work') /\ Len(work') <= Cardinality(Names) /\ ToSet(work') = ToSet(kept)
        /\ Has("dependencyOrder") => Ordered(work')
    <2>1. /\ Listed(SortByDependency(kept)) /\ Ordered(SortByDependency(kept))
          /\ Len(SortByDependency(kept)) <= Len(kept)
          /\ ToSet(SortByDependency(kept)) = ToSet(kept)
      BY <1>5, SortedListed
    <2>2. Len(kept) \in Nat /\ Len(SortByDependency(kept)) \in Nat
      BY <1>5, <2>1 DEF Listed
    <2>3. Len(SortByDependency(kept)) <= Cardinality(Names)
      BY <1>5, <2>1, <2>2, PositionsFinite
    <2> QED
      BY <1>4, <1>5, <2>1, <2>3
  <1>7. work' \in Seq(Names) /\ Len(work') \in Nat
    BY <1>6 DEF Listed
  <1>8. ListOK'
    <2>1. Listed(work)' /\ (Has("dependencyOrder")' => Ordered(work)') /\ Has("all")'
      BY <1>1, <1>2, <1>6 DEF Listed, Ordered, Has
    <2>2. /\ Absent \notin ToSet(work') => ToSet(work') = Addons \ request'.skip
          /\ ctx' = "live" => Absent \notin ToSet(work')
      BY <1>1, <1>3, <1>5, <1>6
    <2> QED
      BY <1>1, <2>1, <2>2 DEF ListOK
  <1>9. TypeOK'
    <2>1. faults' \in Nat
      BY <1>1, FaultsCounted
    <2>2. next' \in 1 .. Len(work') + 1
      BY <1>1, <1>2, <1>7
    <2>3. /\ pc' \in {"idle", "list", "describe", "dispatch", "join", "done"}
          /\ exit' \in 0 .. NoExit /\ ctx' \in {"live", "done"}
      BY <1>1 DEF TypeOK
    <2> QED
      BY <1>1, <1>6, <1>7, <2>1, <2>2, <2>3, TypeStill
  <1> QED
    BY <1>1, <1>8, <1>9, ListChanges

LEMMA DispatchKept == ASSUME AddonsInvariant, Dispatch PROVE AddonsInvariant'
  <1>1. /\ TypeOK /\ ListOK /\ LoopOK /\ ExitOK /\ faults \in Nat /\ pc = "dispatch"
        /\ next <= Len(work) /\ HasSlot /\ NoFault
        /\ worker' = [worker EXCEPT ![next]["at"] = "version"] /\ next' = next + 1
        /\ UNCHANGED <<cloudVars, pc, request, work, exit, ctx, known, result, others>>
    BY DEF AddonsInvariant, TypeOK, Dispatch
  <1>2. UNCHANGED <<addon, mine, applied, pc, request, work, exit, ctx, known, result, others>>
    BY <1>1 DEF cloudVars
  <1>3. /\ Len(work) \in Nat /\ next \in Nat /\ next \in Positions /\ next \in 1 .. Len(work)
        /\ next + 1 \in 1 .. Len(work) + 1
    BY <1>1, PositionsFinite DEF TypeOK, Positions
  <1>4. /\ worker \in [Positions -> WorkerStates] /\ result \in [Positions -> Statuses]
        /\ worker[next].at = "idle" /\ result[next] = ""
    <2>1. ~(next < next)
      BY <1>3
    <2>2. worker[next].at = "idle" /\ result[next] = ""
      BY <1>1, <1>3, <2>1 DEF LoopOK
    <2> QED
      BY <1>1, <2>2 DEF TypeOK, WorkerStates
  <1>5. /\ worker'[next].at = "version" /\ worker' \in [Positions -> WorkerStates]
        /\ \A i \in Positions \ {next} : worker'[i] = worker[i]
    <2>1. /\ worker'[next].at = "version"
          /\ \A i \in Positions \ {next} : worker'[i] = worker[i]
          /\ worker' = [worker EXCEPT ![next] = [worker[next] EXCEPT !["at"] = "version"]]
      BY <1>1, <1>3, <1>4 DEF WorkerStates
    <2>2. [worker[next] EXCEPT !["at"] = "version"] \in WorkerStates
      BY <1>3, <1>4 DEF WorkerStates, Started
    <2> QED
      BY <1>3, <1>4, <2>1, <2>2
  <1>6. TypeOK'
    <2>1. faults' \in Nat
      BY <1>1, FaultsCounted
    <2>2. next' \in 1 .. Len(work') + 1
      BY <1>1, <1>2, <1>3
    <2> QED
      BY <1>1, <1>2, <1>5, <2>1, <2>2 DEF TypeOK, WorkerStates
  <1>7. ListOK'
    BY <1>1, <1>2 DEF ListOK, Listed, Ordered, Has
  <1>8. /\ Running \subseteq Positions /\ next \notin Running
        /\ Running' = Running \cup {next}
    BY <1>3, <1>4, <1>5 DEF Running, Started
  <1>9. LoopOK'
    <2>1. Has("parallel") => Cardinality(Running') <= Cap
      <3> SUFFICES ASSUME Has("parallel") PROVE Cardinality(Running') <= Cap
        OBVIOUS
      <3>1. IsFiniteSet(Running)
        BY <1>8, PositionsFinite, FS_Subset
      <3>2. Cardinality(Running) \in Nat /\ Cardinality(Running') = Cardinality(Running) + 1
        BY <1>8, <3>1, FS_AddElement, FS_CardinalityType
      <3>3. Cardinality(Running) < Cap
        BY <1>1 DEF HasSlot
      <3> QED
        BY <3>2, <3>3, NumberAssumption
    <2>2. ~Has("parallel") => Running' \subseteq {next' - 1}
      BY <1>1, <1>3, <1>8 DEF HasSlot
    <2>3. ASSUME NEW i \in Positions
          PROVE  IF i < next' THEN worker'[i].at = "idle" <=> result'[i] # ""
                              ELSE worker'[i].at = "idle" /\ result'[i] = ""
      <3>1. i \in Nat
        BY PositionsFinite
      <3>2. CASE i = next
        <4>1. i < next'
          BY <1>1, <1>3, <3>2
        <4>2. worker'[i].at # "idle" /\ result'[i] = ""
          BY <1>2, <1>4, <1>5, <3>2
        <4> QED
          BY <4>1, <4>2
      <3>3. CASE i # next
        <4>1. i < next' <=> i < next
          BY <1>1, <1>3, <3>1, <3>3
        <4>2. worker'[i] = worker[i] /\ result'[i] = result[i]
          BY <1>2, <1>5, <3>3
        <4> QED
          BY <1>1, <4>1, <4>2 DEF LoopOK
      <3> QED
        BY <3>2, <3>3
    <2> QED
      BY <1>1, <1>2, <2>1, <2>2, <2>3 DEF LoopOK, Has
  <1>10. ExitOK'
    BY <1>1, <1>2 DEF ExitOK, NoExit
  <1>11. CloudOK'
    BY <1>2 DEF AddonsInvariant, CloudOK
  <1>12. OwnerOK'
    <2> SUFFICES ASSUME NEW a \in Addons, mine[a] # "none"
                 PROVE  /\ ~Has("dryRun")
                        /\ \E i \in 1 .. Len(work) : i < next + 1 /\ work[i] = a
                                /\ worker'[i].at \in Submitting \cup {"idle"}
      BY <1>1, <1>2 DEF OwnerOK, Has
    <2>1. PICK i \in 1 .. Len(work) :
            i < next /\ work[i] = a /\ worker[i].at \in Submitting \cup {"idle"}
      BY DEF AddonsInvariant, OwnerOK
    <2>2. i \in Positions \ {next} /\ i < next + 1
      BY <1>1, <1>3, <2>1, PositionsFinite DEF TypeOK, Positions
    <2> QED
      BY <1>5, <2>1, <2>2 DEF AddonsInvariant, OwnerOK
  <1>13. WorkerOK'
    <2> SUFFICES ASSUME NEW i \in Positions, i < next + 1 PROVE Knows(i)'
      BY <1>1 DEF WorkerOK
    <2>1. CASE i = next
      BY <1>2, <1>4, <1>5, <2>1 DEF Knows, Submitting
    <2>2. CASE i # next
      <3>1. i < next
        BY <1>3, <2>2, PositionsFinite
      <3>2. Knows(i)
        BY <3>1 DEF AddonsInvariant, WorkerOK
      <3>3. worker'[i] = worker[i]
        BY <1>5, <2>2
      <3> QED
        BY <1>2, <3>2, <3>3 DEF Knows, Has, Settled
    <2> QED
      BY <2>1, <2>2
  <1> QED
    BY <1>6, <1>7, <1>9, <1>10, <1>11, <1>12, <1>13 DEF AddonsInvariant

LEMMA DispatchEndsKept == ASSUME AddonsInvariant, DispatchEnds PROVE AddonsInvariant'
  <1>1. /\ TypeOK /\ ListOK /\ LoopOK /\ ExitOK /\ faults \in Nat /\ pc = "dispatch"
        /\ next > Len(work) \/ (Has("parallel") /\ ctx # "live")
        /\ pc' = "join" /\ NoFault
        /\ UNCHANGED <<cloudVars, request, work, next, exit, ctx, workVars, others>>
    BY DEF AddonsInvariant, TypeOK, DispatchEnds
  <1>2. UNCHANGED <<addon, mine, applied, request, work, next, exit, ctx, known, worker, result, others>>
    BY <1>1 DEF cloudVars, workVars
  <1>3. TypeOK'
    <2>1. faults' \in Nat
      BY <1>1, FaultsCounted
    <2> QED
      BY <1>1, <1>2, <2>1 DEF TypeOK
  <1>4. ListOK'
    BY <1>1, <1>2 DEF ListOK, Listed, Ordered, Has
  <1>5. LoopOK'
    <2>1. ctx = "live" => next = Len(work) + 1
      BY <1>1 DEF TypeOK
    <2>2. Running' = Running
      BY <1>2, RunningStill
    <2> QED
      BY <1>1, <1>2, <2>1, <2>2 DEF LoopOK, Has
  <1>6. ExitOK'
    BY <1>1, <1>2 DEF ExitOK, NoExit
  <1>7. CloudOK' /\ OwnerOK' /\ WorkerOK'
    BY <1>1, WorkersStill
  <1> QED
    BY <1>3, <1>4, <1>5, <1>6, <1>7 DEF AddonsInvariant

LEMMA JoinKept == ASSUME AddonsInvariant, Join PROVE AddonsInvariant'
  <1>1. /\ TypeOK /\ ListOK /\ LoopOK /\ faults \in Nat /\ pc = "join" /\ Running = {}
        /\ pc' = "done" /\ exit' = UpdateAllFailureError /\ NoFault
        /\ UNCHANGED <<cloudVars, request, work, next, ctx, workVars, others>>
    BY DEF AddonsInvariant, TypeOK, Join, AllJoined, Exit
  <1>2. UNCHANGED <<addon, mine, applied, request, work, next, ctx, known, worker, result, others>>
    BY <1>1 DEF cloudVars, workVars
  <1>3. exit' \in {0, 1} /\ (exit' = 0 => \A i \in 1 .. Len(work) : result[i] # "FAILED")
    BY <1>1 DEF UpdateAllFailureError
  <1>4. TypeOK'
    <2>1. faults' \in Nat
      BY <1>1, FaultsCounted
    <2>2. exit' \in 0 .. NoExit
      BY <1>3 DEF NoExit
    <2> QED
      BY <1>1, <1>2, <2>1, <2>2 DEF TypeOK
  <1>5. ListOK'
    BY <1>1, <1>2 DEF ListOK, Listed, Ordered, Has
  <1>6. Running' = {}
    BY <1>1, <1>2, RunningStill
  <1>7. LoopOK'
    BY <1>1, <1>2, <1>6 DEF LoopOK, Has
  <1>8. ExitOK'
    <2>1. ctx' = "live" => next' = Len(work') + 1
      BY <1>1, <1>2 DEF LoopOK
    <2>2. exit' # NoExit
      BY <1>3 DEF NoExit
    <2>3. exit' = 0 => \A i \in 1 .. Len(work') : result'[i] # "FAILED"
      BY <1>2, <1>3
    <2> QED
      BY <1>1, <1>6, <2>1, <2>2, <2>3 DEF ExitOK
  <1>9. CloudOK' /\ OwnerOK' /\ WorkerOK'
    BY <1>1, WorkersStill
  <1> QED
    BY <1>4, <1>5, <1>7, <1>8, <1>9 DEF AddonsInvariant

LEMMA ContextDoneKept == ASSUME AddonsInvariant, ContextDone PROVE AddonsInvariant'
  <1>1. /\ TypeOK /\ ListOK /\ LoopOK /\ ExitOK /\ faults \in Nat
        /\ ctx' = "done" /\ NoFault
        /\ UNCHANGED <<cloudVars, mainVars, workVars, others>>
    BY DEF AddonsInvariant, TypeOK, ContextDone
  <1>2. UNCHANGED <<addon, mine, applied, pc, request, work, next, exit, known, worker, result, others>>
    BY <1>1 DEF cloudVars, workVars, mainVars
  <1>3. TypeOK'
    <2>1. faults' \in Nat
      BY <1>1, FaultsCounted
    <2> QED
      BY <1>1, <1>2, <2>1 DEF TypeOK
  <1>4. ListOK'
    BY <1>1, <1>2 DEF ListOK, Listed, Ordered, Has
  <1>5. Running' = Running
    BY <1>2, RunningStill
  <1>6. LoopOK'
    BY <1>1, <1>2, <1>5 DEF LoopOK, Has
  <1>7. ExitOK'
    BY <1>1, <1>2, <1>5 DEF ExitOK
  <1>8. CloudOK' /\ OwnerOK' /\ WorkerOK'
    BY <1>1, <1>2, WorkersStill
  <1> QED
    BY <1>3, <1>4, <1>6, <1>7, <1>8 DEF AddonsInvariant

LEMMA Stutter == ASSUME AddonsInvariant, UNCHANGED vars PROVE AddonsInvariant'
  <1>1. UNCHANGED <<addon, mine, applied, faults, pc, request, work, next, exit, ctx, known, worker,
                    result, others>>
    BY DEF vars, cloudVars, mainVars, workVars
  <1>2. Running' = Running
    BY <1>1, RunningStill
  <1>3. TypeOK' /\ ListOK'
    BY <1>1 DEF AddonsInvariant, TypeOK, ListOK, Listed, Ordered, Has
  <1>4. LoopOK' /\ ExitOK'
    BY <1>1, <1>2 DEF AddonsInvariant, LoopOK, ExitOK, Has
  <1>5. CloudOK' /\ OwnerOK' /\ WorkerOK'
    BY <1>1, WorkersStill DEF cloudVars, workVars
  <1> QED
    BY <1>3, <1>4, <1>5 DEF AddonsInvariant

--------------------------------------------------------------------------------
(* Steps of a worker. *)

\* The worker at i goes on or ends, and nobody else moves.
Steps(i) ==
  /\ worker[i].at \in Started
  /\ worker' \in [Positions -> WorkerStates] /\ result' \in [Positions -> Statuses]
  /\ \A k \in Positions \ {i} : worker'[k] = worker[k] /\ result'[k] = result[k]
  /\ \/ worker'[i].at \in Started /\ result'[i] = ""
     \/ worker'[i].at = "idle" /\ result'[i] # ""
  /\ worker[i].at \in Submitting => worker'[i].at \in Submitting \cup {"idle"}

\* A worker that runs is at a position of the list, with no result yet, and the command waits.
LEMMA Taken ==
  ASSUME AddonsInvariant, NEW i \in Positions, worker[i].at \in Started
  PROVE  /\ i < next /\ i \in 1 .. Len(work) /\ work[i] \in Names /\ result[i] = ""
         /\ Knows(i) /\ i \in Running /\ exit = NoExit /\ pc # "done"
         /\ worker[i] \in WorkerStates
  <1>1. /\ TypeOK /\ LoopOK /\ ExitOK /\ WorkerOK
        /\ worker \in [Positions -> WorkerStates] /\ work \in Seq(Names)
        /\ next \in 1 .. Len(work) + 1
    BY DEF AddonsInvariant, TypeOK, WorkerStates
  <1>2. worker[i].at # "idle"
    BY DEF Started
  <1>3. i < next /\ result[i] = ""
    BY <1>1, <1>2 DEF LoopOK
  <1>4. i \in 1 .. Len(work)
    <2>1. i \in Nat /\ 1 <= i
      BY PositionsFinite DEF Positions
    <2>2. Len(work) \in Nat
      BY <1>1
    <2>3. next \in 1 .. Len(work) + 1
      BY <1>1
    <2>4. \A m, n, k \in Nat : n \in 1 .. m + 1 /\ 1 <= k /\ k < n => k \in 1 .. m
      OBVIOUS
    <2>5. next \in Nat
      BY <2>2, <2>3
    <2> QED
      BY <1>3, <2>1, <2>2, <2>3, <2>4, <2>5
  <1>5. i \in Running
    BY DEF Running
  <1>6. exit = NoExit /\ pc # "done"
    BY <1>1, <1>5 DEF ExitOK
  <1>7. work[i] \in Names
    BY <1>1, <1>4
  <1> QED
    BY <1>1, <1>3, <1>4, <1>5, <1>6, <1>7 DEF WorkerOK

LEMMA MovesSteps ==
  ASSUME AddonsInvariant, NEW i \in Positions, worker[i].at \in Started,
         NEW w \in WorkerStates, w.at \in Started,
         worker[i].at \in Submitting => w.at \in Submitting, Moves(i, w)
  PROVE  Steps(i) /\ worker'[i] = w /\ result'[i] = ""
  <1>1. result[i] = ""
    BY Taken
  <1>2. worker \in [Positions -> WorkerStates] /\ result \in [Positions -> Statuses]
    BY DEF AddonsInvariant, TypeOK, WorkerStates
  <1>3. worker' = [worker EXCEPT ![i] = w] /\ result' = result
    BY DEF Moves
  <1>4. /\ worker' \in [Positions -> WorkerStates] /\ worker'[i] = w
        /\ \A k \in Positions \ {i} : worker'[k] = worker[k]
    BY <1>2, <1>3
  <1> QED
    BY <1>1, <1>2, <1>3, <1>4 DEF Steps

LEMMA GotoSteps ==
  ASSUME AddonsInvariant, NEW i \in Positions, worker[i].at \in Started,
         NEW label \in Started, worker[i].at \in Submitting => label \in Submitting,
         Goto(i, label)
  PROVE  Steps(i) /\ worker'[i].at = label /\ result'[i] = ""
  <1> DEFINE w == [worker[i] EXCEPT !["at"] = label]
  <1>1. worker[i] \in WorkerStates
    BY Taken
  <1>2. w \in WorkerStates /\ w.at = label
    BY <1>1 DEF WorkerStates
  <1>3. Moves(i, w)
    BY DEF Goto
  <1> HIDE DEF w
  <1> QED
    BY <1>2, <1>3, MovesSteps

LEMMA EndsSteps ==
  ASSUME AddonsInvariant, NEW i \in Positions, worker[i].at \in Started,
         NEW status \in Statuses \ {""}, Ends(i, status)
  PROVE  Steps(i) /\ worker'[i].at = "idle" /\ result'[i] = status
  <1>1. worker \in [Positions -> WorkerStates] /\ result \in [Positions -> Statuses]
    BY DEF AddonsInvariant, TypeOK, WorkerStates
  <1>2. worker' = [worker EXCEPT ![i] = Idle] /\ result' = [result EXCEPT ![i] = status]
    BY DEF Ends
  <1>3. Idle \in WorkerStates /\ Idle.at = "idle"
    BY IdleTyped
  <1>4. /\ worker' \in [Positions -> WorkerStates] /\ worker'[i].at = "idle"
        /\ result' \in [Positions -> Statuses] /\ result'[i] = status
        /\ \A k \in Positions \ {i} : worker'[k] = worker[k] /\ result'[k] = result[k]
    BY <1>1, <1>2, <1>3
  <1> QED
    BY <1>4 DEF Steps

\* Whatever it finds, the loop's books stay right.
LEMMA StepsKeep ==
  ASSUME AddonsInvariant, NEW i \in Positions, Steps(i), MainStill, faults' \in Nat,
         known' \in BOOLEAN, addon' \in [Addons -> AddonStates], applied' \in [Addons -> Nat],
         mine' \in [Addons -> {"none", "InProgress", "Successful", "Failed"}],
         UNCHANGED request
  PROVE  TypeOK' /\ ListOK' /\ LoopOK' /\ ExitOK'
  <1>1. UNCHANGED <<pc, request, work, next, exit, ctx, others>>
    BY DEF MainStill, mainVars
  <1>2. TypeOK /\ ListOK /\ LoopOK /\ ExitOK
    BY DEF AddonsInvariant
  <1>3. /\ worker[i].at \in Started
        /\ worker' \in [Positions -> WorkerStates] /\ result' \in [Positions -> Statuses]
        /\ \A k \in Positions \ {i} : worker'[k] = worker[k] /\ result'[k] = result[k]
        /\ \/ worker'[i].at \in Started /\ result'[i] = ""
           \/ worker'[i].at = "idle" /\ result'[i] # ""
    BY DEF Steps
  <1>4. i < next /\ exit = NoExit /\ pc # "done"
    BY <1>3, Taken
  <1>5. TypeOK'
    BY <1>1, <1>2, <1>3 DEF TypeOK, WorkerStates
  <1>6. ListOK'
    BY <1>1, <1>2 DEF ListOK, Listed, Ordered, Has
  <1>7. Running' \subseteq Running /\ Running \subseteq Positions
    BY <1>3 DEF Running
  <1>8. LoopOK'
    <2>1. Has("parallel") => Cardinality(Running') <= Cap
      <3>1. IsFiniteSet(Running) /\ IsFiniteSet(Running')
        BY <1>7, PositionsFinite, FS_Subset
      <3>2. Cardinality(Running') <= Cardinality(Running)
        BY <1>7, <3>1, FS_Subset
      <3>3. Cardinality(Running') \in Nat /\ Cardinality(Running) \in Nat
        BY <3>1, FS_CardinalityType
      <3>4. Has("parallel") => Cardinality(Running) <= Cap
        BY <1>2 DEF LoopOK
      <3> QED
        BY <3>2, <3>3, <3>4, NumberAssumption
    <2>2. ~Has("parallel") => Running' \subseteq {next - 1}
      BY <1>2, <1>7 DEF LoopOK
    <2>3. ASSUME NEW k \in Positions
          PROVE  IF k < next THEN worker'[k].at = "idle" <=> result'[k] # ""
                             ELSE worker'[k].at = "idle" /\ result'[k] = ""
      <3>1. CASE k = i
        BY <1>3, <1>4, <3>1 DEF Started
      <3>2. CASE k # i
        BY <1>2, <1>3, <3>2 DEF LoopOK
      <3> QED
        BY <3>1, <3>2
    <2>4. pc = "join" /\ ctx = "live" => next = Len(work) + 1
      BY <1>2 DEF LoopOK
    <2>5. pc \in {"idle", "list", "describe"} => next = 1
      BY <1>2 DEF LoopOK
    <2> QED
      BY <1>1, <2>1, <2>2, <2>3, <2>4, <2>5 DEF LoopOK, Has
  <1>9. ExitOK'
    BY <1>1, <1>4 DEF ExitOK, NoExit
  <1> QED
    BY <1>5, <1>6, <1>8, <1>9

\* A step that only reads.
LEMMA ReadStep ==
  ASSUME AddonsInvariant, NEW i \in Positions, Steps(i), MainStill, UNCHANGED cloudVars,
         faults' \in Nat, known' \in BOOLEAN, UNCHANGED request, Knows(i)'
  PROVE  AddonsInvariant'
  <1>1. UNCHANGED <<addon, mine, applied, pc, request, work, next, exit, ctx, others>>
    BY DEF MainStill, mainVars, cloudVars
  <1>2. TypeOK' /\ ListOK' /\ LoopOK' /\ ExitOK'
    BY <1>1, StepsKeep DEF AddonsInvariant, TypeOK
  <1>3. CloudOK'
    BY <1>1 DEF AddonsInvariant, CloudOK
  <1>4. OwnerOK'
    <2> SUFFICES ASSUME NEW a \in Addons, mine[a] # "none"
                 PROVE  /\ ~Has("dryRun")
                        /\ \E k \in 1 .. Len(work) : k < next /\ work[k] = a
                                /\ worker'[k].at \in Submitting \cup {"idle"}
      BY <1>1 DEF OwnerOK, Has
    <2>1. ~Has("dryRun")
      BY DEF AddonsInvariant, OwnerOK
    <2>2. PICK k \in 1 .. Len(work) :
            k < next /\ work[k] = a /\ worker[k].at \in Submitting \cup {"idle"}
      BY DEF AddonsInvariant, OwnerOK
    <2>3. k \in Positions
      BY <2>2, PositionsFinite DEF AddonsInvariant, TypeOK, Positions
    <2>4. worker'[k].at \in Submitting \cup {"idle"}
      <3>1. CASE k = i
        BY <2>2, <3>1 DEF Steps, Started
      <3>2. CASE k # i
        BY <2>2, <2>3, <3>2 DEF Steps
      <3> QED
        BY <3>1, <3>2
    <2> QED
      BY <2>1, <2>2, <2>4
  <1>5. WorkerOK'
    <2> SUFFICES ASSUME NEW k \in Positions, k < next PROVE Knows(k)'
      BY <1>1 DEF WorkerOK
    <2>1. CASE k = i
      BY <2>1
    <2>2. CASE k # i
      <3>1. Knows(k)
        BY DEF AddonsInvariant, WorkerOK
      <3>2. worker'[k] = worker[k] /\ result'[k] = result[k]
        BY <2>2 DEF Steps
      <3> QED
        BY <1>1, <3>1, <3>2 DEF Knows, Has, Settled
    <2> QED
      BY <2>1, <2>2
  <1> QED
    BY <1>2, <1>3, <1>4, <1>5 DEF AddonsInvariant

\* A worker that looks something up, or has failed, vouches for nothing.
LEMMA QuietKnows ==
  ASSUME NEW i \in Positions,
         \/ worker'[i].at \in {"resolve", "current", "precheck", "update"} /\ result'[i] = ""
         \/ worker'[i].at = "idle" /\ result'[i] \in {"FAILED", "DRY_RUN"},
         worker'[i].at \in {"precheck", "update"} => work'[i] \in Addons,
         worker'[i].at = "update" => ~Has("dryRun")',
         result'[i] = "DRY_RUN" => Has("dryRun")'
  PROVE  Knows(i)'
  BY DEF Knows, Submitting

LEMMA ClusterVersionKept ==
  ASSUME AddonsInvariant, NEW i \in Positions, ClusterVersion(i) PROVE AddonsInvariant'
  <1>1. worker[i].at = "version" /\ UNCHANGED cloudVars /\ MainStill /\ UNCHANGED request
    BY DEF ClusterVersion, At, MainStill, mainVars
  <1>2. worker[i].at \in Started /\ worker[i].at \notin Submitting /\ worker[i] \in WorkerStates
    BY <1>1, Taken DEF Started, Submitting
  <1>3. faults \in Nat /\ known \in BOOLEAN
    BY DEF AddonsInvariant, TypeOK
  <1>4. CASE /\ IF known THEN NoFault ELSE Answered
             /\ known' = TRUE
             /\ Moves(i, [worker[i] EXCEPT !["at"] = "resolve", !["scoped"] = TRUE])
    <2> DEFINE w == [worker[i] EXCEPT !["at"] = "resolve", !["scoped"] = TRUE]
    <2>1. w \in WorkerStates /\ w.at = "resolve" /\ w.at \in Started
      BY <1>2 DEF WorkerStates, Started
    <2>2. faults' \in Nat /\ known' \in BOOLEAN
      BY <1>3, <1>4, FaultsCounted
    <2> HIDE DEF w
    <2>3. Steps(i) /\ worker'[i].at = "resolve" /\ result'[i] = ""
      BY <1>2, <1>4, <2>1, MovesSteps DEF w
    <2>4. Knows(i)'
      BY <2>3, QuietKnows
    <2> QED
      BY <1>1, <2>2, <2>3, <2>4, ReadStep
  <1>5. CASE ~known /\ CallFails /\ UNCHANGED known /\ Goto(i, "resolve")
    <2>1. faults' \in Nat /\ known' \in BOOLEAN
      BY <1>3, <1>5, FaultsCounted
    <2>2. Steps(i) /\ worker'[i].at = "resolve" /\ result'[i] = ""
      BY <1>2, <1>5, GotoSteps DEF Started
    <2>3. Knows(i)'
      BY <2>2, QuietKnows
    <2> QED
      BY <1>1, <2>1, <2>2, <2>3, ReadStep
  <1> QED
    BY <1>4, <1>5 DEF ClusterVersion

LEMMA ResolveVersionKept ==
  ASSUME AddonsInvariant, NEW i \in Positions, ResolveVersion(i) PROVE AddonsInvariant'
  <1> DEFINE latest == Newest(IF worker[i].scoped THEN Offered[Name(i)] ELSE Published[Name(i)])
             Takes(v) == Moves(i, [worker[i] EXCEPT !.at = "current", !.target = v])
  <1>1. /\ worker[i].at = "resolve" /\ UNCHANGED cloudVars /\ UNCHANGED known /\ MainStill
        /\ UNCHANGED request
    BY DEF ResolveVersion, At, MainStill, mainVars
  <1>2. /\ worker[i].at \in Started /\ worker[i].at \notin Submitting
        /\ worker[i] \in WorkerStates /\ work[i] \in Names
    BY <1>1, Taken DEF Started, Submitting
  <1>3. /\ faults \in Nat /\ known \in BOOLEAN /\ request \in Requests
        /\ request.version \in Versions
    BY DEF AddonsInvariant, TypeOK, Requests
  <1>4. latest \in Versions
    <2>1. Offered[work[i]] \in SUBSET Versions /\ Published[work[i]] \in SUBSET Versions
      BY <1>2, NumberAssumption
    <2> QED
      BY <2>1, NewestKnown DEF Name
  <1> HIDE DEF latest
  <1>5. \/ /\ faults' \in Nat /\ (Takes(latest) \/ Takes(request.version))
        \/ /\ faults' \in Nat /\ Ends(i, "FAILED")
    BY <1>3, FaultsCounted DEF ResolveVersion, latest
  <1>6. ASSUME NEW v \in Versions, Takes(v), faults' \in Nat PROVE AddonsInvariant'
    <2> DEFINE w == [worker[i] EXCEPT !["at"] = "current", !["target"] = v]
    <2>1. w \in WorkerStates /\ w.at = "current" /\ w.at \in Started
      BY <1>2 DEF WorkerStates, Started
    <2>2. Moves(i, w)
      BY <1>6
    <2> HIDE DEF w
    <2>3. Steps(i) /\ worker'[i].at = "current" /\ result'[i] = ""
      BY <1>2, <2>1, <2>2, MovesSteps
    <2>4. Knows(i)'
      BY <2>3, QuietKnows
    <2> QED
      BY <1>1, <1>3, <1>6, <2>3, <2>4, ReadStep
  <1>7. ASSUME Ends(i, "FAILED"), faults' \in Nat PROVE AddonsInvariant'
    <2>1. Steps(i) /\ worker'[i].at = "idle" /\ result'[i] = "FAILED"
      BY <1>2, <1>7, EndsSteps DEF Statuses
    <2>2. Knows(i)'
      BY <2>1, QuietKnows
    <2> QED
      BY <1>1, <1>3, <1>7, <2>1, <2>2, ReadStep
  <1> QED
    BY <1>3, <1>4, <1>5, <1>6, <1>7

\* Asked for a dry run, a worker stops short of the mutating call.
LEMMA SubmitsSteps ==
  ASSUME AddonsInvariant, NEW i \in Positions, worker[i].at \in {"current", "precheck"},
         work[i] \in Addons, Submits(i), MainStill
  PROVE  Steps(i) /\ Knows(i)'
  <1>1. worker[i].at \in Started /\ worker[i].at \notin Submitting
    BY DEF Started, Submitting
  <1>2. UNCHANGED <<request, work>>
    BY DEF MainStill, mainVars
  <1>3. CASE Has("dryRun")
    <2>1. Ends(i, "DRY_RUN")
      BY <1>3 DEF Submits
    <2>2. Steps(i) /\ worker'[i].at = "idle" /\ result'[i] = "DRY_RUN"
      BY <1>1, <2>1, EndsSteps DEF Statuses
    <2>3. Has("dryRun")'
      BY <1>2, <1>3 DEF Has
    <2> QED
      BY <2>2, <2>3, QuietKnows
  <1>4. CASE ~Has("dryRun")
    <2>1. Goto(i, "update")
      BY <1>4 DEF Submits
    <2>2. Steps(i) /\ worker'[i].at = "update" /\ result'[i] = ""
      BY <1>1, <2>1, GotoSteps DEF Started
    <2>3. ~Has("dryRun")' /\ work'[i] \in Addons
      BY <1>2, <1>4 DEF Has
    <2> QED
      BY <2>2, <2>3, QuietKnows
  <1> QED
    BY <1>3, <1>4

LEMMA FailedSteps ==
  ASSUME AddonsInvariant, NEW i \in Positions, worker[i].at \in Started, Ends(i, "FAILED")
  PROVE  Steps(i) /\ Knows(i)'
  <1>1. Steps(i) /\ worker'[i].at = "idle" /\ result'[i] = "FAILED"
    BY EndsSteps DEF Statuses
  <1> QED
    BY <1>1, QuietKnows

LEMMA DescribeCurrentKept ==
  ASSUME AddonsInvariant, NEW i \in Positions, DescribeCurrent(i) PROVE AddonsInvariant'
  <1>1. /\ worker[i].at = "current" /\ UNCHANGED cloudVars /\ UNCHANGED known /\ MainStill
        /\ UNCHANGED <<request, work>>
    BY DEF DescribeCurrent, At, MainStill, mainVars
  <1>2. worker[i].at \in Started /\ worker[i].at \notin Submitting /\ work[i] \in Names
    BY <1>1, Taken DEF Started, Submitting
  <1>3. faults \in Nat /\ known' \in BOOLEAN
    BY <1>1 DEF AddonsInvariant, TypeOK
  <1>4. faults' \in Nat
    BY <1>3, FaultsCounted DEF DescribeCurrent
  <1>5. Steps(i) /\ Knows(i)'
    <2>1. CASE work[i] # Absent /\ Has("healthCheck") /\ Goto(i, "precheck")
      <3>1. Steps(i) /\ worker'[i].at = "precheck" /\ result'[i] = ""
        BY <1>2, <2>1, GotoSteps DEF Started
      <3>2. work'[i] \in Addons
        BY <1>1, <1>2, <2>1 DEF Names
      <3> QED
        BY <3>1, <3>2, QuietKnows
    <2>2. CASE work[i] # Absent /\ Submits(i)
      <3>1. work[i] \in Addons
        BY <1>2, <2>2 DEF Names
      <3> QED
        BY <1>1, <2>2, <3>1, SubmitsSteps
    <2>3. CASE Ends(i, "FAILED")
      BY <1>2, <2>3, FailedSteps
    <2> QED
      BY <2>1, <2>2, <2>3 DEF DescribeCurrent, Name
  <1> QED
    BY <1>1, <1>3, <1>4, <1>5, ReadStep

LEMMA PreUpdateHealthCheckKept ==
  ASSUME AddonsInvariant, NEW i \in Positions, PreUpdateHealthCheck(i) PROVE AddonsInvariant'
  <1>1. /\ worker[i].at = "precheck" /\ UNCHANGED cloudVars /\ UNCHANGED known /\ MainStill
        /\ UNCHANGED <<request, work>>
    BY DEF PreUpdateHealthCheck, At, MainStill, mainVars
  <1>2. worker[i].at \in Started /\ work[i] \in Addons
    BY <1>1, Taken DEF Started, Knows
  <1>3. faults \in Nat /\ known' \in BOOLEAN
    BY <1>1 DEF AddonsInvariant, TypeOK
  <1>4. faults' \in Nat
    BY <1>3, FaultsCounted DEF PreUpdateHealthCheck
  <1>5. Steps(i) /\ Knows(i)'
    <2>1. CASE Submits(i)
      BY <1>1, <1>2, <2>1, SubmitsSteps
    <2>2. CASE Ends(i, "FAILED")
      BY <1>2, <2>2, FailedSteps
    <2> QED
      BY <2>1, <2>2 DEF PreUpdateHealthCheck
  <1> QED
    BY <1>1, <1>3, <1>4, <1>5, ReadStep

\* The wait ends: the update is over, and well unless somebody else's took its place.
LEMMA WaitForAddonUpdateKept ==
  ASSUME AddonsInvariant, NEW i \in Positions, WaitForAddonUpdate(i) PROVE AddonsInvariant'
  <1>1. /\ worker[i].at = "wait" /\ UNCHANGED cloudVars /\ UNCHANGED known /\ MainStill
        /\ UNCHANGED <<request, work, addon, mine, others>>
    BY DEF WaitForAddonUpdate, At, MainStill, mainVars, cloudVars
  <1>2. /\ worker[i].at \in Started /\ worker[i].at \in Submitting
        /\ work[i] \in Addons /\ Has("wait") /\ mine[work[i]] # "none" /\ ~Has("dryRun")
    BY <1>1, Taken DEF Started, Submitting, Knows
  <1>3. faults \in Nat /\ known' \in BOOLEAN
    BY <1>1 DEF AddonsInvariant, TypeOK
  <1>4. faults' \in Nat
    BY <1>3, FaultsCounted DEF WaitForAddonUpdate
  <1>5. Steps(i) /\ Knows(i)'
    <2>1. CASE EndsWell(addon[Name(i)].status) /\ Goto(i, "verify")
      <3>1. Steps(i) /\ worker'[i].at = "verify" /\ result'[i] = ""
        BY <1>2, <2>1, GotoSteps DEF Started, Submitting
      <3>2. addon[work[i]].status = "ACTIVE"
        BY <2>1 DEF EndsWell, Name
      <3>3. /\ mine[work[i]] \in {"none", "InProgress", "Successful", "Failed"}
            /\ mine[work[i]] = "InProgress" => addon[work[i]].status = "UPDATING"
            /\ mine[work[i]] = "Failed" /\ work[i] \notin others =>
                 addon[work[i]].status = "UPDATE_FAILED"
        BY <1>2 DEF AddonsInvariant, TypeOK, CloudOK
      <3>4. Settled(work[i])
        BY <1>2, <3>2, <3>3 DEF Settled
      <3> QED
        BY <1>1, <1>2, <3>1, <3>4 DEF Knows, Has, Settled, Submitting
    <2>2. CASE Ends(i, "FAILED")
      BY <1>2, <2>2, FailedSteps
    <2> QED
      BY <2>1, <2>2 DEF WaitForAddonUpdate
  <1> QED
    BY <1>1, <1>3, <1>4, <1>5, ReadStep

LEMMA PostUpdateHealthCheckKept ==
  ASSUME AddonsInvariant, NEW i \in Positions, PostUpdateHealthCheck(i) PROVE AddonsInvariant'
  <1>1. /\ worker[i].at = "verify" /\ UNCHANGED cloudVars /\ UNCHANGED known /\ MainStill
        /\ UNCHANGED <<request, work, addon, mine, others>>
    BY DEF PostUpdateHealthCheck, At, MainStill, mainVars, cloudVars
  <1>2. worker[i].at \in Started /\ Settled(work[i])
    BY <1>1, Taken DEF Started, Knows
  <1>3. faults \in Nat /\ known' \in BOOLEAN
    BY <1>1 DEF AddonsInvariant, TypeOK
  <1>4. faults' \in Nat
    BY <1>3, FaultsCounted DEF PostUpdateHealthCheck
  <1>5. \/ Ends(i, "COMPLETED")
        \/ Ends(i, "COMPLETED_WITH_ISSUES")
    BY DEF PostUpdateHealthCheck
  <1>6. /\ Steps(i) /\ worker'[i].at = "idle"
        /\ result'[i] \in {"COMPLETED", "COMPLETED_WITH_ISSUES"}
    <2>1. \A s \in {"COMPLETED", "COMPLETED_WITH_ISSUES"} : s \in Statuses \ {""}
      BY DEF Statuses
    <2> QED
      BY <1>2, <1>5, <2>1, EndsSteps
  <1>7. Knows(i)'
    BY <1>1, <1>2, <1>6 DEF Knows, Settled, Submitting
  <1> QED
    BY <1>1, <1>3, <1>4, <1>6, <1>7, ReadStep

\* UpdateAddon was answered, or is tried again, or given up.
LEMMA AfterSteps ==
  ASSUME AddonsInvariant, NEW i \in Positions, worker[i].at = "update", AfterUpdate(i)
  PROVE  /\ Steps(i)
         /\ \/ Has("wait") /\ worker'[i].at = "wait" /\ result'[i] = ""
            \/ ~Has("wait") /\ worker'[i].at = "idle" /\ result'[i] = "STARTED"
  <1>1. worker[i].at \in Started
    BY DEF Started
  <1>2. CASE Has("wait")
    <2> DEFINE w == [Idle EXCEPT !["at"] = "wait"]
    <2>1. w \in WorkerStates /\ w.at = "wait" /\ w.at \in Started /\ w.at \in Submitting
      BY IdleTyped DEF WorkerStates, Started, Submitting
    <2>2. Moves(i, w)
      BY <1>2 DEF AfterUpdate
    <2> HIDE DEF w
    <2>3. Steps(i) /\ worker'[i] = w /\ result'[i] = ""
      BY <1>1, <2>1, <2>2, MovesSteps
    <2> QED
      BY <1>2, <2>1, <2>3
  <1>3. CASE ~Has("wait")
    <2>1. Ends(i, "STARTED")
      BY <1>3 DEF AfterUpdate
    <2> QED
      BY <1>1, <1>3, <2>1, EndsSteps DEF Statuses
  <1> QED
    BY <1>2, <1>3

LEMMA TriesSteps ==
  ASSUME AddonsInvariant, NEW i \in Positions, worker[i].at = "update", MainStill,
         TriesAgain(i) \/ Ends(i, "FAILED")
  PROVE  Steps(i) /\ Knows(i)'
  <1>1. /\ worker[i].at \in Started /\ work[i] \in Addons /\ ~Has("dryRun")
        /\ worker[i] \in WorkerStates
    <2>1. worker[i].at \in Started
      BY DEF Started
    <2> QED
      BY <2>1, Taken DEF Submitting, Knows
  <1>2. UNCHANGED <<request, work>>
    BY DEF MainStill, mainVars
  <1>3. CASE Ends(i, "FAILED")
    BY <1>1, <1>3, FailedSteps
  <1>4. CASE /\ worker[i].attempt # MaxAttempts
             /\ Moves(i, [worker[i] EXCEPT !["attempt"] = worker[i].attempt + 1])
    <2> DEFINE w == [worker[i] EXCEPT !["attempt"] = worker[i].attempt + 1]
    <2>1. worker[i].attempt \in 1 .. MaxAttempts /\ MaxAttempts \in Nat
      BY <1>1, NumberAssumption DEF WorkerStates
    <2>2. \A n, m \in Nat : n \in 1 .. m /\ n # m => n + 1 \in 1 .. m
      OBVIOUS
    <2>3. worker[i].attempt \in Nat
      BY <2>1
    <2>4. worker[i].attempt + 1 \in 1 .. MaxAttempts
      BY <1>4, <2>1, <2>2, <2>3
    <2>5. w \in WorkerStates /\ w.at = "update" /\ w.at \in Started /\ w.at \in Submitting
      BY <1>1, <2>4 DEF WorkerStates, Started, Submitting
    <2> HIDE DEF w
    <2>6. Steps(i) /\ worker'[i] = w /\ result'[i] = ""
      BY <1>1, <1>4, <2>5, MovesSteps DEF w
    <2>7. worker'[i].at = "update" /\ work'[i] \in Addons /\ ~Has("dryRun")'
      BY <1>1, <1>2, <2>5, <2>6 DEF Has
    <2> QED
      BY <2>6, <2>7, QuietKnows
  <1>5. \/ Ends(i, "FAILED")
        \/ /\ worker[i].attempt # MaxAttempts
           /\ Moves(i, [worker[i] EXCEPT !["attempt"] = worker[i].attempt + 1])
    BY DEF TriesAgain
  <1> QED
    BY <1>3, <1>4, <1>5

\* A list names one add-on, so one worker owns it.
LEMMA OneOwner ==
  ASSUME AddonsInvariant, NEW i \in 1 .. Len(work), NEW k \in 1 .. Len(work),
         work[i] \in Addons, work[k] = work[i]
  PROVE  k = i
  <1>1. Listed(work) /\ work[i] # Absent
    BY AddonAssumption DEF AddonsInvariant, ListOK
  <1> QED
    BY <1>1 DEF Listed

\* EKS takes the update: the add-on's only one from this process.
LEMMA ApplyStep ==
  ASSUME AddonsInvariant, NEW i \in Positions, worker[i].at = "update", Steps(i), MainStill,
         Apply(i), ~IsReplay(Name(i)), Accepts(i), faults' \in Nat, UNCHANGED known,
         mine'[work[i]] = "InProgress" => Knows(i)'
  PROVE  AddonsInvariant'
  <1> DEFINE a == work[i]
  <1>1. UNCHANGED <<pc, request, work, next, exit, ctx, others>>
    BY DEF MainStill, mainVars
  <1>2. /\ worker[i].at \in Started /\ a \in Addons /\ ~Has("dryRun")
        /\ worker[i] \in WorkerStates /\ i < next /\ i \in 1 .. Len(work)
    <2>1. worker[i].at \in Started
      BY DEF Started
    <2> QED
      BY <2>1, Taken DEF Submitting, Knows
  <1>3. /\ addon \in [Addons -> AddonStates] /\ applied \in [Addons -> Nat]
        /\ mine \in [Addons -> {"none", "InProgress", "Successful", "Failed"}]
        /\ worker[i].target \in Versions /\ known \in BOOLEAN
    BY <1>2 DEF AddonsInvariant, TypeOK, WorkerStates
  <1>4. mine[a] = "none" /\ applied[a] = 0
    BY <1>2 DEF IsReplay, Name, AddonsInvariant, CloudOK
  <1>5. /\ addon' = [addon EXCEPT ![a]["status"] = "UPDATING", ![a]["to"] = worker[i].target]
        /\ mine' = [mine EXCEPT ![a] = "InProgress"]
        /\ applied' = [applied EXCEPT ![a] = applied[a] + 1]
    BY DEF Apply, Name
  <1> HIDE DEF a
  <1>6. /\ addon' \in [Addons -> AddonStates] /\ addon'[a].status = "UPDATING"
        /\ \A b \in Addons \ {a} : addon'[b] = addon[b]
    <2>1. addon[a] \in AddonStates
      BY <1>2, <1>3
    <2>2. addon' = [addon EXCEPT ![a] = [addon[a] EXCEPT !["status"] = "UPDATING",
                                                        !["to"] = worker[i].target]]
      BY <1>2, <1>3, <1>5 DEF AddonStates
    <2>3. [addon[a] EXCEPT !["status"] = "UPDATING", !["to"] = worker[i].target] \in AddonStates
      BY <1>3, <2>1 DEF AddonStates
    <2>4. [addon[a] EXCEPT !["status"] = "UPDATING", !["to"] = worker[i].target].status = "UPDATING"
      BY <2>1 DEF AddonStates
    <2> QED
      BY <1>2, <1>3, <2>2, <2>3, <2>4
  <1>7. /\ mine' \in [Addons -> {"none", "InProgress", "Successful", "Failed"}]
        /\ mine'[a] = "InProgress" /\ \A b \in Addons \ {a} : mine'[b] = mine[b]
    BY <1>2, <1>3, <1>5
  <1>8. /\ applied' \in [Addons -> Nat] /\ applied'[a] = 1
        /\ \A b \in Addons \ {a} : applied'[b] = applied[b]
    BY <1>2, <1>3, <1>4, <1>5
  <1>9. TypeOK' /\ ListOK' /\ LoopOK' /\ ExitOK'
    BY <1>1, <1>3, <1>6, <1>7, <1>8, StepsKeep
  <1>10. CloudOK'
    <2> SUFFICES ASSUME NEW b \in Addons
                 PROVE  /\ applied'[b] = IF mine'[b] = "none" THEN 0 ELSE 1
                        /\ mine'[b] = "InProgress" => addon'[b].status = "UPDATING"
                        /\ mine'[b] = "Failed" /\ b \notin others =>
                             addon'[b].status = "UPDATE_FAILED"
      BY <1>1 DEF CloudOK
    <2>1. CASE b = a
      BY <1>6, <1>7, <1>8, <2>1
    <2>2. CASE b # a
      BY <1>6, <1>7, <1>8, <2>2 DEF AddonsInvariant, CloudOK
    <2> QED
      BY <2>1, <2>2
  <1>11. OwnerOK'
    <2> SUFFICES ASSUME NEW b \in Addons, mine'[b] # "none"
                 PROVE  \E k \in 1 .. Len(work) : k < next /\ work[k] = b
                                /\ worker'[k].at \in Submitting \cup {"idle"}
      BY <1>1, <1>2 DEF OwnerOK, Has
    <2>1. worker'[i].at \in Submitting \cup {"idle"}
      BY DEF Steps, Submitting
    <2>2. CASE b = a
      BY <1>2, <2>1, <2>2 DEF a
    <2>3. CASE b # a
      <3>1. mine[b] # "none"
        BY <1>7, <2>3
      <3>2. PICK k \in 1 .. Len(work) :
              k < next /\ work[k] = b /\ worker[k].at \in Submitting \cup {"idle"}
        BY <3>1 DEF AddonsInvariant, OwnerOK
      <3>3. k \in Positions /\ k # i
        BY <2>3, <3>2, PositionsFinite DEF AddonsInvariant, TypeOK, Positions, a
      <3> QED
        BY <3>2, <3>3 DEF Steps
    <2> QED
      BY <2>2, <2>3
  <1>12. WorkerOK'
    <2> SUFFICES ASSUME NEW k \in Positions, k < next PROVE Knows(k)'
      BY <1>1 DEF WorkerOK
    <2>1. CASE k = i
      BY <1>7, <2>1 DEF a
    <2>2. CASE k # i
      <3>1. Knows(k)
        BY DEF AddonsInvariant, WorkerOK
      <3>2. worker'[k] = worker[k] /\ result'[k] = result[k]
        BY <2>2 DEF Steps
      <3>3. k \in 1 .. Len(work)
        <4>1. /\ Len(work) \in Nat /\ next \in 1 .. Len(work) + 1
          BY DEF AddonsInvariant, TypeOK
        <4>2. k \in Nat /\ 1 <= k
          BY PositionsFinite DEF Positions
        <4> QED
          BY <4>1, <4>2
      <3>4. work[k] \in Addons => mine'[work[k]] = mine[work[k]]
        <4>1. work[k] \in Addons => work[k] # a
          BY <1>2, <2>2, <3>3, OneOwner DEF a
        <4> QED
          BY <1>7, <4>1
      <3> QED
        BY <1>1, <3>1, <3>2, <3>4 DEF Knows, Has, Settled, Submitting
    <2> QED
      BY <2>1, <2>2
  <1> QED
    BY <1>9, <1>10, <1>11, <1>12 DEF AddonsInvariant

LEMMA UpdateAddonKept ==
  ASSUME AddonsInvariant, NEW i \in Positions, UpdateAddon(i) PROVE AddonsInvariant'
  <1>1. /\ worker[i].at = "update" /\ UNCHANGED known /\ MainStill
        /\ UNCHANGED <<request, work, others>>
    BY DEF UpdateAddon, At, MainStill, mainVars
  <1>2. worker[i].at \in Started /\ work[i] \in Addons /\ ~Has("dryRun")
    <2>1. worker[i].at \in Started
      BY <1>1 DEF Started
    <2> QED
      BY <1>1, <2>1, Taken DEF Submitting, Knows
  <1>3. faults \in Nat /\ known' \in BOOLEAN
    BY <1>1 DEF AddonsInvariant, TypeOK
  <1>4. faults' \in Nat
    BY <1>3, FaultsCounted DEF UpdateAddon
  <1>5. CASE IsReplay(Name(i)) /\ AfterUpdate(i) /\ UNCHANGED cloudVars
    <2>1. mine[work[i]] # "none" /\ mine' = mine
      BY <1>5 DEF IsReplay, Name, cloudVars
    <2>2. /\ Steps(i)
          /\ \/ Has("wait") /\ worker'[i].at = "wait" /\ result'[i] = ""
             \/ ~Has("wait") /\ worker'[i].at = "idle" /\ result'[i] = "STARTED"
      BY <1>1, <1>5, AfterSteps
    <2>3. Knows(i)'
      BY <1>1, <1>2, <2>1, <2>2 DEF Knows, Has, Submitting
    <2> QED
      BY <1>1, <1>3, <1>4, <1>5, <2>2, <2>3, ReadStep
  <1>6. CASE ~IsReplay(Name(i)) /\ Accepts(i) /\ Apply(i) /\ AfterUpdate(i)
    <2>1. /\ Steps(i)
          /\ \/ Has("wait") /\ worker'[i].at = "wait" /\ result'[i] = ""
             \/ ~Has("wait") /\ worker'[i].at = "idle" /\ result'[i] = "STARTED"
      BY <1>1, <1>6, AfterSteps
    <2>2. mine'[work[i]] = "InProgress" => Knows(i)'
      BY <1>1, <1>2, <2>1 DEF Knows, Has, Submitting
    <2> QED
      BY <1>1, <1>4, <1>6, <2>1, <2>2, ApplyStep
  <1>7. CASE (TriesAgain(i) \/ Ends(i, "FAILED")) /\ UNCHANGED cloudVars
    BY <1>1, <1>3, <1>4, <1>7, TriesSteps, ReadStep
  <1>8. CASE /\ ~IsReplay(Name(i)) /\ Accepts(i) /\ Apply(i)
             /\ TriesAgain(i) \/ Ends(i, "FAILED")
    BY <1>1, <1>4, <1>8, TriesSteps, ApplyStep
  <1> QED
    BY <1>5, <1>6, <1>7, <1>8 DEF UpdateAddon

LEMMA WorkerKept ==
  ASSUME AddonsInvariant, NEW i \in Positions, WorkerNext(i) PROVE AddonsInvariant'
  BY ClusterVersionKept, ResolveVersionKept, DescribeCurrentKept, PreUpdateHealthCheckKept,
     UpdateAddonKept, WaitForAddonUpdateKept, PostUpdateHealthCheckKept DEF WorkerNext

--------------------------------------------------------------------------------
(* Steps of EKS and of other people. *)

\* They end updates and start others of their own, which they may do at any time.
LEMMA CloudStep ==
  ASSUME AddonsInvariant, RunStill, UNCHANGED applied, faults' \in Nat,
         addon' \in [Addons -> AddonStates], others \subseteq others', others' \subseteq Addons,
         mine' \in [Addons -> {"none", "InProgress", "Successful", "Failed"}],
         \A a \in Addons : mine[a] # "InProgress" => mine'[a] = mine[a],
         \A a \in Addons : mine[a] = "InProgress" => mine'[a] # "none",
         \A a \in Addons : mine'[a] = "InProgress" => addon'[a].status = "UPDATING",
         \A a \in Addons : mine'[a] = "Failed" /\ a \notin others' =>
                             addon'[a].status = "UPDATE_FAILED"
  PROVE  AddonsInvariant'
  <1>1. UNCHANGED <<pc, request, work, next, exit, ctx, known, worker, result>>
    BY DEF RunStill, mainVars, workVars
  <1>2. TypeOK' /\ ListOK'
    BY <1>1 DEF AddonsInvariant, TypeOK, ListOK, Listed, Ordered, Has
  <1>3. LoopOK' /\ ExitOK'
    <2>1. Running' = Running
      BY <1>1, RunningStill
    <2> QED
      BY <1>1, <2>1 DEF AddonsInvariant, LoopOK, ExitOK, Has
  <1>4. \A a \in Addons : mine'[a] = "none" <=> mine[a] = "none"
    BY DEF AddonsInvariant, TypeOK
  <1>5. CloudOK'
    BY <1>4 DEF AddonsInvariant, CloudOK
  <1>6. OwnerOK'
    BY <1>1, <1>4 DEF AddonsInvariant, OwnerOK, Has
  <1>7. WorkerOK'
    <2> SUFFICES ASSUME NEW i \in Positions, i < next PROVE Knows(i)'
      BY <1>1 DEF WorkerOK
    <2>1. Knows(i)
      BY DEF AddonsInvariant, WorkerOK
    <2>2. Settled(work[i]) => Settled(work[i])'
      BY <1>1 DEF Settled
    <2>3. worker[i].at \in {"wait", "verify"} => work[i] \in Addons
      BY <2>1 DEF Knows, Submitting
    <2> QED
      BY <1>1, <1>4, <2>1, <2>2, <2>3 DEF Knows, Has
  <1> QED
    BY <1>2, <1>3, <1>5, <1>6, <1>7 DEF AddonsInvariant

\* EKS ends an update, its own verdict on it included.
LEMMA FinishesKept ==
  ASSUME AddonsInvariant, NEW a \in Addons, NEW state \in AddonStates,
         NEW verdict \in {"Successful", "Failed"}, Finishes(a, state, verdict), faults' \in Nat,
         verdict = "Failed" => state.status = "UPDATE_FAILED"
  PROVE  AddonsInvariant'
  <1>1. /\ addon[a].status = "UPDATING" /\ addon' = [addon EXCEPT ![a] = state]
        /\ mine' = [mine EXCEPT ![a] = IF mine[a] = "InProgress" THEN verdict ELSE mine[a]]
        /\ UNCHANGED <<applied, others>> /\ RunStill
    BY DEF Finishes
  <1>2. /\ addon \in [Addons -> AddonStates] /\ others \subseteq Addons
        /\ mine \in [Addons -> {"none", "InProgress", "Successful", "Failed"}]
    BY DEF AddonsInvariant, TypeOK
  <1>3. /\ addon' \in [Addons -> AddonStates] /\ addon'[a] = state
        /\ \A b \in Addons \ {a} : addon'[b] = addon[b]
    BY <1>1, <1>2
  <1>4. /\ mine' \in [Addons -> {"none", "InProgress", "Successful", "Failed"}]
        /\ mine'[a] = IF mine[a] = "InProgress" THEN verdict ELSE mine[a]
        /\ \A b \in Addons \ {a} : mine'[b] = mine[b]
    BY <1>1, <1>2
  <1>5. ASSUME NEW b \in Addons
        PROVE  /\ mine'[b] = "InProgress" => addon'[b].status = "UPDATING"
               /\ mine'[b] = "Failed" /\ b \notin others => addon'[b].status = "UPDATE_FAILED"
    <2>1. /\ mine[b] = "InProgress" => addon[b].status = "UPDATING"
          /\ mine[b] = "Failed" /\ b \notin others => addon[b].status = "UPDATE_FAILED"
      BY DEF AddonsInvariant, CloudOK
    <2>2. CASE b = a
      BY <1>1, <1>3, <1>4, <2>1, <2>2
    <2>3. CASE b # a
      BY <1>3, <1>4, <2>1, <2>3
    <2> QED
      BY <2>2, <2>3
  <1>6. \A b \in Addons : /\ mine[b] # "InProgress" => mine'[b] = mine[b]
                          /\ mine[b] = "InProgress" => mine'[b] # "none"
    BY <1>4
  <1> QED
    BY <1>1, <1>2, <1>3, <1>4, <1>5, <1>6, CloudStep

LEMMA CloudKept == ASSUME AddonsInvariant, CloudNext PROVE AddonsInvariant'
  <1>1. PICK a \in Addons :
          AddonUpdateSucceeds(a) \/ AddonUpdateFails(a) \/ SomebodyElseUpdates(a)
    BY DEF CloudNext
  <1>2. /\ addon \in [Addons -> AddonStates] /\ others \subseteq Addons /\ faults \in Nat
        /\ mine \in [Addons -> {"none", "InProgress", "Successful", "Failed"}]
    BY DEF AddonsInvariant, TypeOK
  <1>3. addon[a] \in AddonStates /\ addon[a].version \in Versions /\ addon[a].to \in Versions
    BY <1>2 DEF AddonStates
  <1>4. CASE AddonUpdateSucceeds(a)
    <2>1. PICK status \in {"ACTIVE", "DEGRADED"}, healthy \in BOOLEAN :
            /\ IF healthy THEN status = "ACTIVE" /\ NoFault ELSE Fault("unhealthy")
            /\ Finishes(a, [version |-> addon[a].to, to |-> addon[a].to, status |-> status,
                            healthy |-> healthy], "Successful")
      BY <1>4 DEF AddonUpdateSucceeds
    <2>2. faults' \in Nat
      BY <1>2, <2>1, FaultsCounted
    <2>3. [version |-> addon[a].to, to |-> addon[a].to, status |-> status, healthy |-> healthy]
            \in AddonStates
      BY <1>3 DEF AddonStates
    <2> QED
      BY <2>1, <2>2, <2>3, FinishesKept
  <1>5. CASE AddonUpdateFails(a)
    <2> DEFINE state == [addon[a] EXCEPT !["to"] = addon[a].version, !["status"] = "UPDATE_FAILED"]
    <2>1. Fault("update fails") /\ Finishes(a, state, "Failed")
      BY <1>5 DEF AddonUpdateFails
    <2>2. faults' \in Nat
      BY <1>2, <2>1, FaultsCounted
    <2>3. state \in AddonStates /\ state.status = "UPDATE_FAILED"
      BY <1>3 DEF AddonStates
    <2> HIDE DEF state
    <2> QED
      BY <2>1, <2>2, <2>3, FinishesKept
  <1>6. CASE SomebodyElseUpdates(a)
    <2>1. PICK v \in Offered[a] :
            addon' = [addon EXCEPT ![a]["status"] = "UPDATING", ![a]["to"] = v]
      BY <1>6 DEF SomebodyElseUpdates
    <2>2. /\ Fault("somebody else updates") /\ addon[a].status # "UPDATING"
          /\ others' = others \cup {a} /\ UNCHANGED <<mine, applied>> /\ RunStill
      BY <1>6 DEF SomebodyElseUpdates
    <2>3. faults' \in Nat
      BY <1>2, <2>2, FaultsCounted
    <2>4. v \in Versions
      BY <2>1, NumberAssumption DEF Names
    <2>5. /\ addon' \in [Addons -> AddonStates] /\ addon'[a].status = "UPDATING"
          /\ \A b \in Addons \ {a} : addon'[b] = addon[b]
      <3>1. [addon[a] EXCEPT !["status"] = "UPDATING", !["to"] = v] \in AddonStates
        BY <1>3, <2>4 DEF AddonStates
      <3>2. [addon[a] EXCEPT !["status"] = "UPDATING", !["to"] = v].status = "UPDATING"
        BY <1>3 DEF AddonStates
      <3>3. addon' = [addon EXCEPT ![a] = [addon[a] EXCEPT !["status"] = "UPDATING", !["to"] = v]]
        BY <1>2, <1>3, <2>1 DEF AddonStates
      <3> QED
        BY <1>2, <3>1, <3>2, <3>3
    <2>6. ASSUME NEW b \in Addons
          PROVE  /\ mine'[b] = "InProgress" => addon'[b].status = "UPDATING"
                 /\ mine'[b] = "Failed" /\ b \notin others' => addon'[b].status = "UPDATE_FAILED"
      <3>1. /\ mine[b] = "InProgress" => addon[b].status = "UPDATING"
            /\ mine[b] = "Failed" /\ b \notin others => addon[b].status = "UPDATE_FAILED"
        BY DEF AddonsInvariant, CloudOK
      <3> QED
        BY <2>2, <2>5, <3>1
    <2> QED
      BY <1>2, <2>2, <2>3, <2>5, <2>6, CloudStep
  <1> QED
    BY <1>1, <1>4, <1>5, <1>6

--------------------------------------------------------------------------------
(* The theorems. *)

LEMMA StepKept == ASSUME AddonsInvariant, [Next]_vars PROVE AddonsInvariant'
  BY LaunchKept, ListAddonsKept, ListSummariesKept, DispatchKept, DispatchEndsKept, JoinKept,
     ContextDoneKept, WorkerKept, CloudKept, Stutter DEF Next, MainNext

\* The inductive invariant of a run of `refresh addon update`.
THEOREM AddonsCorrect == Spec => []AddonsInvariant
  <1>1. Init => AddonsInvariant
    BY InitInvariant
  <1>2. AddonsInvariant /\ [Next]_vars => AddonsInvariant'
    BY StepKept
  <1> QED
    BY <1>1, <1>2, PTL DEF Spec

\* The order sortByDependency answers with is safe, whatever the order of the listing.
THEOREM OrderCorrect == Spec => []OrderIsSafe
  <1>1. ASSUME AddonsInvariant PROVE OrderIsSafe
    <2> SUFFICES ASSUME Has("dependencyOrder"), pc \in {"dispatch", "join"}
                 PROVE  /\ Absent \notin ToSet(work) => ToSet(work) = Addons \ request.skip
                        /\ \A i, j \in DOMAIN work :
                             i < j /\ work[i] # Absent =>
                               work[j] \notin DependsOn[work[i]] \cup {work[i]}
      BY DEF OrderIsSafe
    <2>1. ListOK /\ work \in Seq(Names) /\ request \in Invocations
      BY <1>1 DEF AddonsInvariant, ListOK, Listed
    <2>2. DOMAIN work = 1 .. Len(work)
      BY <2>1
    <2>3. Ordered(work)
      BY <2>1 DEF ListOK
    <2>4. Has("all")
      BY <2>1, RequestAssumption DEF Has
    <2> QED
      BY <2>1, <2>2, <2>3, <2>4 DEF ListOK, Ordered
  <1> QED
    BY <1>1, AddonsCorrect, PTL

\* EKS accepts at most one update of an add-on from this process: the token of Update makes
\* every retry a replay.
THEOREM AppliedCorrect == Spec => []AppliedOnce
  <1>1. ASSUME AddonsInvariant PROVE AppliedOnce
    BY <1>1 DEF AddonsInvariant, CloudOK, AppliedOnce
  <1> QED
    BY <1>1, AddonsCorrect, PTL

\* With --dependency-order and --wait, an add-on's update is submitted only when those of
\* the add-ons it depends on are over or have been reported failed.
THEOREM DependenciesCorrect == Spec => []DependenciesSettled
  <1>1. ASSUME AddonsInvariant PROVE DependenciesSettled
    <2> SUFFICES ASSUME {"all", "dependencyOrder", "wait"} \subseteq request.switches,
                        NEW i \in DOMAIN work, NEW j \in DOMAIN work,
                        Absent \notin {work[i], work[j]}, work[j] \in DependsOn[work[i]],
                        mine[work[i]] # "none"
                 PROVE  result[j] # "" /\ (mine[work[j]] = "InProgress" => result[j] = "FAILED")
      BY DEF DependenciesSettled
    <2>1. /\ TypeOK /\ ListOK /\ LoopOK /\ OwnerOK /\ WorkerOK
          /\ work \in Seq(Names) /\ request \in Invocations
      BY <1>1 DEF AddonsInvariant, ListOK, Listed
    <2>2. /\ i \in 1 .. Len(work) /\ j \in 1 .. Len(work) /\ i \in Positions /\ j \in Positions
          /\ work[i] \in Addons /\ work[j] \in Addons
      <3>1. DOMAIN work = 1 .. Len(work) /\ Len(work) \in Nat
        BY <2>1
      <3>2. Len(work) <= Cardinality(Names)
        BY <2>1 DEF TypeOK
      <3>3. i \in Positions /\ j \in Positions
        BY <3>1, <3>2, PositionsFinite DEF Positions
      <3>4. work[i] \in Names /\ work[j] \in Names
        BY <2>1, <3>1
      <3> QED
        BY <3>1, <3>3, <3>4 DEF Names
    <2>3. Has("wait") /\ Has("dependencyOrder") /\ ~Has("parallel")
      BY <2>1, RequestAssumption DEF Has
    <2>4. i < next
      <3>1. PICK k \in 1 .. Len(work) : k < next /\ work[k] = work[i]
        BY <2>1, <2>2 DEF OwnerOK
      <3>2. k = i
        BY <1>1, <2>2, <3>1, OneOwner
      <3> QED
        BY <3>1, <3>2
    <2>5. pc # "describe"
      <3>1. pc = "describe" => next = 1
        BY <2>1 DEF LoopOK
      <3> QED
        BY <2>2, <2>4, <3>1
    <2>6. j < i
      <3>1. Ordered(work) /\ work[i] # Absent
        BY <2>1, <2>3, <2>5 DEF ListOK
      <3>2. ~(i < j)
        BY <2>2, <3>1 DEF Ordered
      <3>3. i # j
        <4>1. PICK rank \in [Addons -> 0 .. Cardinality(Addons)] :
                \A a \in Addons : \A b \in DependsOn[a] : rank[b] < rank[a]
          BY AddonAssumption
        <4>2. rank[work[j]] < rank[work[i]] /\ rank[work[i]] \in Nat
          BY <2>2, <4>1, PositionsFinite
        <4> QED
          BY <4>2
      <3> QED
        BY <2>2, <3>2, <3>3
    <2>7. j < next /\ j # next - 1
      <3>1. i \in Nat /\ j \in Nat /\ next \in Nat
        BY <2>1, <2>2 DEF TypeOK
      <3> QED
        BY <2>4, <2>6, <3>1
    <2>8. result[j] # ""
      <3>1. j \notin Running
        BY <2>1, <2>3, <2>7 DEF LoopOK
      <3>2. worker[j].at = "idle"
        BY <2>1, <2>2, <3>1 DEF Running, TypeOK
      <3> QED
        BY <2>1, <2>2, <2>7, <3>2 DEF LoopOK
    <2>9. mine[work[j]] = "InProgress" => result[j] = "FAILED"
      <3>1. /\ result[j] \in Statuses /\ Knows(j) /\ ~Has("dryRun")
        BY <2>1, <2>2, <2>7 DEF TypeOK, WorkerOK, OwnerOK
      <3> QED
        BY <2>3, <2>8, <3>1 DEF Knows, Settled, Statuses
    <2> QED
      BY <2>8, <2>9
  <1> QED
    BY <1>1, AddonsCorrect, PTL

\* Exit code 0 of a run that was not interrupted vouches for every add-on asked for.
THEOREM SuccessCorrect == Spec => []SuccessMeansUpdated
  <1>1. ASSUME AddonsInvariant PROVE SuccessMeansUpdated
    <2> SUFFICES ASSUME exit = 0, ctx = "live", ~Has("dryRun"),
                        NEW a \in IF Has("all") THEN Addons \ request.skip ELSE {request.addon}
                 PROVE  /\ a \in Addons
                        /\ IF Has("wait") THEN mine[a] = "Successful" \/ a \in others
                                          ELSE mine[a] # "none"
      BY DEF SuccessMeansUpdated
    <2>1. TypeOK /\ ListOK /\ LoopOK /\ ExitOK /\ WorkerOK /\ work \in Seq(Names)
      BY <1>1 DEF AddonsInvariant, TypeOK
    <2>2. PICK i \in 1 .. Len(work) : work[i] = a
      <3>1. CASE Has("all")
        <4>1. ToSet(work) = Addons \ request.skip
          BY <2>1, <3>1 DEF ListOK
        <4>2. a \in ToSet(work)
          BY <3>1, <4>1
        <4> QED
          BY <2>1, <4>2, Held
      <3>2. CASE ~Has("all")
        <4>1. work = <<request.addon>> /\ a = request.addon
          BY <2>1, <3>2 DEF ListOK
        <4>2. Len(work) = 1 /\ work[1] = a
          BY <4>1
        <4>3. 1 \in 1 .. Len(work)
          BY <4>2
        <4> QED
          BY <4>2, <4>3
      <3> QED
        BY <3>1, <3>2
    <2>3. i \in Positions /\ i < next
      <3>1. Len(work) \in Nat /\ Len(work) <= Cardinality(Names)
        BY <2>1 DEF TypeOK
      <3>2. next = Len(work) + 1
        BY <2>1 DEF ExitOK
      <3>3. i \in Positions
        BY <3>1, PositionsFinite DEF Positions
      <3>4. i < next
        BY <3>1, <3>2
      <3> QED
        BY <3>3, <3>4
    <2>4. result[i] \in Statuses \ {"", "FAILED"}
      <3>1. i \notin Running
        BY <2>1 DEF ExitOK, NoExit
      <3>2. worker[i].at = "idle"
        BY <2>1, <2>3, <3>1 DEF Running, TypeOK
      <3>3. result[i] # ""
        BY <2>1, <2>3, <3>2 DEF LoopOK
      <3>4. result[i] \in Statuses /\ result[i] # "FAILED"
        BY <2>1, <2>3 DEF TypeOK, ExitOK
      <3> QED
        BY <3>3, <3>4
    <2>5. Knows(i)
      BY <2>1, <2>3 DEF WorkerOK
    <2> QED
      BY <2>2, <2>4, <2>5 DEF Knows, Settled, Statuses
  <1> QED
    BY <1>1, AddonsCorrect, PTL

\* What UpdateAll returns is what was done, however the run ended.
THEOREM ResultsCorrect == Spec => []ResultsHonest
  <1>1. ASSUME AddonsInvariant PROVE ResultsHonest
    <2> SUFFICES ASSUME pc = "done", NEW i \in DOMAIN work, work[i] # Absent
                 PROVE  /\ result[i] \in {"", "DRY_RUN"} => mine[work[i]] = "none"
                        /\ result[i] = "STARTED" => mine[work[i]] # "none"
                        /\ result[i] \in {"COMPLETED", "COMPLETED_WITH_ISSUES"} =>
                             mine[work[i]] = "Successful" \/ work[i] \in others
      BY DEF ResultsHonest
    <2>1. /\ TypeOK /\ ListOK /\ LoopOK /\ ExitOK /\ OwnerOK /\ WorkerOK
          /\ work \in Seq(Names) /\ Len(work) \in Nat /\ DOMAIN work = 1 .. Len(work)
      BY <1>1 DEF AddonsInvariant, ListOK, Listed
    <2>2. i \in 1 .. Len(work) /\ i \in Positions /\ work[i] \in Addons
      <3>1. Len(work) <= Cardinality(Names)
        BY <2>1 DEF TypeOK
      <3>2. i \in Positions
        BY <2>1, <3>1, PositionsFinite DEF Positions
      <3>3. work[i] \in Names
        BY <2>1
      <3> QED
        BY <2>1, <3>2, <3>3 DEF Names
    <2>3. i < next => Knows(i) /\ result[i] # ""
      <3>1. worker[i].at = "idle"
        BY <2>1, <2>2 DEF Running, TypeOK, ExitOK
      <3> QED
        BY <2>1, <2>2, <3>1 DEF WorkerOK, LoopOK
    <2>4. ~(i < next) => result[i] = ""
      BY <2>1, <2>2 DEF LoopOK
    \* Whatever was submitted has a worker, which has handed in its result.
    <2>5. mine[work[i]] # "none" => i < next /\ ~Has("dryRun")
      <3> SUFFICES ASSUME mine[work[i]] # "none" PROVE i < next /\ ~Has("dryRun")
        OBVIOUS
      <3>1. /\ ~Has("dryRun")
            /\ \E k \in 1 .. Len(work) : k < next /\ work[k] = work[i]
        BY <2>1, <2>2 DEF OwnerOK
      <3>2. PICK k \in 1 .. Len(work) : k < next /\ work[k] = work[i]
        BY <3>1
      <3>3. k = i
        BY <1>1, <2>2, <3>2, OneOwner
      <3> QED
        BY <3>1, <3>2, <3>3
    <2>6. result[i] \in {"", "DRY_RUN"} => mine[work[i]] = "none"
      BY <2>3, <2>5 DEF Knows
    <2>7. result[i] = "STARTED" => mine[work[i]] # "none"
      BY <2>3, <2>4 DEF Knows
    <2>8. result[i] \in {"COMPLETED", "COMPLETED_WITH_ISSUES"} =>
            mine[work[i]] = "Successful" \/ work[i] \in others
      BY <2>3, <2>4 DEF Knows, Settled
    <2> QED
      BY <2>6, <2>7, <2>8
  <1> QED
    BY <1>1, AddonsCorrect, PTL
================================================================================

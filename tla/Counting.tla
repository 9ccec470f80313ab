------------------------------ MODULE Counting ------------------------------
(***************************************************************************)
(* Counters and lists of the sync service.                                 *)
(*                                                                         *)
(* A counter of the sync service is incremented once by every instance     *)
(* that enters its state, and a topic gets one message from each: these    *)
(* are the facts about finite sets that turn a number, or the length of a  *)
(* list, into "all of them".  The last section is about what goes from one *)
(* number to the next.  No module of the model is used here.               *)
(***************************************************************************)
EXTENDS Integers, Sequences, FiniteSets, FiniteSetTheorems, SequenceTheorems,
        WellFoundedInduction, TLAPS

\* A counter that has reached the size of S counts all of S.
LEMMA FullCount ==
    ASSUME NEW S, IsFiniteSet(S), NEW T \in SUBSET S, Cardinality(T) >= Cardinality(S)
    PROVE  T = S
<1>1. Cardinality(T) <= Cardinality(S) /\ (Cardinality(S) = Cardinality(T) => S = T)
  BY FS_Subset
<1>2. Cardinality(T) \in Nat /\ Cardinality(S) \in Nat
  BY FS_Subset, FS_CardinalityType
<1>. QED  BY <1>1, <1>2

\* One more element, one more in the count.
LEMMA OneMore ==
    ASSUME NEW S, IsFiniteSet(S), NEW T \in SUBSET S, NEW x, x \notin T
    PROVE  Cardinality(T \cup {x}) = Cardinality(T) + 1
BY FS_Subset, FS_AddElement

\* A counter never passes the size of S.
LEMMA CountBound ==
    ASSUME NEW S, IsFiniteSet(S), NEW T \in SUBSET S
    PROVE  Cardinality(T) \in 0 .. Cardinality(S)
<1>1. Cardinality(T) <= Cardinality(S)
  BY FS_Subset
<1>2. Cardinality(T) \in Nat /\ Cardinality(S) \in Nat
  BY FS_Subset, FS_CardinalityType
<1>. QED  BY <1>1, <1>2

\* While one is missing, the counter is below its target.
LEMMA CountRoom ==
    ASSUME NEW S, IsFiniteSet(S), NEW T \in SUBSET S, NEW x \in S, x \notin T
    PROVE  Cardinality(T) + 1 <= Cardinality(S)
<1>1. T \cup {x} \in SUBSET S
  OBVIOUS
<1>2. Cardinality(T \cup {x}) = Cardinality(T) + 1
  BY OneMore
<1>. QED  BY <1>1, <1>2, CountBound

\* Sets of which each element is counted once have none in common.
LEMMA CountedOnce ==
    ASSUME NEW A, NEW B, NEW R, IsFiniteSet(A), IsFiniteSet(B), IsFiniteSet(R),
           NEW r \in Nat, Cardinality(R) <= r,
           Cardinality((A \cup B) \cup R) = Cardinality(A) + Cardinality(B) + r
    PROVE  A \cap B = {}
<1>1. /\ IsFiniteSet(A \cup B) /\ IsFiniteSet(A \cap B)
      /\ Cardinality(A \cup B) = Cardinality(A) + Cardinality(B) - Cardinality(A \cap B)
  BY FS_Union, FS_Intersection
<1>2. /\ IsFiniteSet((A \cup B) \cap R)
      /\ Cardinality((A \cup B) \cup R) =
             Cardinality(A \cup B) + Cardinality(R) - Cardinality((A \cup B) \cap R)
  BY <1>1, FS_Union, FS_Intersection
<1>3. /\ Cardinality(A) \in Nat /\ Cardinality(B) \in Nat /\ Cardinality(R) \in Nat
      /\ Cardinality(A \cap B) \in Nat /\ Cardinality((A \cup B) \cap R) \in Nat
  BY <1>1, <1>2, FS_CardinalityType
<1>4. Cardinality(A \cap B) = 0
  <2>1. \A a, b, c, i, j \in Nat : c <= r /\ (a + b - i) + c - j = a + b + r => i = 0
    OBVIOUS
  <2>2. (Cardinality(A) + Cardinality(B) - Cardinality(A \cap B)) + Cardinality(R)
            - Cardinality((A \cup B) \cap R) = Cardinality(A) + Cardinality(B) + r
    BY <1>1, <1>2
  <2>. QED  BY <1>3, <2>1, <2>2
<1>. QED  BY <1>1, <1>4, FS_EmptySet

\* No element occurs twice in s.
NoRepeats(s) == \A i, j \in DOMAIN s : s[i] = s[j] => i = j

\* The elements of s.
Elements(s) == {s[i] : i \in DOMAIN s}

\* Something new is put at the end of a list without repetitions.
LEMMA AppendNew ==
    ASSUME NEW S, NEW s \in Seq(S), NoRepeats(s), NEW x \in S, x \notin Elements(s)
    PROVE  NoRepeats(Append(s, x)) /\ Elements(Append(s, x)) = Elements(s) \cup {x}
<1>1. /\ Len(s) \in Nat /\ DOMAIN s = 1 .. Len(s)
      /\ DOMAIN Append(s, x) = 1 .. Len(s) + 1
      /\ \A i \in 1 .. Len(s) : Append(s, x)[i] = s[i]
      /\ Append(s, x)[Len(s) + 1] = x
  OBVIOUS
<1>2. \A i \in 1 .. Len(s) : s[i] # x
  BY <1>1 DEF Elements
<1>3. NoRepeats(Append(s, x))
  BY <1>1, <1>2 DEF NoRepeats
<1>4. Elements(Append(s, x)) = Elements(s) \cup {x}
  <2>1. ASSUME NEW y \in Elements(Append(s, x)) PROVE y \in Elements(s) \cup {x}
    BY <1>1 DEF Elements
  <2>2. ASSUME NEW y \in Elements(s) PROVE y \in Elements(Append(s, x))
    BY <1>1 DEF Elements
  <2>3. x \in Elements(Append(s, x))
    BY <1>1 DEF Elements
  <2>. QED  BY <2>1, <2>2, <2>3
<1>. QED  BY <1>3, <1>4

\* A list without repetitions has as many elements as it is long.
LEMMA LengthCounts ==
    ASSUME NEW s, NEW n \in Nat, DOMAIN s = 1 .. n, NoRepeats(s)
    PROVE  IsFiniteSet(Elements(s)) /\ Cardinality(Elements(s)) = n
<1>1. [i \in 1 .. n |-> s[i]] \in Bijection(1 .. n, Elements(s))
  BY DEF NoRepeats, Elements, Bijection, Injection, Surjection, IsInjective
<1>2. ExistsBijection(1 .. n, Elements(s))
  BY <1>1 DEF ExistsBijection
<1>3. IsFiniteSet(1 .. n) /\ Cardinality(1 .. n) = n
  BY FS_Interval
<1>. QED  BY <1>2, <1>3, FS_Bijection

\* A list of members of S without repetitions that is as long as S is large has them all.
LEMMA AllListed ==
    ASSUME NEW S, IsFiniteSet(S), NEW s \in Seq(S), NoRepeats(s), Len(s) >= Cardinality(S)
    PROVE  Elements(s) = S
<1>1. Elements(s) \in SUBSET S
  BY DEF Elements
<1>2. Cardinality(Elements(s)) = Len(s)
  BY LengthCounts
<1>. QED  BY <1>1, <1>2, FullCount

\* What the first list and the second hold together does not change when the head of the
\* second is moved over, and grows at its end with the second.
LEMMA MovedOver ==
    ASSUME NEW S, NEW s \in Seq(S), NEW t \in Seq(S), t # <<>>
    PROVE  Append(s, Head(t)) \o Tail(t) = s \o t
<1>1. /\ Len(s) \in Nat /\ Len(t) \in Nat /\ Len(t) >= 1 /\ Head(t) \in S /\ Tail(t) \in Seq(S)
      /\ Head(t) = t[1] /\ Len(Tail(t)) = Len(t) - 1
      /\ \A i \in 1 .. Len(t) - 1 : Tail(t)[i] = t[i + 1]
  OBVIOUS
<1>2. /\ Append(s, Head(t)) \in Seq(S) /\ Len(Append(s, Head(t))) = Len(s) + 1
      /\ \A i \in 1 .. Len(s) : Append(s, Head(t))[i] = s[i]
      /\ Append(s, Head(t))[Len(s) + 1] = t[1]
  BY <1>1
<1>. DEFINE left == Append(s, Head(t)) \o Tail(t)
            right == s \o t
<1>3. left \in Seq(S) /\ right \in Seq(S) /\ Len(left) = Len(s) + Len(t) /\ Len(right) = Len(s) + Len(t)
  BY <1>1, <1>2
<1>4. ASSUME NEW i \in 1 .. Len(s) + Len(t) PROVE left[i] = right[i]
  <2>1. CASE i <= Len(s)
    BY <1>1, <1>2, <2>1
  <2>2. CASE i = Len(s) + 1
    <3>1. left[i] = t[1]
      BY <1>1, <1>2, <2>2
    <3>2. right[i] = t[1]
      BY <1>1, <2>2
    <3>. QED  BY <3>1, <3>2
  <2>3. CASE i > Len(s) + 1
    <3>1. i - (Len(s) + 1) \in 1 .. Len(t) - 1
      BY <1>1, <2>3
    <3>2. left[i] = Tail(t)[i - (Len(s) + 1)]
      BY <1>1, <1>2, <2>3
    <3>3. Tail(t)[i - (Len(s) + 1)] = t[i - (Len(s) + 1) + 1]
      BY <1>1, <3>1
    <3>4. i - (Len(s) + 1) + 1 = i - Len(s)
      BY <1>1
    <3>5. right[i] = t[i - Len(s)]
      BY <1>1, <2>3
    <3>. QED  BY <3>2, <3>3, <3>4, <3>5
  <2>. QED  BY <1>1, <2>1, <2>2, <2>3
<1>. HIDE DEF left, right
<1>5. left = right
  BY <1>3, <1>4
<1>. QED  BY <1>5 DEF left, right

LEMMA GrowsAtItsEnd ==
    ASSUME NEW S, NEW s \in Seq(S), NEW t \in Seq(S), NEW x \in S
    PROVE  s \o Append(t, x) = Append(s \o t, x)
OBVIOUS

\* The beginning of a list.
LEMMA FirstOnes ==
    ASSUME NEW S, NEW s \in Seq(S), NEW n \in Nat, n <= Len(s)
    PROVE  /\ SubSeq(s, 1, n) \in Seq(S) /\ Len(SubSeq(s, 1, n)) = n
           /\ DOMAIN SubSeq(s, 1, n) = 1 .. n
           /\ \A i \in 1 .. n : SubSeq(s, 1, n)[i] = s[i]
<1>1. \A i \in 1 .. n : s[i] \in S
  OBVIOUS
<1>. QED  BY <1>1, SubSeqProperties

LEMMA IntervalSize ==
    ASSUME NEW a \in Int, NEW b \in Int, a <= b + 1
    PROVE  IsFiniteSet(a .. b) /\ Cardinality(a .. b) = b - a + 1
BY FS_Interval

\* Numbers that grow from place to place, as many as there are, are the places.
LEMMA GrowingNumbers ==
    ASSUME NEW n \in Nat, NEW f \in [1 .. n -> 1 .. n],
           \A i, j \in 1 .. n : i < j => f[i] < f[j]
    PROVE  \A i \in 1 .. n : f[i] = i
<1>. SUFFICES ASSUME NEW i \in 1 .. n PROVE f[i] = i
  OBVIOUS
<1>0. f[i] \in 1 .. n /\ \A j, k \in 1 .. n : f[j] = f[k] => j = k
  <2>1. \A j, k \in 1 .. n : j < k \/ k < j \/ j = k
    OBVIOUS
  <2>2. \A j \in 1 .. n : f[j] \in 1 .. n
    OBVIOUS
  <2>. QED  BY <2>1, <2>2
<1>1. ASSUME NEW A \in SUBSET (1 .. n), NEW B \in SUBSET (1 .. n), \A j \in A : f[j] \in B
      PROVE  Cardinality(A) <= Cardinality(B)
  <2>. DEFINE g == [j \in A |-> f[j]]
  <2>1. g \in [A -> B] /\ \A j, k \in A : g[j] = g[k] => j = k
    BY <1>0, <1>1
  <2>2. g \in Injection(A, B)
    BY <2>1 DEF Injection, IsInjective
  <2>3. IsFiniteSet(B)
    <3>1. IsFiniteSet(1 .. n)
      BY IntervalSize
    <3>. QED  BY <3>1, FS_Subset
  <2>. QED  BY <2>2, <2>3, FS_Injection
<1>2. i - 1 <= f[i] - 1  \* as many smaller numbers as there are places before i
  <2>1. \A j \in 1 .. i - 1 : f[j] \in 1 .. f[i] - 1
    BY <1>0
  <2>2. Cardinality(1 .. i - 1) <= Cardinality(1 .. f[i] - 1)
    <3>1. 1 .. i - 1 \in SUBSET (1 .. n) /\ 1 .. f[i] - 1 \in SUBSET (1 .. n)
      BY <1>0
    <3>. QED  BY <1>1, <2>1, <3>1
  <2>3. Cardinality(1 .. i - 1) = i - 1 /\ Cardinality(1 .. f[i] - 1) = f[i] - 1
    <3>1. ASSUME NEW k \in 1 .. n PROVE Cardinality(1 .. k - 1) = k - 1
      BY <3>1, IntervalSize
    <3>. QED  BY <1>0, <3>1
  <2>. QED  BY <2>2, <2>3
<1>3. n - i <= n - f[i]
  <2>1. \A j \in i + 1 .. n : f[j] \in f[i] + 1 .. n
    BY <1>0
  <2>2. Cardinality(i + 1 .. n) <= Cardinality(f[i] + 1 .. n)
    <3>1. i + 1 .. n \in SUBSET (1 .. n) /\ f[i] + 1 .. n \in SUBSET (1 .. n)
      BY <1>0
    <3>. QED  BY <1>1, <2>1, <3>1
  <2>3. Cardinality(i + 1 .. n) = n - i /\ Cardinality(f[i] + 1 .. n) = n - f[i]
    <3>1. ASSUME NEW k \in 1 .. n PROVE Cardinality(k + 1 .. n) = n - k
      <4>1. Cardinality(k + 1 .. n) = n - (k + 1) + 1
        BY <3>1, IntervalSize
      <4>. QED  BY <3>1, <4>1
    <3>. QED  BY <1>0, <3>1
  <2>. QED  BY <2>2, <2>3
<1>. QED  BY <1>0, <1>2, <1>3

-----------------------------------------------------------------------------
(* Numbers in turn: facts that go from one number to the next, and         *)
(* functions that are defined that way.                                    *)

\* What holds of 0, and of the next number when it holds of a number, holds of all numbers.
LEMMA Everyone ==
    ASSUME NEW S, 0 \in S, \A n \in Nat : n \in S => n + 1 \in S
    PROVE  Nat \subseteq S
<1>. DEFINE T == Nat \ S
            R == OpToRel(<, Nat)
<1>1. SUFFICES ASSUME T # {} PROVE FALSE
  OBVIOUS
<1>2. IsWellFoundedOn(R, Nat) /\ T \subseteq Nat
  BY NatLessThanWellFounded
<1>3. PICK x \in T : \A y \in T : ~ (<<y, x>> \in R)
  <2>. HIDE DEF T, R
  <2>. QED  BY <1>1, <1>2, WFMin
<1>4. x \in Nat /\ x - 1 \in T /\ <<x - 1, x>> \in R
  BY DEF OpToRel
<1>. QED  BY <1>3, <1>4

\* The same for the numbers up to k.
LEMMA UpTo ==
    ASSUME NEW k \in Nat, NEW S, 0 \in S, \A n \in 1 .. k : n - 1 \in S => n \in S
    PROVE  0 .. k \subseteq S
<1>. DEFINE T == S \cup {n \in Nat : n > k}
<1>1. 0 \in T /\ \A n \in Nat : n \in T => n + 1 \in T
  <2>1. ASSUME NEW n \in Nat, n \in T PROVE n + 1 \in T
    <3>1. CASE n + 1 \in 1 .. k
      BY <2>1, <3>1, (n + 1) - 1 = n
    <3>2. CASE n + 1 \notin 1 .. k
      BY <3>2
    <3>. QED  BY <3>1, <3>2
  <2>. QED  BY <2>1
<1>2. Nat \subseteq T
  <2>. HIDE DEF T
  <2>. QED  BY <1>1, Everyone
<1>. QED  BY <1>2

\* A function that starts with c and goes on with F.
LEMMA RecursionExists ==
    ASSUME NEW D, NEW c \in D, NEW k \in Nat, NEW F \in [1 .. k -> [D -> D]]
    PROVE  \E g \in [0 .. k -> D] : g[0] = c /\ \A i \in 1 .. k : g[i] = F[i][g[i - 1]]
<1>. DEFINE Good(g, m) == g[0] = c /\ \A i \in 1 .. m : g[i] = F[i][g[i - 1]]
            S == {m \in 0 .. k : \E g \in [0 .. m -> D] : Good(g, m)}
<1>1. 0 \in S
  <2>. DEFINE g == [i \in 0 .. 0 |-> c]
  <2>1. g \in [0 .. 0 -> D] /\ Good(g, 0) /\ 0 \in 0 .. k
    OBVIOUS
  <2>. HIDE DEF g, Good
  <2>. QED  BY <2>1
<1>2. ASSUME NEW m \in 1 .. k, m - 1 \in S PROVE m \in S
  <2>1. PICK g \in [0 .. m - 1 -> D] : Good(g, m - 1)
    BY <1>2
  <2>. DEFINE h == [i \in 0 .. m |-> IF i = m THEN F[m][g[m - 1]] ELSE g[i]]
  <2>2. h \in [0 .. m -> D]
    OBVIOUS
  <2>3. h[0] = c
    BY <2>1
  <2>4. ASSUME NEW i \in 1 .. m PROVE h[i] = F[i][h[i - 1]]
    <3>1. CASE i = m
      BY <3>1
    <3>2. CASE i # m
      <4>1. i \in 1 .. m - 1 /\ h[i] = g[i] /\ h[i - 1] = g[i - 1]
        BY <3>2
      <4>. QED  BY <4>1, <2>1
    <3>. QED  BY <3>1, <3>2
  <2>5. Good(h, m)
    <3>. HIDE DEF h
    <3>. QED  BY <2>3, <2>4
  <2>6. m \in 0 .. k
    OBVIOUS
  <2>. HIDE DEF h, Good
  <2>. QED  BY <2>2, <2>5, <2>6
<1>3. 0 .. k \subseteq S
  <2>. HIDE DEF S
  <2>. QED  BY <1>1, <1>2, UpTo
<1>. QED  BY <1>3, k \in 0 .. k

=============================================================================

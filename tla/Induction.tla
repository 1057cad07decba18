------------------------------ MODULE Induction ------------------------------
(***************************************************************************)
(* Induction over the natural numbers as a fact about sets of numbers, and *)
(* what it gives for folds: a proof by induction that P(n) holds is one    *)
(* that the set of the n with P(n) is closed under n + 1.  And facts about *)
(* numbers and sequences that several modules need.                        *)
(***************************************************************************)
EXTENDS SequencesExt, SequenceTheorems, WellFoundedInduction, TLAPS

(* From the least element of what is not in S.                              *)
LEMMA SetInduction ==
  ASSUME NEW S \in SUBSET Nat, 0 \in S, \A n \in S : n + 1 \in S
  PROVE  S = Nat
<1> DEFINE R == OpToRel(<, Nat)
<1>1. SUFFICES ASSUME Nat \ S # {} PROVE FALSE
  OBVIOUS
<1>2. IsWellFoundedOn(R, Nat)
  BY NatLessThanWellFounded
<1>3. PICK x \in Nat \ S : \A y \in Nat \ S : ~ (<<y, x>> \in R)
  <2> HIDE DEF R
  <2> QED BY <1>1, <1>2, WFMin
<1>4. x \in Nat /\ x # 0
  BY <1>3
<1>5. x - 1 \in Nat /\ x - 1 < x
  BY <1>4
<1>6. <<x - 1, x>> \in R
  BY <1>4, <1>5 DEF OpToRel
<1>7. x - 1 \in S
  BY <1>3, <1>5, <1>6
<1> HIDE DEF R
<1>8. (x - 1) + 1 \in S
  BY <1>7
<1>9. (x - 1) + 1 = x
  BY <1>4
<1> QED BY <1>3, <1>8, <1>9

(* Up to a bound, such as the length of a sequence.                         *)
LEMMA UpTo ==
  ASSUME NEW m \in Nat, NEW S, 0 \in S, \A n \in 0..(m - 1) : n \in S => n + 1 \in S
  PROVE  (\A n \in 0..m : n \in S) /\ m \in S
<1> DEFINE U == {n \in Nat : n \in S \/ n > m}
<1>1. U = Nat
  <2>1. \A n \in U : n + 1 \in U
    <3> SUFFICES ASSUME NEW n \in U PROVE n + 1 \in U
      OBVIOUS
    <3>1. CASE n \in 0..(m - 1)
      BY <3>1
    <3>2. CASE n \notin 0..(m - 1)
      BY <3>2
    <3> QED BY <3>1, <3>2
  <2>2. 0 \in U /\ U \in SUBSET Nat
    OBVIOUS
  <2> HIDE DEF U
  <2> QED BY <2>1, <2>2, SetInduction
<1> QED BY <1>1

(* The largest number of a set of numbers, and of an interval.              *)
LEMMA MaxOfNumbers ==
  ASSUME NEW m \in Nat
  PROVE  /\ \A s \in SUBSET (1..m) : s # {} => Max(s) \in s
         /\ \A k \in 0..(m - 1) : Max(1..(k + 1)) = k + 1 /\ (1..(k + 1)) \ {k + 1} = 1..k
<1> DEFINE HasMax(s) == \E x \in s : \A y \in s : x >= y
           S == {k \in Nat : \A s \in SUBSET (1..k) : s # {} => HasMax(s)}
<1>1. 0 \in S
  <2>1. SUBSET (1..0) = {{}}
    OBVIOUS
  <2> QED BY <2>1
<1>2. ASSUME NEW k \in 0..(m - 1), k \in S PROVE k + 1 \in S
  <2> SUFFICES ASSUME NEW s \in SUBSET (1..(k + 1)), s # {} PROVE HasMax(s)
    OBVIOUS
  <2>1. CASE k + 1 \in s
    BY <2>1
  <2>2. CASE k + 1 \notin s
    <3>1. s \in SUBSET (1..k)
      BY <2>2
    <3> QED BY <1>2, <3>1
  <2> QED BY <2>1, <2>2
<1>3. m \in S
  <2> HIDE DEF S
  <2> QED BY <1>1, <1>2, UpTo
<1>4. ASSUME NEW s \in SUBSET (1..m), s # {} PROVE Max(s) \in s
  BY <1>3, <1>4 DEF Max
<1>5. ASSUME NEW k \in 0..(m - 1) PROVE Max(1..(k + 1)) = k + 1
  <2>1. \A x \in 1..(k + 1) : (\A y \in 1..(k + 1) : x >= y) <=> x = k + 1
    OBVIOUS
  <2>2. k + 1 \in 1..(k + 1)
    OBVIOUS
  <2> QED BY <2>1, <2>2 DEF Max
<1> QED BY <1>4, <1>5

(* What FoldLeft(op, base, seq) chooses, for a sequence of length m: F[k]   *)
(* is the step of op with seq[k].                                           *)
IsFoldOf(iter, m, base, F) ==
  iter = [s \in SUBSET (1..m) |->
            IF s = {} THEN base ELSE F[Max(s)][iter[s \ {Max(s)}]]]

LEMMA FoldExists ==
  ASSUME NEW m \in Nat, NEW A, NEW base \in A, NEW F \in [1..m -> [A -> A]]
  PROVE  \E iter \in [SUBSET (1..m) -> A] : IsFoldOf(iter, m, base, F)
<1> DEFINE Solves(g, k) ==
             \A s \in SUBSET (1..k) :
               g[s] = IF s = {} THEN base ELSE F[Max(s)][g[s \ {Max(s)}]]
           HasFold(k) == \E g \in [SUBSET (1..k) -> A] : Solves(g, k)
           U == {k \in 0..m : HasFold(k)}
<1>1. 0 \in U
  <2> DEFINE g == [s \in SUBSET (1..0) |-> base]
  <2>1. SUBSET (1..0) = {{}}
    OBVIOUS
  <2>2. g \in [SUBSET (1..0) -> A] /\ Solves(g, 0)
    BY <2>1
  <2> HIDE DEF g, Solves
  <2>3. HasFold(0)
    BY <2>2
  <2> HIDE DEF HasFold
  <2> QED BY <2>3
<1>2. ASSUME NEW k \in 0..(m - 1), k \in U PROVE k + 1 \in U
  <2>1. PICK g \in [SUBSET (1..k) -> A] : Solves(g, k)
    BY <1>2
  <2> DEFINE h == [s \in SUBSET (1..(k + 1)) |->
                     IF k + 1 \in s THEN F[k + 1][g[s \ {k + 1}]] ELSE g[s]]
  <2>2. \A s \in SUBSET (1..(k + 1)) :
          /\ s \ {k + 1} \in SUBSET (1..k)
          /\ k + 1 \notin s => s \in SUBSET (1..k)
          /\ k + 1 \in s => Max(s) = k + 1
    <3> TAKE s \in SUBSET (1..(k + 1))
    <3>1. s \ {k + 1} \in SUBSET (1..k)
      OBVIOUS
    <3>2. ASSUME k + 1 \in s PROVE Max(s) = k + 1
      <4>1. \A y \in s : k + 1 >= y
        OBVIOUS
      <4>2. \A x \in s : (\A y \in s : x >= y) => x = k + 1
        BY <3>2
      <4> QED BY <3>2, <4>1, <4>2 DEF Max
    <3> QED BY <3>1, <3>2
  <2>3. k + 1 \in 1..m
    OBVIOUS
  <2>4. h \in [SUBSET (1..(k + 1)) -> A]
    <3> SUFFICES ASSUME NEW s \in SUBSET (1..(k + 1))
                 PROVE  (IF k + 1 \in s THEN F[k + 1][g[s \ {k + 1}]] ELSE g[s]) \in A
      OBVIOUS
    <3>1. s \ {k + 1} \in SUBSET (1..k) /\ (k + 1 \notin s => s \in SUBSET (1..k))
      BY <2>2
    <3>2. g[s \ {k + 1}] \in A
      BY <3>1
    <3> QED BY <2>3, <3>1, <3>2
  <2>5. ASSUME NEW s \in SUBSET (1..(k + 1))
        PROVE  h[s] = IF s = {} THEN base ELSE F[Max(s)][h[s \ {Max(s)}]]
    <3>1. CASE k + 1 \in s
      <4>1. h[s \ {k + 1}] = g[s \ {k + 1}]
        <5>1. s \ {k + 1} \in SUBSET (1..(k + 1)) /\ k + 1 \notin s \ {k + 1}
          OBVIOUS
        <5> QED BY <5>1
      <4>2. h[s] = F[k + 1][g[s \ {k + 1}]]
        BY <3>1
      <4>3. Max(s) = k + 1
        BY <2>2, <3>1
      <4> HIDE DEF h
      <4> QED BY <3>1, <4>1, <4>2, <4>3
    <3>2. CASE k + 1 \notin s
      <4>1. s \in SUBSET (1..k)
        BY <2>2, <3>2
      <4>2. h[s] = g[s]
        BY <3>2
      <4>3. h[s \ {Max(s)}] = g[s \ {Max(s)}]
        <5>1. s \ {Max(s)} \in SUBSET (1..(k + 1)) /\ k + 1 \notin s \ {Max(s)}
          BY <3>2
        <5> QED BY <5>1
      <4> HIDE DEF h
      <4> QED BY <2>1, <4>1, <4>2, <4>3
    <3> QED BY <3>1, <3>2
  <2> HIDE DEF h
  <2>6. Solves(h, k + 1)
    BY <2>5
  <2> HIDE DEF Solves
  <2>7. HasFold(k + 1)
    BY <2>4, <2>6
  <2> HIDE DEF HasFold
  <2> QED BY <2>7
<1>3. m \in U
  <2> HIDE DEF U
  <2> QED BY <1>1, <1>2, UpTo
<1>4. PICK g \in [SUBSET (1..m) -> A] : Solves(g, m)
  BY <1>3
<1>5. IsFoldOf(g, m, base, F)
  BY <1>4 DEF IsFoldOf
<1> QED BY <1>5

(* A function defined by recursion over the numbers from a to b: F[n] is    *)
(* the step to n.                                                           *)
IsRecursion(f, a, b, base, F) ==
  f = [n \in a..b |-> IF n = a THEN base ELSE F[n][f[n - 1]]]

LEMMA RecursionExists ==
  ASSUME NEW a \in Nat, NEW b \in Nat, a <= b, NEW S, NEW base \in S,
         NEW F \in [(a + 1)..b -> [S -> S]]
  PROVE  \E f \in [a..b -> S] : IsRecursion(f, a, b, base, F)
<1> DEFINE Solves(f, k) ==
             \A n \in a..(a + k) : f[n] = IF n = a THEN base ELSE F[n][f[n - 1]]
           HasSolution(k) == \E f \in [a..(a + k) -> S] : Solves(f, k)
           U == {k \in 0..(b - a) : HasSolution(k)}
<1>1. 0 \in U
  <2> DEFINE f == [n \in a..(a + 0) |-> base]
  <2>1. f \in [a..(a + 0) -> S] /\ Solves(f, 0)
    OBVIOUS
  <2> HIDE DEF f, Solves
  <2>2. HasSolution(0)
    BY <2>1
  <2> HIDE DEF HasSolution
  <2> QED BY <2>2
<1>2. ASSUME NEW k \in 0..((b - a) - 1), k \in U PROVE k + 1 \in U
  <2>1. PICK f \in [a..(a + k) -> S] : Solves(f, k)
    BY <1>2
  <2> DEFINE m == a + (k + 1)
             h == [n \in a..m |-> IF n = m THEN F[m][f[m - 1]] ELSE f[n]]
  <2>2. m \in (a + 1)..b /\ m - 1 = a + k /\ m - 1 \in a..(a + k) /\ m # a
        /\ \A n \in a..m : (n # m => n \in a..(a + k)) /\ (n # a => n - 1 \in a..(a + k) /\ n - 1 # m)
    OBVIOUS
  <2> HIDE DEF m
  <2>3. h \in [a..m -> S]
    BY <2>2
  <2>4. ASSUME NEW n \in a..m PROVE h[n] = IF n = a THEN base ELSE F[n][h[n - 1]]
    <3>1. n # a => h[n - 1] = f[n - 1]
      <4> SUFFICES ASSUME n # a PROVE h[n - 1] = f[n - 1]
        OBVIOUS
      <4>1. n - 1 \in a..m /\ n - 1 # m
        BY <2>2
      <4> QED BY <4>1
    <3>2. CASE n = m
      BY <2>2, <3>1, <3>2
    <3>3. CASE n # m
      <4>1. h[n] = f[n] /\ n \in a..(a + k)
        BY <2>2, <3>3
      <4> HIDE DEF h
      <4> QED BY <2>1, <3>1, <4>1
    <3> QED BY <3>2, <3>3
  <2> HIDE DEF h
  <2>5. h \in [a..(a + (k + 1)) -> S] /\ Solves(h, k + 1)
    BY <2>3, <2>4 DEF m
  <2> HIDE DEF Solves
  <2>6. HasSolution(k + 1)
    BY <2>5
  <2> HIDE DEF HasSolution
  <2> QED BY <2>6
<1>3. b - a \in U
  <2> HIDE DEF U
  <2>1. b - a \in Nat
    OBVIOUS
  <2> QED BY <1>1, <1>2, <2>1, UpTo
<1>4. PICK f \in [a..(a + (b - a)) -> S] : Solves(f, b - a)
  BY <1>3
<1>5. a + (b - a) = b
  OBVIOUS
<1> QED BY <1>4, <1>5 DEF IsRecursion

-----------------------------------------------------------------------------
(* The smallest number of a set of numbers.                                 *)
LEMMA MinOfNumbers ==
  ASSUME NEW m \in Nat, NEW s \in SUBSET (1..m), s # {}
  PROVE  Min(s) \in s /\ \A i \in s : Min(s) <= i
<1> DEFINE HasMin(r) == \E x \in r : \A y \in r : x <= y
           S == {k \in Nat : \A r \in SUBSET (1..k) : r # {} => HasMin(r)}
<1>1. 0 \in S
  <2>1. SUBSET (1..0) = {{}}
    OBVIOUS
  <2> QED BY <2>1
<1>2. ASSUME NEW k \in 0..(m - 1), k \in S PROVE k + 1 \in S
  <2> SUFFICES ASSUME NEW r \in SUBSET (1..(k + 1)), r # {} PROVE HasMin(r)
    OBVIOUS
  <2>1. CASE r = {k + 1}
    BY <2>1
  <2>2. CASE r # {k + 1}
    <3>1. r \ {k + 1} \in SUBSET (1..k) /\ r \ {k + 1} # {}
      BY <2>2
    <3>2. PICK x \in r \ {k + 1} : \A y \in r \ {k + 1} : x <= y
      BY <1>2, <3>1
    <3>3. \A y \in r : x <= y
      BY <3>2
    <3> QED BY <3>2, <3>3
  <2> QED BY <2>1, <2>2
<1>3. m \in S
  <2> HIDE DEF S
  <2> QED BY <1>1, <1>2, UpTo
<1>4. HasMin(s)
  BY <1>3
<1> QED BY <1>4 DEF Min

(* When a sequence is a prefix of another one.                              *)
LEMMA PrefixIs ==
  ASSUME NEW S, NEW s \in Seq(S), NEW t \in Seq(S)
  PROVE  IsPrefix(s, t) <=> Len(s) <= Len(t) /\ \A i \in 1..Len(s) : s[i] = t[i]
<1>1. ASSUME NEW r \in Seq(S), Len(s) <= Len(r)
      PROVE  /\ SubSeq(r, 1, Len(s)) \in Seq(S) /\ Len(SubSeq(r, 1, Len(s))) = Len(s)
             /\ \A i \in 1..Len(s) : SubSeq(r, 1, Len(s))[i] = r[i]
  <2>1. Len(s) \in Nat /\ Len(r) \in Nat
    OBVIOUS
  <2>2. Len(s) \in 0..Len(r)
    BY <1>1, <2>1
  <2>3. \A i \in 1..Len(s) : 1 + i - 1 = i /\ r[i] \in S
    BY <1>1, <2>1
  <2>4. SubSeq(r, 1, Len(s)) = [i \in 1..Len(s) |-> r[i]]
    <3>1. SubSeq(r, 1, Len(s)) = [i \in 1..(1 + Len(s) - 1) |-> r[1 + i - 1]]
      BY <2>1
    <3>2. 1..(1 + Len(s) - 1) = 1..Len(s)
      BY <2>1
    <3> QED BY <2>3, <3>1, <3>2
  <2>5. [i \in 1..Len(s) |-> r[i]] \in Seq(S) /\ Len([i \in 1..Len(s) |-> r[i]]) = Len(s)
    BY <2>1, <2>3
  <2> QED BY <2>4, <2>5
<1>2. CASE Len(s) <= Len(t)
  <2>1. Len(s) <= Len(s)
    OBVIOUS
  <2> DEFINE a == SubSeq(s, 1, Len(s))
             b == SubSeq(t, 1, Len(s))
  <2>2. /\ a \in Seq(S) /\ Len(a) = Len(s) /\ \A i \in 1..Len(s) : a[i] = s[i]
        /\ b \in Seq(S) /\ Len(b) = Len(s) /\ \A i \in 1..Len(s) : b[i] = t[i]
    BY <1>1, <1>2, <2>1
  <2>3. IsPrefix(s, t) <=> a = b
    BY <1>2 DEF IsPrefix
  <2> HIDE DEF a, b
  <2>4. ASSUME \A i \in 1..Len(s) : s[i] = t[i] PROVE a = b
    BY <2>2, <2>4, SeqEqual
  <2>5. ASSUME a = b PROVE \A i \in 1..Len(s) : s[i] = t[i]
    BY <2>2, <2>5
  <2> QED BY <1>2, <2>3, <2>4, <2>5
<1> QED BY <1>2 DEF IsPrefix

LEMMA PrefixFacts ==
  ASSUME NEW S, NEW s \in Seq(S), NEW t \in Seq(S)
  PROVE  /\ IsPrefix(s, s)
         /\ \A e \in S : IsPrefix(s, Append(s, e))
         /\ \A r \in Seq(S) : IsPrefix(s, t) /\ IsPrefix(t, r) => IsPrefix(s, r)
<1>1. IsPrefix(s, s)
  BY PrefixIs
<1>2. ASSUME NEW e \in S PROVE IsPrefix(s, Append(s, e))
  <2>1. /\ Append(s, e) \in Seq(S) /\ Len(Append(s, e)) = Len(s) + 1
        /\ \A i \in 1..Len(s) : Append(s, e)[i] = s[i]
    BY AppendProperties
  <2>2. Len(s) <= Len(s) + 1
    OBVIOUS
  <2> QED BY <2>1, <2>2, PrefixIs
<1>3. ASSUME NEW r \in Seq(S), IsPrefix(s, t), IsPrefix(t, r) PROVE IsPrefix(s, r)
  <2>1. Len(s) <= Len(t) /\ \A i \in 1..Len(s) : s[i] = t[i]
    BY <1>3, PrefixIs
  <2>2. Len(t) <= Len(r) /\ \A i \in 1..Len(t) : t[i] = r[i]
    BY <1>3, PrefixIs
  <2>3. Len(s) \in Nat /\ Len(t) \in Nat /\ Len(r) \in Nat
    OBVIOUS
  <2>4. Len(s) <= Len(r) /\ \A i \in 1..Len(s) : s[i] = r[i]
    BY <2>1, <2>2, <2>3
  <2> QED BY <2>4, PrefixIs
<1> QED BY <1>1, <1>2, <1>3
=============================================================================

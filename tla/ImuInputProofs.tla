--------------------------- MODULE ImuInputProofs ---------------------------
(***************************************************************************)
(* Keyframes get the rotation and the gravity that the readings make, for  *)
(* every value of the constants of ImuInput and however many keyframes and *)
(* readings of however many IMUs come.                                     *)
(***************************************************************************)
EXTENDS ImuInput, Induction, SequenceTheorems

-----------------------------------------------------------------------------
(***************************************************************************)
(* The elements of a sequence that are in a set.                           *)
(***************************************************************************)
KeepStep(s, e, S) == IF e \in S THEN Append(s, e) ELSE s

LEMMA KeptSteps ==
  ASSUME NEW A, NEW seq \in Seq(A), NEW S
  PROVE  \E kept \in [0..Len(seq) -> Seq(A)] :
           /\ kept[0] = <<>>
           /\ \A k \in 0..(Len(seq) - 1) : kept[k + 1] = KeepStep(kept[k], seq[k + 1], S)
           /\ KeptIn(seq, S) = kept[Len(seq)]
<1> DEFINE n == Len(seq)
           B == Seq(A)
           IsKept(f) ==
             f = [k \in 0..n |->
                    IF k = 0 THEN <<>>
                    ELSE IF seq[k] \in S THEN Append(f[k - 1], seq[k]) ELSE f[k - 1]]
           kept == CHOOSE f : IsKept(f)
           F == [k \in 1..n |-> [s \in B |-> KeepStep(s, seq[k], S)]]
<1>1. n \in Nat /\ \A k \in 1..n : seq[k] \in A
  OBVIOUS
<1>2. KeptIn(seq, S) = kept[n]
  BY DEF KeptIn
<1>3. <<>> \in B /\ \A s \in B, k \in 1..n : KeepStep(s, seq[k], S) \in B
  <2>1. <<>> \in B
    BY EmptySeq
  <2>2. ASSUME NEW s \in B, NEW k \in 1..n PROVE KeepStep(s, seq[k], S) \in B
    BY <1>1, AppendProperties DEF KeepStep
  <2> QED BY <2>1, <2>2
<1> HIDE DEF n, B
<1>4. PICK f \in [0..n -> B] : IsRecursion(f, 0, n, <<>>, F)
  <2>1. F \in [1..n -> [B -> B]]
    BY <1>3
  <2>2. 0 \in Nat /\ 0 <= n /\ (0 + 1)..n = 1..n
    BY <1>1
  <2> HIDE DEF F
  <2> QED BY <1>1, <1>3, <2>1, <2>2, RecursionExists
<1>5. IsKept(f)
  <2>1. f = [k \in 0..n |-> IF k = 0 THEN <<>> ELSE F[k][f[k - 1]]]
    BY <1>4 DEF IsRecursion
  <2>2. ASSUME NEW k \in 0..n, k # 0
        PROVE  F[k][f[k - 1]] = IF seq[k] \in S THEN Append(f[k - 1], seq[k]) ELSE f[k - 1]
    <3>1. k \in 1..n /\ k - 1 \in 0..n
      BY <1>1, <2>2
    <3>2. f[k - 1] \in B
      BY <3>1
    <3> QED BY <3>1, <3>2 DEF KeepStep
  <2> HIDE DEF F
  <2> QED BY <2>1, <2>2
<1>6. IsKept(kept)
  <2> HIDE DEF IsKept
  <2> QED BY <1>5
<1> HIDE DEF kept
<1>7. kept[0] = <<>>
  BY <1>1, <1>6
<1>8. ASSUME NEW k \in 0..(n - 1)
      PROVE  kept[k + 1] = KeepStep(kept[k], seq[k + 1], S)
  <2>1. k + 1 \in 0..n /\ k + 1 # 0 /\ (k + 1) - 1 = k
    BY <1>1
  <2> QED BY <1>6, <2>1 DEF KeepStep
<1> DEFINE U == {k \in 0..n : kept[k] \in B}
<1>9. \A k \in 0..n : kept[k] \in B
  <2>1. 0 \in U
    BY <1>1, <1>3, <1>7
  <2>2. ASSUME NEW k \in 0..(n - 1), k \in U PROVE k + 1 \in U
    <3>1. k + 1 \in 0..n /\ k + 1 \in 1..n
      BY <1>1
    <3> QED BY <1>3, <1>8, <2>2, <3>1
  <2> HIDE DEF U
  <2>3. \A k \in 0..n : k \in U
    BY <1>1, <2>1, <2>2, UpTo
  <2> QED BY <2>3 DEF U
<1>10. kept = [k \in 0..n |-> kept[k]]
  BY <1>6
<1> QED BY <1>2, <1>7, <1>8, <1>9, <1>10 DEF n, B

LEMMA KeptNone ==
  ASSUME NEW S
  PROVE  KeptIn(<<>>, S) = <<>>
<1> DEFINE none == <<>>
<1>1. none \in Seq({}) /\ Len(none) = 0
  BY EmptySeq
<1> HIDE DEF none
<1>2. PICK st \in [0..Len(none) -> Seq({})] :
        /\ st[0] = <<>>
        /\ \A k \in 0..(Len(none) - 1) : st[k + 1] = KeepStep(st[k], none[k + 1], S)
        /\ KeptIn(none, S) = st[Len(none)]
  BY <1>1, KeptSteps, Zenon
<1>3. KeptIn(none, S) = <<>>
  BY <1>1, <1>2
<1> QED BY <1>3 DEF none

LEMMA KeptTyped ==
  ASSUME NEW A, NEW S
  PROVE  \A seq \in Seq(A) : KeptIn(seq, S) \in Seq(A)
<1> TAKE seq \in Seq(A)
<1>1. PICK st \in [0..Len(seq) -> Seq(A)] : KeptIn(seq, S) = st[Len(seq)]
  BY KeptSteps
<1>2. Len(seq) \in 0..Len(seq)
  OBVIOUS
<1> QED BY <1>1, <1>2

LEMMA KeptAppend ==
  ASSUME NEW A, NEW S
  PROVE  \A seq \in Seq(A), e \in A :
           /\ KeptIn(seq, S) \in Seq(A)
           /\ e \in S => KeptIn(Append(seq, e), S) = Append(KeptIn(seq, S), e)
           /\ e \notin S => KeptIn(Append(seq, e), S) = KeptIn(seq, S)
<1> TAKE seq \in Seq(A), e \in A
<1> DEFINE more == Append(seq, e)
           m == Len(seq)
<1>1. /\ more \in Seq(A) /\ Len(more) = m + 1
      /\ \A i \in 1..m : more[i] = seq[i]
      /\ more[m + 1] = e
  BY AppendProperties
<1>2. m \in Nat
  OBVIOUS
<1>3. PICK st \in [0..m -> Seq(A)] :
        /\ st[0] = <<>>
        /\ \A k \in 0..(m - 1) : st[k + 1] = KeepStep(st[k], seq[k + 1], S)
        /\ KeptIn(seq, S) = st[m]
  BY KeptSteps
<1> HIDE DEF more, m
<1>4. PICK st2 \in [0..(m + 1) -> Seq(A)] :
        /\ st2[0] = <<>>
        /\ \A k \in 0..((m + 1) - 1) : st2[k + 1] = KeepStep(st2[k], more[k + 1], S)
        /\ KeptIn(more, S) = st2[m + 1]
  <2>1. more \in Seq(A)
    BY <1>1
  <2>2. \E f \in [0..Len(more) -> Seq(A)] :
          /\ f[0] = <<>>
          /\ \A k \in 0..(Len(more) - 1) : f[k + 1] = KeepStep(f[k], more[k + 1], S)
          /\ KeptIn(more, S) = f[Len(more)]
    BY <2>1, KeptSteps, Zenon
  <2>3. Len(more) = m + 1
    BY <1>1
  <2> QED BY <2>2, <2>3, Zenon
<1> DEFINE U == {k \in 0..m : st2[k] = st[k]}
<1>5. 0 \in U
  BY <1>2, <1>3, <1>4
<1>6. ASSUME NEW k \in 0..(m - 1), k \in U PROVE k + 1 \in U
  <2>1. k \in 0..((m + 1) - 1) /\ k + 1 \in 1..m /\ k + 1 \in 0..m
    BY <1>2
  <2> QED BY <1>1, <1>3, <1>4, <1>6, <2>1
<1>7. m \in U
  <2> HIDE DEF U
  <2> QED BY <1>2, <1>5, <1>6, UpTo
<1>8. m \in 0..((m + 1) - 1)
  BY <1>2
<1>9. KeptIn(more, S) = KeepStep(KeptIn(seq, S), e, S)
  BY <1>1, <1>3, <1>4, <1>7, <1>8
<1>10. KeptIn(seq, S) \in Seq(A)
  BY <1>2, <1>3
<1> QED BY <1>9, <1>10 DEF more, KeepStep

(* A part of a sequence, one element longer.                                *)
LEMMA LongerPart ==
  ASSUME NEW A, NEW seq \in Seq(A), NEW a \in 1..Len(seq), NEW b \in (a - 1)..(Len(seq) - 1)
  PROVE  /\ SubSeq(seq, a, b) \in Seq(A)
         /\ b + 1 \in 1..Len(seq)
         /\ SubSeq(seq, a, b + 1) = Append(SubSeq(seq, a, b), seq[b + 1])
<1>1. Len(seq) \in Nat /\ b + 1 \in 1..Len(seq) /\ b + 1 \in a..Len(seq) /\ (b + 1) - 1 = b
      /\ a \in Int /\ b \in Int /\ \A i \in a..b : seq[i] \in A
  <2>1. Len(seq) \in Nat
    OBVIOUS
  <2>2. \A i \in a..b : i \in 1..Len(seq)
    BY <2>1
  <2> QED BY <2>1, <2>2
<1>2. SubSeq(seq, a, b) \in Seq(A)
  BY <1>1, SubSeqProperties
<1>3. SubSeq(seq, a, b + 1) = SubSeq(seq, a, b) \o <<seq[b + 1]>>
  BY <1>1, SubSeqRecursiveSecond
<1>4. seq[b + 1] \in A
  BY <1>1
<1> QED BY <1>1, <1>2, <1>3, <1>4, AppendIsConcat

(* What is cut off and not in S is not missed.                              *)
LEMMA KeptSuffix ==
  ASSUME NEW A, NEW S
  PROVE  \A seq \in Seq(A) : \A n \in 1..Len(seq) :
           (\A i \in 1..(n - 1) : seq[i] \notin S)
             => KeptIn(SubSeq(seq, n, Len(seq)), S) = KeptIn(seq, S)
<1> SUFFICES ASSUME NEW seq \in Seq(A), NEW n \in 1..Len(seq),
                    \A i \in 1..(n - 1) : seq[i] \notin S
             PROVE  KeptIn(SubSeq(seq, n, Len(seq)), S) = KeptIn(seq, S)
  OBVIOUS
<1> DEFINE Head_(k) == SubSeq(seq, 1, k)
           Part(k) == SubSeq(seq, n, (n - 1) + k)
           U == {k \in 0..(n - 1) : KeptIn(Head_(k), S) = <<>>}
           V == {k \in 0..(Len(seq) - (n - 1)) :
                   KeptIn(Part(k), S) = KeptIn(Head_((n - 1) + k), S)}
<1>0. \A p \in Seq(A), e \in A :
        /\ e \in S => KeptIn(Append(p, e), S) = Append(KeptIn(p, S), e)
        /\ e \notin S => KeptIn(Append(p, e), S) = KeptIn(p, S)
  BY KeptAppend, SMT
<1>1. Len(seq) \in Nat /\ n \in Nat /\ n - 1 \in Nat /\ Len(seq) - (n - 1) \in Nat
      /\ 1 \in 1..Len(seq)
  OBVIOUS
<1>2. Head_(0) = <<>> /\ Part(0) = <<>>
  BY <1>1, SubSeqEmpty
<1>3. \A k \in 0..(Len(seq) - 1) : /\ Head_(k) \in Seq(A)
                                  /\ k + 1 \in 1..Len(seq)
                                  /\ Head_(k + 1) = Append(Head_(k), seq[k + 1])
  <2> TAKE k \in 0..(Len(seq) - 1)
  <2>1. k \in (1 - 1)..(Len(seq) - 1)
    OBVIOUS
  <2> QED BY <1>1, <2>1, LongerPart
<1>4. \A k \in 0..((Len(seq) - (n - 1)) - 1) :
         /\ Part(k) \in Seq(A)
         /\ Part(k + 1) = Append(Part(k), seq[(n - 1) + k + 1])
  <2> TAKE k \in 0..((Len(seq) - (n - 1)) - 1)
  <2>1. (n - 1) + k \in (n - 1)..(Len(seq) - 1)
        /\ (n - 1) + (k + 1) = ((n - 1) + k) + 1
        /\ (n - 1) + k + 1 = ((n - 1) + k) + 1
    BY <1>1
  <2> QED BY <2>1, LongerPart
<1>5. n - 1 \in U
  <2>1. 0 \in U
    <3>1. KeptIn(<<>>, S) = <<>>
      BY KeptNone
    <3>2. 0 \in 0..(n - 1)
      BY <1>1
    <3> HIDE DEF Head_
    <3> QED BY <1>2, <3>1, <3>2
  <2>2. ASSUME NEW k \in 0..((n - 1) - 1), k \in U PROVE k + 1 \in U
    <3>1. k \in 0..(Len(seq) - 1) /\ k + 1 \in 1..(n - 1) /\ k + 1 \in 0..(n - 1)
      BY <1>1
    <3>2. seq[k + 1] \notin S /\ seq[k + 1] \in A
      BY <1>1, <1>3, <3>1
    <3> DEFINE h == Head_(k)
               e == seq[k + 1]
    <3>3. h \in Seq(A) /\ e \in A /\ Head_(k + 1) = Append(h, e) /\ KeptIn(h, S) = <<>>
      BY <1>3, <2>2, <3>1, <3>2
    <3> HIDE DEF h, Head_
    <3>4. /\ e \in S => KeptIn(Append(h, e), S) = Append(KeptIn(h, S), e)
          /\ e \notin S => KeptIn(Append(h, e), S) = KeptIn(h, S)
      BY <1>0, <3>3
    <3> QED BY <3>1, <3>2, <3>3, <3>4
  <2> HIDE DEF U
  <2> QED BY <1>1, <2>1, <2>2, UpTo
<1>6. Len(seq) - (n - 1) \in V
  <2>1. 0 \in V
    <3>1. (n - 1) + 0 = n - 1
      BY <1>1
    <3>2. KeptIn(<<>>, S) = <<>>
      BY KeptNone
    <3>3. 0 \in 0..(Len(seq) - (n - 1))
      BY <1>1
    <3>4. KeptIn(Head_(n - 1), S) = <<>>
      BY <1>5
    <3> HIDE DEF Head_, Part
    <3> QED BY <1>2, <3>1, <3>2, <3>3, <3>4
  <2>2. ASSUME NEW k \in 0..((Len(seq) - (n - 1)) - 1), k \in V PROVE k + 1 \in V
    <3>1. (n - 1) + k \in 0..(Len(seq) - 1) /\ k + 1 \in 0..(Len(seq) - (n - 1))
          /\ (n - 1) + (k + 1) = ((n - 1) + k) + 1
          /\ (n - 1) + k + 1 = ((n - 1) + k) + 1
      BY <1>1
    <3> DEFINE h == Head_((n - 1) + k)
               p == Part(k)
               e == seq[(n - 1) + k + 1]
    <3>2. h \in Seq(A) /\ p \in Seq(A) /\ e \in A
          /\ Head_((n - 1) + (k + 1)) = Append(h, e) /\ Part(k + 1) = Append(p, e)
      BY <1>3, <1>4, <3>1
    <3>3. KeptIn(p, S) = KeptIn(h, S)
      BY <2>2
    <3> HIDE DEF h, p, e, Head_, Part
    <3>4. /\ e \in S => KeptIn(Append(h, e), S) = Append(KeptIn(h, S), e)
          /\ e \notin S => KeptIn(Append(h, e), S) = KeptIn(h, S)
      BY <1>0, <3>2
    <3>5. /\ e \in S => KeptIn(Append(p, e), S) = Append(KeptIn(p, S), e)
          /\ e \notin S => KeptIn(Append(p, e), S) = KeptIn(p, S)
      BY <1>0, <3>2
    <3>6. KeptIn(Append(h, e), S) = KeptIn(Append(p, e), S)
      BY <3>3, <3>4, <3>5
    <3> QED BY <3>1, <3>2, <3>6
  <2> HIDE DEF V
  <2> QED BY <1>1, <2>1, <2>2, UpTo
<1>7. (n - 1) + (Len(seq) - (n - 1)) = Len(seq)
  BY <1>1
<1>8. Head_(Len(seq)) = seq
  BY SubSeqFull
<1> HIDE DEF Head_
<1> QED BY <1>6, <1>7, <1>8

(* What is kept was there.                                                  *)
LEMMA KeptAreThere ==
  ASSUME NEW A, NEW S
  PROVE  \A seq \in Seq(A) :
           \A i \in 1..Len(KeptIn(seq, S)) :
             KeptIn(seq, S)[i] \in S /\ \E j \in 1..Len(seq) : KeptIn(seq, S)[i] = seq[j]
<1> TAKE seq \in Seq(A)
<1> DEFINE m == Len(seq)
           B == {seq[j] : j \in {l \in 1..m : seq[l] \in S}}
<1>1. PICK st \in [0..m -> Seq(A)] :
        /\ st[0] = <<>>
        /\ \A k \in 0..(m - 1) : st[k + 1] = KeepStep(st[k], seq[k + 1], S)
        /\ KeptIn(seq, S) = st[m]
  BY KeptSteps
<1>2. m \in Nat
  OBVIOUS
<1> DEFINE U == {k \in 0..m : st[k] \in Seq(B)}
<1>3. 0 \in U
  BY <1>1, <1>2, EmptySeq
<1>4. ASSUME NEW k \in 0..(m - 1), k \in U PROVE k + 1 \in U
  <2>1. k + 1 \in 1..m /\ k + 1 \in 0..m
    BY <1>2
  <2>2. st[k + 1] = KeepStep(st[k], seq[k + 1], S) /\ st[k] \in Seq(B)
    BY <1>1, <1>4
  <2>3. seq[k + 1] \in S => seq[k + 1] \in B
    BY <2>1
  <2> HIDE DEF B
  <2>4. seq[k + 1] \in B => Append(st[k], seq[k + 1]) \in Seq(B)
    BY <2>2, AppendProperties
  <2>5. st[k + 1] \in Seq(B)
    BY <2>2, <2>3, <2>4 DEF KeepStep
  <2> QED BY <2>1, <2>5
<1>5. m \in U
  <2> HIDE DEF U
  <2> QED BY <1>2, <1>3, <1>4, UpTo
<1>6. KeptIn(seq, S) \in Seq(B)
  BY <1>1, <1>5
<1>7. \A i \in 1..Len(KeptIn(seq, S)) : KeptIn(seq, S)[i] \in B
  <2> HIDE DEF B
  <2> QED BY <1>6
<1> QED BY <1>7

-----------------------------------------------------------------------------
(***************************************************************************)
(* Queues: what is left of one, and the IMU that is heard.                 *)
(***************************************************************************)
Sorted(q) == \A i \in DOMAIN q : \A j \in 1..(i - 1) : q[j] < q[i]

LEMMA ConstantTypes ==
  /\ gyro_max_gap \in Nat /\ GYRO_KEEP \in Nat /\ imu_gravity_window \in Nat
  /\ GRAVITY_KEEP \in Nat /\ FrontEndLag \in Nat /\ FrontEndLag <= GRAVITY_KEEP
  /\ imu_gravity_min_samples \in Nat /\ imu_gravity_min_samples >= 1
  /\ Keep \in Nat
  /\ "" \notin Imus
  /\ \A t \in Times : t \in Nat /\ t >= 1
  /\ \A r \in Readings : r.imu \in Imus /\ r.t \in Times /\ r.t \in Nat
<1>1. /\ gyro_max_gap \in Nat /\ GYRO_KEEP \in Nat /\ imu_gravity_window \in Nat
      /\ GRAVITY_KEEP \in Nat /\ FrontEndLag \in Nat /\ MaxTime \in Nat
      /\ imu_gravity_min_samples \in Nat /\ imu_gravity_min_samples # 0
  BY ParametersAssumption
<1>0. "" \notin Imus
  BY ParametersAssumption DEF Imus
<1>2. Keep \in Nat
  BY <1>1 DEF Keep
<1>3. \A t \in Times : t \in Nat /\ t >= 1
  BY <1>1 DEF Times
<1>4. \A r \in Readings : r.imu \in Imus /\ r.t \in Times /\ r.t \in Nat
  BY <1>3 DEF Readings
<1>5. FrontEndLag <= GRAVITY_KEEP /\ imu_gravity_min_samples >= 1
  BY <1>1, LagAssumption
<1> QED BY <1>0, <1>1, <1>2, <1>3, <1>4, <1>5

LEMMA FromFacts ==
  ASSUME NEW A, NEW seq \in Seq(A), NEW n \in 1..Len(seq)
  PROVE  /\ From(seq, n) = SubSeq(seq, n, Len(seq))
         /\ From(seq, n) \in Seq(A) /\ From(seq, n) # <<>>
         /\ Len(From(seq, n)) = (Len(seq) - n) + 1
         /\ \A i \in 1..((Len(seq) - n) + 1) : From(seq, n)[i] = seq[(n + i) - 1]
         /\ Last(From(seq, n)) = Last(seq)
<1> DEFINE rest == SubSeq(seq, n, Len(seq))
           m == Len(seq)
<1>1. m \in Nat /\ n \in Nat /\ n <= m /\ n # 0 /\ \A i \in n..m : seq[i] \in A
  OBVIOUS
<1>2. /\ rest \in Seq(A)
      /\ Len(rest) = IF n <= m THEN m - n + 1 ELSE 0
      /\ \A i \in 1..(m - n + 1) : rest[i] = seq[n + i - 1]
  BY <1>1, SubSeqProperties
<1>3. From(seq, n) = rest
  BY <1>1 DEF From
<1> HIDE DEF rest, m
<1>4. Len(rest) = (m - n) + 1 /\ (m - n) + 1 \in 1..((m - n) + 1) /\ (n + ((m - n) + 1)) - 1 = m
  BY <1>1, <1>2
<1>5. rest # <<>>
  <2>1. Len(<<>>) = 0 /\ (m - n) + 1 # 0
    BY <1>1
  <2> QED BY <1>4, <2>1
<1>6. \A i \in 1..((m - n) + 1) : rest[i] = seq[(n + i) - 1]
  BY <1>1, <1>2
<1>7. Last(rest) = seq[m]
  BY <1>4, <1>6 DEF Last
<1>8. Last(seq) = seq[m]
  BY DEF Last, m
<1> QED BY <1>2, <1>3, <1>4, <1>5, <1>6, <1>7, <1>8 DEF rest, m

(* The readings that are too old are cut off, never the one that came.      *)
LEMMA PrunedIs ==
  ASSUME NEW samples \in Seq(Readings), NEW r \in Readings, NEW keep \in Nat
  PROVE  \E n \in 1..(Len(samples) + 1) :
           /\ Pruned(Append(samples, r), r.t, keep) = From(Append(samples, r), n)
           /\ \A i \in 1..(n - 1) : r.t - Append(samples, r)[i].t > keep
           /\ r.t - Append(samples, r)[n].t <= keep
<1> DEFINE more == Append(samples, r)
           m == Len(samples)
           I == {i \in 1..Len(more) : r.t - more[i].t <= keep}
<1>1. more \in Seq(Readings) /\ Len(more) = m + 1 /\ more[m + 1] = r /\ m \in Nat
      /\ \A i \in 1..(m + 1) : more[i] \in Readings
  BY AppendProperties
<1> HIDE DEF more, m
<1>2. r.t \in Nat /\ \A i \in 1..(m + 1) : more[i].t \in Nat
  BY <1>1, ConstantTypes
<1>3. I \in SUBSET (1..(m + 1)) /\ m + 1 \in I /\ m + 1 \in Nat
  BY <1>1, <1>2
<1>4. Min(I) \in I /\ \A i \in I : Min(I) <= i
  <2>1. I # {}
    BY <1>3
  <2> HIDE DEF I
  <2> QED BY <1>3, <2>1, MinOfNumbers
<1>5. Pruned(more, r.t, keep) = From(more, Min(I))
  BY <1>3 DEF Pruned, SelectInSeq
<1>6. \A i \in 1..(Min(I) - 1) : r.t - more[i].t > keep
  <2> SUFFICES ASSUME NEW i \in 1..(Min(I) - 1) PROVE r.t - more[i].t > keep
    OBVIOUS
  <2>1. i \in 1..(m + 1) /\ ~ (Min(I) <= i)
    BY <1>1, <1>3, <1>4
  <2>2. i \notin I
    BY <1>4, <2>1
  <2> QED BY <1>1, <1>2, <2>1, <2>2
<1> QED BY <1>1, <1>3, <1>4, <1>5, <1>6 DEF more, m

(* The keyframes before a reading wait no more: those at the front.         *)
LEMMA StillPendingIs ==
  ASSUME stamps \in Seq(Times), Sorted(stamps),
         NEW pending \in Seq(DOMAIN stamps), Sorted(pending), NEW r \in Readings
  PROVE  /\ StillPending(pending, r) \in Seq(DOMAIN stamps)
         /\ Sorted(StillPending(pending, r))
         /\ ToSet(StillPending(pending, r)) = {k \in ToSet(pending) : stamps[k] >= r.t}
<1> DEFINE m == Len(pending)
           I == {i \in 1..m : stamps[pending[i]] >= r.t}
           left == StillPending(pending, r)
<1>1. m \in Nat /\ DOMAIN pending = 1..m /\ \A i \in 1..m : pending[i] \in DOMAIN stamps
  OBVIOUS
<1>2. r.t \in Nat /\ \A k \in DOMAIN stamps : k \in Nat /\ k >= 1 /\ stamps[k] \in Nat
  <2>1. \A k \in DOMAIN stamps : k \in Nat /\ k >= 1 /\ stamps[k] \in Times
    OBVIOUS
  <2> QED BY <2>1, ConstantTypes
<1>3. \A i \in 1..m : \A j \in 1..(i - 1) : stamps[pending[j]] < stamps[pending[i]]
  <2> TAKE i \in 1..m
  <2> TAKE j \in 1..(i - 1)
  <2>1. pending[j] < pending[i]
    <3> HIDE DEF m
    <3> QED BY <1>1 DEF Sorted
  <2>0. j \in 1..m
    BY <1>1
  <2>2. pending[i] \in DOMAIN stamps /\ pending[j] \in 1..(pending[i] - 1)
    BY <1>1, <1>2, <2>0, <2>1
  <2> QED BY <2>2 DEF Sorted
<1>4. CASE I = {}
  <2>1. left = <<>>
    BY <1>4 DEF StillPending, SelectInSeq, From
  <2>2. ToSet(left) = {} /\ left \in Seq(DOMAIN stamps) /\ Sorted(left)
    BY <2>1, EmptySeq DEF ToSet, Sorted
  <2>3. {k \in ToSet(pending) : stamps[k] >= r.t} = {}
    BY <1>1, <1>4 DEF ToSet
  <2> QED BY <2>2, <2>3
<1>5. CASE I # {}
  <2> DEFINE n == Min(I)
  <2>1. n \in I /\ \A i \in I : n <= i
    <3>1. I \in SUBSET (1..m)
      OBVIOUS
    <3> HIDE DEF I, m
    <3> QED BY <1>1, <1>5, <3>1, MinOfNumbers
  <2>2. left = From(pending, n)
    BY <1>5 DEF StillPending, SelectInSeq
  <2> HIDE DEF n, left
  <2>3. n \in 1..m /\ stamps[pending[n]] >= r.t
    BY <2>1
  <2>4. /\ left \in Seq(DOMAIN stamps)
        /\ Len(left) = (m - n) + 1
        /\ \A i \in 1..((m - n) + 1) : left[i] = pending[(n + i) - 1]
    BY <2>2, <2>3, FromFacts
  <2>5. DOMAIN left = 1..((m - n) + 1)
    BY <2>4
  <2>6. \A i \in 1..((m - n) + 1) : (n + i) - 1 \in n..m
    BY <1>1, <2>3
  <2>7. Sorted(left)
    <3> SUFFICES ASSUME NEW i \in 1..((m - n) + 1), NEW j \in 1..(i - 1)
                 PROVE  left[j] < left[i]
      BY <2>5 DEF Sorted
    <3>1. j \in 1..((m - n) + 1) /\ (n + i) - 1 \in 1..m /\ (n + j) - 1 \in 1..(((n + i) - 1) - 1)
      BY <1>1, <2>3
    <3> QED BY <1>1, <2>4, <3>1 DEF Sorted
  <2>8. ASSUME NEW i \in n..m PROVE stamps[pending[i]] >= r.t
    <3>1. i = n \/ n \in 1..(i - 1)
      BY <1>1, <2>3
    <3>2. i \in 1..m /\ stamps[pending[i]] \in Nat /\ stamps[pending[n]] \in Nat
      BY <1>1, <1>2, <2>3
    <3> QED BY <1>2, <1>3, <2>3, <3>1, <3>2
  <2>9. ASSUME NEW i \in 1..m, stamps[pending[i]] >= r.t PROVE pending[i] \in ToSet(left)
    <3>1. i \in I
      BY <2>9
    <3>2. (i - n) + 1 \in 1..((m - n) + 1) /\ (n + ((i - n) + 1)) - 1 = i
      BY <1>1, <2>1, <2>3, <3>1
    <3> QED BY <2>4, <2>5, <3>2 DEF ToSet
  <2>10. ASSUME NEW i \in 1..((m - n) + 1)
         PROVE  left[i] \in ToSet(pending) /\ stamps[left[i]] >= r.t
    <3>1. (n + i) - 1 \in n..m /\ (n + i) - 1 \in 1..m
      BY <1>1, <2>3
    <3> QED BY <1>1, <2>4, <2>8, <3>1 DEF ToSet
  <2>11. ToSet(left) = {k \in ToSet(pending) : stamps[k] >= r.t}
    BY <1>1, <2>5, <2>9, <2>10 DEF ToSet
  <2> QED BY <2>4, <2>7, <2>11 DEF left
<1> QED BY <1>4, <1>5

LEMMA KeptNothing ==
  ASSUME NEW A, NEW S
  PROVE  \A seq \in Seq(A) : (\A i \in 1..Len(seq) : seq[i] \notin S) => KeptIn(seq, S) = <<>>
<1> SUFFICES ASSUME NEW seq \in Seq(A), \A i \in 1..Len(seq) : seq[i] \notin S
             PROVE  KeptIn(seq, S) = <<>>
  OBVIOUS
<1> DEFINE kept == KeptIn(seq, S)
<1>1. kept \in Seq(A)
  BY KeptTyped, SMT
<1>2. \A i \in 1..Len(kept) : kept[i] \in S /\ \E j \in 1..Len(seq) : kept[i] = seq[j]
  <2>1. \A s \in Seq(A) :
          \A i \in 1..Len(KeptIn(s, S)) :
            KeptIn(s, S)[i] \in S /\ \E j \in 1..Len(s) : KeptIn(s, S)[i] = s[j]
    BY KeptAreThere, SMT
  <2> QED BY <2>1
<1> HIDE DEF kept
<1>3. ~ (1 \in 1..Len(kept))
  BY <1>2
<1>4. Len(kept) = 0
  BY <1>1, <1>3
<1>5. kept = <<>>
  BY <1>1, <1>4, EmptySeq
<1> QED BY <1>5 DEF kept

(* The IMU that is heard first.                                             *)
LEMMA FirstHeard ==
  ASSUME received \in Seq(Readings), NEW imus \in SUBSET Imus
  PROVE  \/ /\ HeardImu(imus) = ""
            /\ \A i \in 1..Len(received) : received[i].imu \notin imus
         \/ \E n \in 1..Len(received) :
              /\ HeardImu(imus) = received[n].imu /\ received[n].imu \in imus
              /\ HeardImu(imus) # ""
              /\ \A i \in 1..(n - 1) : received[i].imu \notin imus
<1> DEFINE m == Len(received)
           I == {i \in 1..m : received[i].imu \in imus}
<1>1. m \in Nat /\ I \in SUBSET (1..m)
  OBVIOUS
<1>2. CASE I = {}
  <2>1. HeardImu(imus) = ""
    BY <1>2 DEF HeardImu, SelectInSeq
  <2> QED BY <1>2, <2>1
<1>3. CASE I # {}
  <2> DEFINE n == Min(I)
  <2>1. n \in I /\ \A i \in I : n <= i
    <3> HIDE DEF I
    <3> QED BY <1>1, <1>3, MinOfNumbers
  <2>2. n # 0
    BY <1>1, <2>1
  <2>3. HeardImu(imus) = received[n].imu
    BY <1>3, <2>2 DEF HeardImu, SelectInSeq
  <2> HIDE DEF n
  <2>4. \A i \in 1..(n - 1) : received[i].imu \notin imus
    <3> SUFFICES ASSUME NEW i \in 1..(n - 1) PROVE received[i].imu \notin imus
      OBVIOUS
    <3>1. i \in 1..m /\ ~ (n <= i)
      BY <1>1, <2>1
    <3> QED BY <2>1, <3>1
  <2>5. "" \notin imus
    BY ConstantTypes
  <2> QED BY <2>1, <2>3, <2>4, <2>5
<1> QED BY <1>2, <1>3

LEMMA HeardNext ==
  ASSUME received \in Seq(Readings), NEW r \in Readings,
         received' = Append(received, r), NEW imus \in SUBSET Imus
  PROVE  /\ Heard(imus) \in Seq(Readings)
         /\ HeardImu(imus)' = IF r.imu \in imus THEN Latched(HeardImu(imus), r.imu)
                              ELSE HeardImu(imus)
         /\ Heard(imus)' = IF r.imu \in imus /\ r.imu = HeardImu(imus)'
                           THEN Append(Heard(imus), r) ELSE Heard(imus)
<1> DEFINE m == Len(received)
           more == Append(received, r)
           imu == HeardImu(imus)
           S == [imu : {imu}, t : Times]
<1>1. /\ more \in Seq(Readings) /\ Len(more) = m + 1 /\ m \in Nat
      /\ \A i \in 1..m : more[i] = received[i]
      /\ more[m + 1] = r
  BY AppendProperties
<1>11. \A i \in 1..(m + 1) : i \in 1..m \/ i = m + 1
  BY <1>1
<1>12. 1..m \subseteq 1..(m + 1) /\ m + 1 \in 1..(m + 1)
  BY <1>1
<1> HIDE DEF more
<1>2. \/ /\ imu = ""
         /\ \A i \in 1..m : received[i].imu \notin imus
      \/ \E n \in 1..m :
           /\ imu = received[n].imu /\ received[n].imu \in imus
           /\ imu # ""
           /\ \A i \in 1..(n - 1) : received[i].imu \notin imus
  BY FirstHeard
<1>3. \/ /\ HeardImu(imus)' = ""
         /\ \A i \in 1..(m + 1) : more[i].imu \notin imus
      \/ \E n \in 1..(m + 1) :
           /\ HeardImu(imus)' = more[n].imu /\ more[n].imu \in imus
           /\ HeardImu(imus)' # ""
           /\ \A i \in 1..(n - 1) : more[i].imu \notin imus
  <2> DEFINE first == SelectInSeq(more, LAMBDA s : s.imu \in imus)
             I == {i \in 1..(m + 1) : more[i].imu \in imus}
  <2>1. HeardImu(imus)' = IF first = 0 THEN "" ELSE more[first].imu
    BY DEF HeardImu, SelectInSeq, more
  <2>2. I \in SUBSET (1..(m + 1)) /\ m + 1 \in Nat
    BY <1>1
  <2>3. CASE I = {}
    <3>1. first = 0
      BY <1>1, <2>3 DEF SelectInSeq
    <3> QED BY <2>1, <2>3, <3>1
  <2>4. CASE I # {}
    <3>1. first = Min(I)
      BY <1>1, <2>4 DEF SelectInSeq
    <3>2. Min(I) \in I /\ \A i \in I : Min(I) <= i
      <4> HIDE DEF I
      <4> QED BY <2>2, <2>4, MinOfNumbers
    <3> DEFINE n == Min(I)
    <3> HIDE DEF n, first
    <3>3. n \in 1..(m + 1) /\ n # 0 /\ more[n].imu \in imus /\ first = n
      BY <1>1, <3>1, <3>2 DEF n
    <3>4. \A i \in 1..(n - 1) : more[i].imu \notin imus
      <4> SUFFICES ASSUME NEW i \in 1..(n - 1) PROVE more[i].imu \notin imus
        OBVIOUS
      <4>1. i \in 1..(m + 1) /\ ~ (n <= i)
        BY <1>1, <3>3
      <4>2. i \notin I
        BY <3>2, <4>1 DEF n
      <4> QED BY <4>1, <4>2
    <3>5. "" \notin imus
      BY ConstantTypes
    <3>6. HeardImu(imus)' = more[n].imu
      BY <2>1, <3>3
    <3> QED BY <3>3, <3>4, <3>5, <3>6
  <2> QED BY <2>3, <2>4
<1>4. "" \notin imus /\ r.imu # "" /\ r.imu \in Imus /\ r.t \in Times
      /\ \A i \in 1..m : received[i].imu # ""
  <2>1. \A i \in 1..m : received[i] \in Readings
    OBVIOUS
  <2> QED BY <2>1, ConstantTypes
<1> HIDE DEF imu, m
<1>5. HeardImu(imus)' = IF r.imu \in imus THEN Latched(imu, r.imu) ELSE imu
  <2>1. CASE imu = "" /\ \A i \in 1..m : received[i].imu \notin imus
    <3>1. CASE r.imu \in imus
      <4>1. \A n \in 1..(m + 1) : more[n].imu \in imus => more[n] = r
        BY <1>1, <1>11, <2>1
      <4>2. HeardImu(imus)' = r.imu
        BY <1>1, <1>3, <1>12, <3>1, <4>1
      <4> QED BY <2>1, <3>1, <4>2 DEF Latched
    <3>2. CASE r.imu \notin imus
      <4>1. \A n \in 1..(m + 1) : more[n].imu \notin imus
        BY <1>1, <1>11, <2>1, <3>2
      <4> QED BY <1>3, <2>1, <3>2, <4>1
    <3> QED BY <3>1, <3>2
  <2>2. ASSUME NEW n \in 1..m, imu = received[n].imu, received[n].imu \in imus, imu # "",
               \A i \in 1..(n - 1) : received[i].imu \notin imus
        PROVE  HeardImu(imus)' = imu
    <3>1. more[n].imu \in imus /\ n \in 1..(m + 1)
      BY <1>1, <1>12, <2>2
    <3>2. PICK l \in 1..(m + 1) :
            /\ HeardImu(imus)' = more[l].imu /\ more[l].imu \in imus
            /\ \A i \in 1..(l - 1) : more[i].imu \notin imus
      BY <1>3, <3>1
    <3>3. ~ (n \in 1..(l - 1))
      BY <3>1, <3>2
    <3>4. l \in 1..m
      BY <1>1, <3>3
    <3>5. ~ (l \in 1..(n - 1))
      BY <1>1, <2>2, <3>2, <3>4
    <3>6. l = n
      BY <3>3, <3>4, <3>5
    <3> QED BY <1>1, <2>2, <3>2, <3>6
  <2> QED BY <1>2, <2>1, <2>2 DEF Latched
<1>6. Heard(imus) = KeptIn(received, S) /\ Heard(imus) \in Seq(Readings)
  <2>1. Heard(imus) = KeptIn(received, S)
    BY DEF Heard, imu
  <2>2. \A seq \in Seq(Readings), e \in Readings : KeptIn(seq, S) \in Seq(Readings)
    BY KeptAppend, SMT
  <2> HIDE DEF S
  <2> QED BY <2>1, <2>2
<1>7. Heard(imus)' = KeptIn(more, [imu : {HeardImu(imus)'}, t : Times])
  BY DEF Heard, more
<1>8. KeptIn(more, S) = IF r.imu = imu THEN Append(Heard(imus), r) ELSE Heard(imus)
  <2>2. r \in S <=> r.imu = imu
    BY DEF Readings
  <2> HIDE DEF S
  <2>1. \A seq \in Seq(Readings), e \in Readings :
          /\ e \in S => KeptIn(Append(seq, e), S) = Append(KeptIn(seq, S), e)
          /\ e \notin S => KeptIn(Append(seq, e), S) = KeptIn(seq, S)
    BY KeptAppend, SMT
  <2> QED BY <1>6, <2>1, <2>2 DEF more
<1>9. CASE HeardImu(imus)' = imu
  <2>1. r.imu = imu => r.imu \in imus
    BY <1>2, <1>4
  <2> QED BY <1>5, <1>6, <1>7, <1>8, <1>9, <2>1 DEF imu
<1>10. CASE HeardImu(imus)' # imu
  <2>1. r.imu \in imus /\ imu = "" /\ HeardImu(imus)' = r.imu
    BY <1>5, <1>10 DEF Latched
  <2>2. \A i \in 1..m : received[i].imu \notin imus
    BY <1>2, <2>1
  <2> DEFINE T == [imu : {r.imu}, t : Times]
  <2>3. \A i \in 1..m : received[i] \notin T /\ received[i] \notin S
    BY <1>4, <2>1, <2>2
  <2>5. r \in T
    BY DEF Readings
  <2>6. KeptIn(more, [imu : {HeardImu(imus)'}, t : Times]) = KeptIn(more, T)
    BY <2>1
  <2> HIDE DEF S, T
  <2>4. \A seq \in Seq(Readings), e \in Readings :
          e \in T => KeptIn(Append(seq, e), T) = Append(KeptIn(seq, T), e)
    BY KeptAppend, SMT
  <2>7. KeptIn(received, T) = <<>> /\ KeptIn(received, S) = <<>>
    <3>1. \A seq \in Seq(Readings) :
            (\A i \in 1..Len(seq) : seq[i] \notin T) => KeptIn(seq, T) = <<>>
      BY KeptNothing, SMT
    <3>2. \A seq \in Seq(Readings) :
            (\A i \in 1..Len(seq) : seq[i] \notin S) => KeptIn(seq, S) = <<>>
      BY KeptNothing, SMT
    <3> QED BY <2>3, <3>1, <3>2 DEF m
  <2> QED BY <1>5, <1>6, <1>7, <2>1, <2>4, <2>5, <2>6, <2>7 DEF more, imu
<1> QED BY <1>5, <1>6, <1>9, <1>10 DEF imu

-----------------------------------------------------------------------------
(***************************************************************************)
(* The invariant.                                                          *)
(***************************************************************************)
Labels == Imus \cup {""}

TypeInv ==
  /\ stamps \in Seq(Times) /\ Sorted(stamps)
  /\ rotation \in Seq([R : Seq(Readings), bias : Labels]) /\ Len(rotation) = Len(stamps)
  /\ gravity \in Seq(Seq(Readings)) /\ Len(gravity) = Len(stamps)
  /\ {gyro_label_, gravity_label_} \subseteq Labels
  /\ {gyro_samples_, imu_samples_, received} \subseteq Seq(Readings)
  /\ pending_gravity_ \in Seq(DOMAIN stamps) /\ Sorted(pending_gravity_)
  /\ request \in [t : Times, bias : Labels] \cup {NoRequest}

(* The queue ends with the newest reading, and has all of the window of     *)
(* every keyframe that can still come or wait.                              *)
QueueInv ==
  LET h == Heard(GravityImus)
  IN  /\ imu_samples_ = <<>> <=> h = <<>>
      /\ Newest(imu_samples_) = Newest(h)
      /\ InOrder => \A t \in Times :
           Newest(h) - t <= GRAVITY_KEEP => InWindow(imu_samples_, t) = InWindow(h, t)

GravityInv ==
  /\ gravity_label_ = HeardImu(GravityImus)
  /\ QueueInv
  /\ GravityComplete
  /\ GravityWaits

TimesIncrease(samples) ==
  \A i \in DOMAIN samples : \A j \in 1..(i - 1) : samples[j].t < samples[i].t

(* The queue is what is left of the gyroscope's readings.                   *)
GyroInv ==
  /\ gyro_label_ = HeardImu(GyroImus)
  /\ TimesIncrease(gyro_samples_)
  /\ ToSet(gyro_samples_) = {s \in Gyro : Newest(gyro_samples_) - s.t <= GYRO_KEEP}
  /\ \A i \in DOMAIN received :
       received[i].imu = gyro_label_ => received[i].t <= Newest(gyro_samples_)
  /\ request.bias \in {"", gyro_label_}

IInv == TypeInv /\ GravityInv /\ GyroInv

-----------------------------------------------------------------------------
(***************************************************************************)
(* Windows of readings.                                                    *)
(***************************************************************************)
LEMMA WindowTyped ==
  ASSUME NEW q \in Seq(Readings), NEW t
  PROVE  InWindow(q, t) \in Seq(Readings)
<1> DEFINE W == {s \in Readings : t - s.t \in 0..imu_gravity_window}
<1>1. InWindow(q, t) = KeptIn(q, W)
  BY DEF InWindow
<1> HIDE DEF W
<1>2. \A p \in Seq(Readings) : KeptIn(p, W) \in Seq(Readings)
  BY KeptTyped, SMT
<1> QED BY <1>1, <1>2

LEMMA WindowAppend ==
  ASSUME NEW t \in Times
  PROVE  \A q \in Seq(Readings), e \in Readings :
           /\ InWindow(q, t) \in Seq(Readings)
           /\ t - e.t \in 0..imu_gravity_window =>
                InWindow(Append(q, e), t) = Append(InWindow(q, t), e)
           /\ t - e.t \notin 0..imu_gravity_window =>
                InWindow(Append(q, e), t) = InWindow(q, t)
<1> DEFINE W == {s \in Readings : t - s.t \in 0..imu_gravity_window}
<1>1. \A q : InWindow(q, t) = KeptIn(q, W)
  BY DEF InWindow
<1>2. \A e \in Readings : e \in W <=> t - e.t \in 0..imu_gravity_window
  OBVIOUS
<1> HIDE DEF W
<1>3. \A q \in Seq(Readings), e \in Readings :
        /\ KeptIn(q, W) \in Seq(Readings)
        /\ e \in W => KeptIn(Append(q, e), W) = Append(KeptIn(q, W), e)
        /\ e \notin W => KeptIn(Append(q, e), W) = KeptIn(q, W)
  BY KeptAppend, SMT
<1> QED BY <1>1, <1>2, <1>3

(* What is pruned is of no window of a time that is not too long ago.       *)
LEMMA PrunedWindow ==
  ASSUME NEW samples \in Seq(Readings), NEW r \in Readings
  PROVE  LET left == Pruned(Append(samples, r), r.t, Keep)
         IN  /\ left \in Seq(Readings) /\ left # <<>> /\ Newest(left) = r.t
             /\ \A t \in Times : r.t - t <= GRAVITY_KEEP =>
                  InWindow(left, t) = InWindow(Append(samples, r), t)
<1> DEFINE more == Append(samples, r)
           m == Len(samples)
           left == Pruned(more, r.t, Keep)
<1>1. more \in Seq(Readings) /\ Len(more) = m + 1 /\ more[m + 1] = r /\ m \in Nat
      /\ \A i \in 1..(m + 1) : more[i] \in Readings
  BY AppendProperties
<1>2. PICK n \in 1..(m + 1) :
        /\ left = From(more, n)
        /\ \A i \in 1..(n - 1) : r.t - more[i].t > Keep
  BY ConstantTypes, PrunedIs
<1> HIDE DEF more, m, left
<1>3. /\ left = SubSeq(more, n, Len(more))
      /\ left \in Seq(Readings) /\ left # <<>>
      /\ Last(left) = Last(more)
  BY <1>1, <1>2, FromFacts
<1>4. Newest(left) = r.t
  BY <1>1, <1>3 DEF Newest, Last
<1>5. ASSUME NEW t \in Times, r.t - t <= GRAVITY_KEEP
      PROVE  InWindow(left, t) = InWindow(more, t)
  <2> DEFINE W == {s \in Readings : t - s.t \in 0..imu_gravity_window}
  <2>1. \A i \in 1..(n - 1) : more[i] \notin W
    <3> SUFFICES ASSUME NEW i \in 1..(n - 1) PROVE ~ (t - more[i].t \in 0..imu_gravity_window)
      OBVIOUS
    <3>1. i \in 1..(m + 1) /\ r.t - more[i].t > imu_gravity_window + GRAVITY_KEEP
      BY <1>1, <1>2 DEF Keep
    <3>2. more[i].t \in Nat /\ r.t \in Nat /\ t \in Nat
          /\ imu_gravity_window \in Nat /\ GRAVITY_KEEP \in Nat
      BY <1>1, <3>1, ConstantTypes
    <3>3. t - more[i].t > imu_gravity_window
      BY <1>5, <3>1, <3>2
    <3> QED BY <3>2, <3>3
  <2>2. InWindow(left, t) = KeptIn(left, W) /\ InWindow(more, t) = KeptIn(more, W)
    BY DEF InWindow
  <2> HIDE DEF W
  <2>3. \A seq \in Seq(Readings) : \A k \in 1..Len(seq) :
          (\A i \in 1..(k - 1) : seq[i] \notin W)
            => KeptIn(SubSeq(seq, k, Len(seq)), W) = KeptIn(seq, W)
    BY KeptSuffix, SMT
  <2>4. n \in 1..Len(more)
    BY <1>1, <1>2
  <2> QED BY <1>1, <1>3, <2>1, <2>2, <2>3, <2>4
<1> QED BY <1>3, <1>4, <1>5 DEF more, left

LEMMA AveragedIs ==
  ASSUME NEW q \in Seq(Readings), NEW t \in Times
  PROVE  /\ Averaged(q, t) \in Seq(Readings)
         /\ Averaged(q, t) = <<>> => Len(InWindow(q, t)) < imu_gravity_min_samples
         /\ Averaged(q, t) # <<>> => /\ Averaged(q, t) = InWindow(q, t)
                                     /\ Len(InWindow(q, t)) >= imu_gravity_min_samples
<1> DEFINE window == InWindow(q, t)
<1>1. window \in Seq(Readings)
  BY WindowTyped
<1>2. imu_gravity_min_samples \in Nat /\ imu_gravity_min_samples >= 1
  BY ConstantTypes
<1>3. Averaged(q, t) = IF Len(window) < imu_gravity_min_samples THEN <<>> ELSE window
  BY DEF Averaged
<1> HIDE DEF window
<1>4. Len(window) \in Nat
  BY <1>1
<1>5. window = <<>> => Len(window) = 0
  BY EmptySeq
<1>6. <<>> \in Seq(Readings)
  BY EmptySeq
<1> QED BY <1>1, <1>2, <1>3, <1>4, <1>5, <1>6 DEF window

-----------------------------------------------------------------------------
(***************************************************************************)
(* Gravity: a reading comes.                                               *)
(***************************************************************************)
LEMMA HeardTyped ==
  ASSUME received \in Seq(Readings), NEW imus
  PROVE  Heard(imus) \in Seq(Readings)
<1> DEFINE S == [imu : {HeardImu(imus)}, t : Times]
<1>1. Heard(imus) = KeptIn(received, S)
  BY DEF Heard
<1> HIDE DEF S
<1>2. \A q \in Seq(Readings) : KeptIn(q, S) \in Seq(Readings)
  BY KeptTyped, SMT
<1> QED BY <1>1, <1>2

LEMMA NewestIs ==
  ASSUME NEW q \in Seq(Readings)
  PROVE  /\ Newest(q) \in Nat
         /\ q = <<>> => Newest(q) = 0
         /\ q # <<>> => /\ Newest(q) = q[Len(q)].t
                        /\ Len(q) \in 1..Len(q) /\ q[Len(q)] \in Readings
         /\ \A r \in Readings : Append(q, r) # <<>> /\ Newest(Append(q, r)) = r.t
<1>1. q # <<>> => Len(q) \in 1..Len(q) /\ q[Len(q)] \in Readings
  <2>1. q # <<>> => Len(q) # 0
    BY EmptySeq
  <2> QED BY <2>1
<1>2. q # <<>> => Newest(q) = q[Len(q)].t
  BY DEF Newest, Last
<1>3. q = <<>> => Newest(q) = 0
  BY DEF Newest
<1>4. Newest(q) \in Nat
  <2>1. q # <<>> => q[Len(q)].t \in Nat
    BY <1>1, ConstantTypes
  <2> QED BY <1>2, <1>3, <2>1
<1>5. ASSUME NEW r \in Readings PROVE Append(q, r) # <<>> /\ Newest(Append(q, r)) = r.t
  <2> DEFINE more == Append(q, r)
  <2>1. Len(more) = Len(q) + 1 /\ more[Len(q) + 1] = r /\ Len(q) \in Nat
    BY AppendProperties
  <2> HIDE DEF more
  <2>2. Len(<<>>) = 0 /\ Len(more) # 0
    BY <2>1
  <2> QED BY <2>1, <2>2 DEF Newest, Last, more
<1> QED BY <1>1, <1>2, <1>3, <1>4, <1>5

(* A reading that comes in order is newer than all before it.               *)
LEMMA InOrderNext ==
  ASSUME Heard(GravityImus) \in Seq(Readings), NEW r \in Readings,
         Heard(GravityImus)' = Append(Heard(GravityImus), r), InOrder'
  PROVE  InOrder /\ Newest(Heard(GravityImus)) < r.t
<1> DEFINE h == Heard(GravityImus)
           m == Len(h)
           more == Append(h, r)
<1>1. /\ more \in Seq(Readings) /\ DOMAIN more = 1..(m + 1) /\ m \in Nat /\ DOMAIN h = 1..m
      /\ \A i \in 1..m : more[i] = h[i]
      /\ more[m + 1] = r
  BY AppendProperties
<1>2. \A i \in 1..(m + 1) : \A j \in 1..(i - 1) : more[j].t < more[i].t
  BY <1>1 DEF InOrder
<1>3. /\ Newest(h) \in Nat
      /\ h = <<>> => Newest(h) = 0
      /\ h # <<>> => Newest(h) = h[m].t /\ m \in 1..m
      /\ r.t \in Nat /\ r.t >= 1
  BY ConstantTypes, NewestIs
<1> HIDE DEF h, m, more
<1>4. ASSUME NEW i \in 1..m, NEW j \in 1..(i - 1) PROVE h[j].t < h[i].t
  <2>1. i \in 1..(m + 1) /\ j \in 1..m
    BY <1>1
  <2> QED BY <1>1, <1>2, <2>1
<1>5. InOrder
  BY <1>1, <1>4 DEF InOrder, h
<1>6. Newest(h) < r.t
  <2>1. CASE h = <<>>
    BY <1>3, <2>1
  <2>2. CASE h # <<>>
    <3>1. m + 1 \in 1..(m + 1) /\ m \in 1..((m + 1) - 1)
      BY <1>1, <1>3, <2>2
    <3> QED BY <1>1, <1>2, <1>3, <2>2, <3>1
  <2> QED BY <2>1, <2>2
<1> QED BY <1>5, <1>6 DEF h

(* What a keyframe is given is all of its window of what was heard.         *)
LEMMA AllAveraged ==
  ASSUME NEW q \in Seq(Readings), NEW h \in Seq(Readings), NEW t \in Times,
         InWindow(q, t) = InWindow(h, t)
  PROVE  IF Averaged(q, t) = <<>>
         THEN Len(InWindow(h, t)) < imu_gravity_min_samples
         ELSE /\ Len(Averaged(q, t)) >= imu_gravity_min_samples
              /\ IsPrefix(Averaged(q, t), InWindow(h, t))
<1>1. InWindow(h, t) \in Seq(Readings)
  BY WindowTyped
<1>2. IsPrefix(InWindow(h, t), InWindow(h, t))
  BY <1>1, PrefixFacts
<1> QED BY <1>2, AveragedIs

LEMMA GravityStays ==
  ASSUME GravityInv, UNCHANGED <<stamps, gravity, imu_samples_, pending_gravity_>>,
         gravity_label_' = HeardImu(GravityImus)',
         Heard(GravityImus)' = Heard(GravityImus)
  PROVE  GravityInv'
<1>1. InOrder' = InOrder
  BY DEF InOrder
<1>2. QueueInv'
  BY <1>1 DEF GravityInv, QueueInv, InWindow, Newest
<1>3. Pending' = Pending
  BY DEF Pending
<1>4. \A k : AllInWindow(k)' = AllInWindow(k)
  BY DEF AllInWindow
<1>5. GravityComplete'
  BY <1>1, <1>3, <1>4 DEF GravityInv, GravityComplete
<1>6. GravityWaits'
  BY <1>1, <1>3 DEF GravityInv, GravityWaits, Newest
<1> QED BY <1>2, <1>5, <1>6 DEF GravityInv

LEMMA QueueGravityInv ==
  ASSUME TypeInv, GravityInv, NEW r \in Readings, r.imu \in GravityImus,
         gravity_label_' = HeardImu(GravityImus)',
         Heard(GravityImus)' = Append(Heard(GravityImus), r),
         QueueGravity(r), UNCHANGED stamps
  PROVE  /\ GravityInv'
         /\ gravity' \in Seq(Seq(Readings)) /\ Len(gravity') = Len(stamps)
         /\ imu_samples_' \in Seq(Readings)
         /\ pending_gravity_' \in Seq(DOMAIN stamps) /\ Sorted(pending_gravity_')
<1> DEFINE h == Heard(GravityImus)
           more == Append(h, r)
           samples == Append(imu_samples_, r)
           due == Pending \ Pending'
           newest == Newest(h)
<1>1. /\ stamps \in Seq(Times) /\ Sorted(stamps) /\ imu_samples_ \in Seq(Readings)
      /\ gravity \in Seq(Seq(Readings)) /\ Len(gravity) = Len(stamps)
      /\ pending_gravity_ \in Seq(DOMAIN stamps) /\ Sorted(pending_gravity_)
      /\ h \in Seq(Readings)
  BY HeardTyped DEF TypeInv
<1>2. /\ DOMAIN gravity = DOMAIN stamps /\ DOMAIN stamps = 1..Len(stamps) /\ Len(stamps) \in Nat
      /\ \A k \in DOMAIN stamps : stamps[k] \in Times /\ gravity[k] \in Seq(Readings)
  BY <1>1
<1>3. /\ more \in Seq(Readings) /\ samples \in Seq(Readings)
      /\ more # <<>> /\ Newest(more) = r.t /\ newest \in Nat /\ r.t \in Nat
  BY <1>1, AppendProperties, NewestIs, ConstantTypes
<1>4. /\ pending_gravity_' \in Seq(DOMAIN stamps) /\ Sorted(pending_gravity_')
      /\ Pending' = {k \in Pending : stamps[k] >= r.t}
      /\ Pending \subseteq DOMAIN stamps
  <2>1. pending_gravity_' = StillPending(pending_gravity_, r)
    BY DEF QueueGravity
  <2>2. Pending \subseteq DOMAIN stamps
    <3>1. \A i \in DOMAIN pending_gravity_ : pending_gravity_[i] \in DOMAIN stamps
      BY <1>1
    <3> QED BY <3>1 DEF Pending, ToSet
  <2> QED BY <1>1, <2>1, <2>2, StillPendingIs DEF Pending
<1>5. \A k \in DOMAIN stamps :
        gravity'[k] = IF k \in due THEN Averaged(samples, stamps[k]) ELSE gravity[k]
  BY <1>2 DEF QueueGravity, Pending
<1>6. gravity' \in Seq(Seq(Readings)) /\ Len(gravity') = Len(stamps) /\ DOMAIN gravity' = DOMAIN stamps
  <2>1. \A k \in DOMAIN stamps : gravity'[k] \in Seq(Readings)
    BY <1>2, <1>3, <1>5, AveragedIs
  <2>2. gravity' = [k \in 1..Len(stamps) |-> gravity'[k]]
    BY <1>2 DEF QueueGravity
  <2> QED BY <1>2, <2>1, <2>2, IsASeq
<1>7. /\ imu_samples_' \in Seq(Readings) /\ imu_samples_' # <<>> /\ Newest(imu_samples_') = r.t
      /\ \A t \in Times : r.t - t <= GRAVITY_KEEP =>
           InWindow(imu_samples_', t) = InWindow(samples, t)
  BY <1>1, PrunedWindow DEF QueueGravity
<1>8. Heard(GravityImus)' = more
  OBVIOUS
<1>9. /\ imu_samples_ = <<>> <=> h = <<>>
      /\ Newest(imu_samples_) = newest
      /\ InOrder => \A t \in Times :
           newest - t <= GRAVITY_KEEP => InWindow(imu_samples_, t) = InWindow(h, t)
  BY DEF GravityInv, QueueInv
<1>10. InOrder' => InOrder /\ newest < r.t
  BY <1>1, InOrderNext
<1>11. \A t \in Times :
         /\ t - r.t \in 0..imu_gravity_window =>
              /\ InWindow(more, t) = Append(InWindow(h, t), r)
              /\ InWindow(samples, t) = Append(InWindow(imu_samples_, t), r)
         /\ t - r.t \notin 0..imu_gravity_window =>
              /\ InWindow(more, t) = InWindow(h, t)
              /\ InWindow(samples, t) = InWindow(imu_samples_, t)
  BY <1>1, WindowAppend
<1> HIDE DEF h, more, samples, due, newest
<1>12. ASSUME InOrder', NEW t \in Times, newest - t <= GRAVITY_KEEP
       PROVE  InWindow(samples, t) = InWindow(more, t)
  BY <1>9, <1>10, <1>11, <1>12
<1>13. QueueInv'
  <2>1. ASSUME InOrder', NEW t \in Times, r.t - t <= GRAVITY_KEEP
        PROVE  InWindow(imu_samples_', t) = InWindow(more, t)
    <3>1. newest - t <= GRAVITY_KEEP
      <4>1. GRAVITY_KEEP \in Nat /\ t \in Nat
        BY ConstantTypes
      <4>2. newest < r.t
        BY <1>10, <2>1
      <4> QED BY <1>3, <2>1, <4>1, <4>2
    <3> QED BY <1>7, <1>12, <2>1, <3>1
  <2>2. Newest(Heard(GravityImus)') = r.t /\ Heard(GravityImus)' # <<>>
    BY <1>3, <1>8
  <2>3. \A t : InWindow(imu_samples_, t)' = InWindow(imu_samples_', t)
               /\ InWindow(Heard(GravityImus), t)' = InWindow(Heard(GravityImus)', t)
    BY DEF InWindow
  <2>4. Newest(imu_samples_)' = Newest(imu_samples_')
        /\ Newest(Heard(GravityImus))' = Newest(Heard(GravityImus)')
    BY DEF Newest
  <2> QED BY <1>7, <1>8, <2>1, <2>2, <2>3, <2>4 DEF QueueInv
<1>14. ASSUME NEW k \in DOMAIN stamps
       PROVE  AllInWindow(k)' = InWindow(more, stamps[k]) /\ AllInWindow(k) = InWindow(h, stamps[k])
  BY <1>8 DEF AllInWindow, h
<1>15. ASSUME InOrder'
       PROVE  \A k \in DOMAIN stamps :
                /\ gravity[k] = <<>> /\ newest < stamps[k] => k \in Pending
                /\ k \in Pending => gravity[k] = <<>> /\ newest <= stamps[k]
  BY <1>2, <1>10, <1>15 DEF GravityInv, GravityWaits, h, newest
<1>16. GravityComplete'
  <2> SUFFICES ASSUME InOrder', NEW k \in DOMAIN stamps, k \notin Pending'
               PROVE  IF gravity'[k] = <<>>
                      THEN Len(InWindow(more, stamps[k])) < imu_gravity_min_samples
                      ELSE /\ Len(gravity'[k]) >= imu_gravity_min_samples
                           /\ IsPrefix(gravity'[k], InWindow(more, stamps[k]))
    BY <1>14 DEF GravityComplete
  <2>1. stamps[k] \in Times /\ stamps[k] \in Nat
    BY <1>2, ConstantTypes
  <2>2. CASE k \in Pending
    <3>1. newest <= stamps[k]
      BY <1>15, <2>2
    <3>2. newest - stamps[k] <= GRAVITY_KEEP
      <4>1. GRAVITY_KEEP \in Nat
        BY ConstantTypes
      <4> QED BY <1>3, <2>1, <3>1, <4>1
    <3>3. InWindow(samples, stamps[k]) = InWindow(more, stamps[k])
      BY <1>12, <2>1, <3>2
    <3>4. gravity'[k] = Averaged(samples, stamps[k])
      BY <1>5, <2>2 DEF due
    <3> QED BY <1>3, <2>1, <3>3, <3>4, AllAveraged
  <2>3. CASE k \notin Pending
    <3>1. gravity'[k] = gravity[k]
      BY <1>5, <2>3 DEF due
    <3>2. IF gravity[k] = <<>>
          THEN Len(InWindow(h, stamps[k])) < imu_gravity_min_samples
          ELSE /\ Len(gravity[k]) >= imu_gravity_min_samples
               /\ IsPrefix(gravity[k], InWindow(h, stamps[k]))
      BY <1>10, <1>14, <2>3 DEF GravityInv, GravityComplete
    <3>3. CASE gravity[k] = <<>>
      <4>1. ~ (newest < stamps[k])
        BY <1>15, <2>3, <3>3
      <4>2. stamps[k] - r.t \notin 0..imu_gravity_window
        <5>1. stamps[k] - r.t < 0
          BY <1>3, <1>10, <2>1, <4>1
        <5> QED BY <1>3, <2>1, <5>1
      <4> QED BY <1>11, <2>1, <3>1, <3>2, <3>3, <4>2
    <3>4. CASE gravity[k] # <<>>
      <4>1. InWindow(h, stamps[k]) \in Seq(Readings) /\ InWindow(more, stamps[k]) \in Seq(Readings)
        BY <1>1, <1>3, WindowTyped DEF h
      <4>2. IsPrefix(InWindow(h, stamps[k]), InWindow(more, stamps[k]))
        BY <1>11, <2>1, <4>1, PrefixFacts
      <4>3. IsPrefix(gravity[k], InWindow(more, stamps[k]))
        BY <1>2, <3>2, <3>4, <4>1, <4>2, PrefixFacts
      <4> QED BY <3>1, <3>2, <3>4, <4>3
    <3> QED BY <3>3, <3>4
  <2> QED BY <2>2, <2>3
<1>17. GravityWaits'
  <2> SUFFICES ASSUME InOrder'
               PROVE  \A k \in DOMAIN stamps :
                        /\ gravity'[k] = <<>> /\ r.t < stamps[k] => k \in Pending'
                        /\ k \in Pending' => gravity'[k] = <<>> /\ r.t <= stamps[k]
    <3>1. Newest(Heard(GravityImus))' = r.t
      BY <1>3, <1>8 DEF Newest
    <3>2. Pending' \subseteq DOMAIN stamps
      BY <1>4
    <3> QED BY <3>1, <3>2 DEF GravityWaits
  <2> TAKE k \in DOMAIN stamps
  <2>1. stamps[k] \in Nat
    BY <1>2, ConstantTypes
  <2>2. ASSUME gravity'[k] = <<>>, r.t < stamps[k] PROVE k \in Pending'
    <3>1. k \notin due
      BY <1>3, <1>4, <2>1, <2>2 DEF due
    <3>2. gravity[k] = <<>> /\ newest < stamps[k]
      BY <1>3, <1>5, <1>10, <2>1, <2>2, <3>1
    <3> QED BY <1>3, <1>4, <1>15, <2>1, <2>2, <3>2
  <2>3. ASSUME k \in Pending' PROVE gravity'[k] = <<>> /\ r.t <= stamps[k]
    <3>1. k \in Pending /\ k \notin due /\ r.t <= stamps[k]
      BY <1>3, <1>4, <2>1, <2>3 DEF due
    <3> QED BY <1>5, <1>15, <3>1
  <2> QED BY <2>2, <2>3
<1> QED BY <1>4, <1>6, <1>7, <1>13, <1>16, <1>17 DEF GravityInv

-----------------------------------------------------------------------------
(***************************************************************************)
(* Gravity: a keyframe is inserted.                                        *)
(***************************************************************************)
LEMMA HeardSame ==
  ASSUME received' = received, NEW imus
  PROVE  HeardImu(imus)' = HeardImu(imus) /\ Heard(imus)' = Heard(imus)
<1>1. HeardImu(imus)' = HeardImu(imus)
  BY DEF HeardImu, SelectInSeq
<1> QED BY <1>1 DEF Heard

LEMMA NewestHeard ==
  ASSUME received \in Seq(Readings), NEW imus, Heard(imus) # <<>>
  PROVE  \E s \in ToSet(received) : Newest(Heard(imus)) = s.t
<1> DEFINE S == [imu : {HeardImu(imus)}, t : Times]
           h == KeptIn(received, S)
<1>1. Heard(imus) = h
  BY DEF Heard
<1>2. \A q \in Seq(Readings) :
        \A i \in 1..Len(KeptIn(q, S)) :
          KeptIn(q, S)[i] \in S /\ \E j \in 1..Len(q) : KeptIn(q, S)[i] = q[j]
  <2> HIDE DEF S
  <2> QED BY KeptAreThere, SMT
<1>3. Newest(h) = h[Len(h)].t /\ Len(h) \in 1..Len(h)
  BY <1>1, HeardTyped, NewestIs
<1>4. \E j \in 1..Len(received) : h[Len(h)] = received[j]
  <2> HIDE DEF S
  <2> QED BY <1>2, <1>3
<1> HIDE DEF h
<1>5. \A j \in 1..Len(received) : received[j] \in ToSet(received)
  BY DEF ToSet
<1> QED BY <1>1, <1>3, <1>4, <1>5

LEMMA AppendSorted ==
  ASSUME NEW A
  PROVE  \A q \in Seq(A), e \in A : Sorted(q) /\ (\A i \in DOMAIN q : q[i] < e) =>
           /\ Append(q, e) \in Seq(A) /\ Sorted(Append(q, e))
           /\ Len(Append(q, e)) = Len(q) + 1
           /\ DOMAIN Append(q, e) = 1..(Len(q) + 1)
           /\ Append(q, e)[Len(q) + 1] = e
           /\ \A i \in DOMAIN q : Append(q, e)[i] = q[i]
<1> SUFFICES ASSUME NEW q \in Seq(A), NEW e \in A, Sorted(q), \A i \in DOMAIN q : q[i] < e
             PROVE  /\ Append(q, e) \in Seq(A) /\ Sorted(Append(q, e))
                    /\ Len(Append(q, e)) = Len(q) + 1
                    /\ DOMAIN Append(q, e) = 1..(Len(q) + 1)
                    /\ Append(q, e)[Len(q) + 1] = e
                    /\ \A i \in DOMAIN q : Append(q, e)[i] = q[i]
  OBVIOUS
<1> DEFINE more == Append(q, e)
           m == Len(q)
<1>1. /\ more \in Seq(A) /\ Len(more) = m + 1 /\ DOMAIN more = 1..(m + 1)
      /\ m \in Nat /\ DOMAIN q = 1..m
      /\ \A i \in 1..m : more[i] = q[i]
      /\ more[m + 1] = e
  BY AppendProperties
<1> HIDE DEF more, m
<1>2. Sorted(more)
  <2> SUFFICES ASSUME NEW i \in 1..(m + 1), NEW j \in 1..(i - 1) PROVE more[j] < more[i]
    BY <1>1 DEF Sorted
  <2>1. j \in 1..m /\ more[j] = q[j]
    BY <1>1
  <2>2. CASE i = m + 1
    BY <1>1, <2>1, <2>2
  <2>3. CASE i # m + 1
    <3>1. i \in 1..m
      BY <1>1, <2>3
    <3> QED BY <1>1, <2>1, <3>1 DEF Sorted
  <2> QED BY <2>2, <2>3
<1> QED BY <1>1, <1>2 DEF more, m

(* The stamps before the last one.                                          *)
LEMMA BeforeLast ==
  ASSUME stamps \in Seq(Times), Sorted(stamps), NEW t \in Times, ~IsOlder(t)
  PROVE  \A i \in DOMAIN stamps : stamps[i] < t
<1> DEFINE m == Len(stamps)
<1>1. m \in Nat /\ DOMAIN stamps = 1..m /\ t \in Nat /\ \A i \in 1..m : stamps[i] \in Nat
  <2>1. m \in Nat /\ DOMAIN stamps = 1..m /\ \A i \in 1..m : stamps[i] \in Times
    OBVIOUS
  <2> HIDE DEF m
  <2> QED BY <2>1, ConstantTypes
<1> SUFFICES ASSUME NEW i \in 1..m PROVE stamps[i] < t
  BY <1>1
<1>2. m \in 1..m /\ stamps # <<>>
  <2>1. stamps = <<>> => m = 0
    BY EmptySeq
  <2> HIDE DEF m
  <2> QED BY <1>1, <2>1
<1>3. stamps[m] < t
  BY <1>1, <1>2 DEF IsOlder, Last
<1> HIDE DEF m
<1>4. i = m \/ i \in 1..(m - 1)
  BY <1>1
<1>5. i = m \/ stamps[i] < stamps[m]
  BY <1>1, <1>2, <1>4 DEF Sorted
<1> QED BY <1>1, <1>2, <1>3, <1>5

LEMMA InsertGravityInv ==
  ASSUME TypeInv, GravityInv, request \in [t : Times, bias : Labels],
         \A r \in ToSet(received) : request.t >= r.t - FrontEndLag,
         ~IsOlder(request.t), Insert(request.t, request.bias),
         UNCHANGED <<gravity_label_, imu_samples_, received>>
  PROVE  /\ GravityInv'
         /\ stamps' \in Seq(Times) /\ Sorted(stamps')
         /\ gravity' \in Seq(Seq(Readings)) /\ Len(gravity') = Len(stamps')
         /\ pending_gravity_' \in Seq(DOMAIN stamps') /\ Sorted(pending_gravity_')
<1> DEFINE t == request.t
           m == Len(stamps)
           h == Heard(GravityImus)
           newest == Newest(h)
           averaged == Averaged(imu_samples_, t)
<1>1. /\ stamps \in Seq(Times) /\ Sorted(stamps) /\ imu_samples_ \in Seq(Readings)
      /\ received \in Seq(Readings)
      /\ gravity \in Seq(Seq(Readings)) /\ Len(gravity) = m /\ m \in Nat
      /\ pending_gravity_ \in Seq(DOMAIN stamps) /\ Sorted(pending_gravity_)
      /\ h \in Seq(Readings) /\ t \in Times
  BY HeardTyped DEF TypeInv
<1>2. /\ stamps' = Append(stamps, t)
      /\ gravity' = Append(gravity, averaged)
      /\ pending_gravity_' = IF averaged = <<>> /\ ImuBehind(t)
                             THEN Append(pending_gravity_, Len(stamps'))
                             ELSE pending_gravity_
  BY DEF Insert, IndexOfLast
<1>3. /\ newest \in Nat /\ t \in Nat /\ t >= 1
      /\ FrontEndLag \in Nat /\ GRAVITY_KEEP \in Nat /\ FrontEndLag <= GRAVITY_KEEP
  BY <1>1, NewestIs, ConstantTypes
<1>4. newest - t <= GRAVITY_KEEP
  <2>1. CASE h = <<>>
    <3>1. newest = 0
      BY <1>1, <2>1, NewestIs
    <3> HIDE DEF newest, t
    <3> QED BY <1>3, <3>1
  <2>2. CASE h # <<>>
    <3>1. PICK s \in ToSet(received) : newest = s.t
      BY <1>1, <2>2, NewestHeard
    <3>2. t >= newest - FrontEndLag
      BY <3>1
    <3> HIDE DEF newest, t
    <3> QED BY <1>3, <3>2
  <2> QED BY <2>1, <2>2
<1>5. /\ imu_samples_ = <<>> <=> h = <<>>
      /\ Newest(imu_samples_) = newest
      /\ InOrder => InWindow(imu_samples_, t) = InWindow(h, t)
  BY <1>1, <1>4 DEF GravityInv, QueueInv
<1>6. averaged \in Seq(Readings)
  BY <1>1, AveragedIs
<1>7. ImuBehind(t) <=> GravityImus # {} /\ newest < t
  <2>1. imu_samples_ = <<>> => newest = 0
    BY <1>1, <1>5, NewestIs
  <2>2. imu_samples_ # <<>> => Last(imu_samples_).t = newest
    BY <1>5 DEF Newest
  <2> HIDE DEF newest, t
  <2> QED BY <1>3, <2>1, <2>2 DEF ImuBehind
<1> HIDE DEF t, m, h, newest, averaged
<1>8. /\ stamps' \in Seq(Times) /\ Sorted(stamps') /\ Len(stamps') = m + 1
      /\ DOMAIN stamps' = 1..(m + 1) /\ DOMAIN stamps = 1..m
      /\ stamps'[m + 1] = t
      /\ \A k \in 1..m : stamps'[k] = stamps[k]
  <2>1. \A i \in DOMAIN stamps : stamps[i] < t
    BY <1>1, BeforeLast DEF t
  <2>2. DOMAIN stamps = 1..m
    BY <1>1 DEF m
  <2>3. /\ Append(stamps, t) \in Seq(Times) /\ Sorted(Append(stamps, t))
        /\ Len(Append(stamps, t)) = Len(stamps) + 1
        /\ DOMAIN Append(stamps, t) = 1..(Len(stamps) + 1)
        /\ Append(stamps, t)[Len(stamps) + 1] = t
        /\ \A i \in DOMAIN stamps : Append(stamps, t)[i] = stamps[i]
    BY <1>1, <2>1, AppendSorted
  <2> QED BY <1>2, <2>2, <2>3 DEF m
<1>9. /\ gravity' \in Seq(Seq(Readings)) /\ Len(gravity') = Len(stamps')
      /\ gravity'[m + 1] = averaged
      /\ \A k \in 1..m : gravity'[k] = gravity[k]
  BY <1>1, <1>2, <1>6, <1>8, AppendProperties
<1>10. /\ pending_gravity_' \in Seq(DOMAIN stamps') /\ Sorted(pending_gravity_')
       /\ Pending' = IF averaged = <<>> /\ ImuBehind(t) THEN Pending \cup {m + 1} ELSE Pending
       /\ Pending \subseteq 1..m
  <2> DEFINE p == pending_gravity_
  <2>1. p \in Seq(1..m) /\ \A i \in DOMAIN p : p[i] \in 1..m
    BY <1>1, <1>8
  <2>2. p \in Seq(1..(m + 1))
    <3>1. 1..m \subseteq 1..(m + 1)
      BY <1>1
    <3> HIDE DEF p
    <3> QED BY <2>1, <3>1, SeqMonotonic
  <2>3. m + 1 \in 1..(m + 1) /\ \A i \in DOMAIN p : p[i] < m + 1
    BY <1>1, <2>1
  <2> HIDE DEF p
  <2>4. /\ Append(p, m + 1) \in Seq(1..(m + 1)) /\ Sorted(Append(p, m + 1))
        /\ DOMAIN Append(p, m + 1) = 1..(Len(p) + 1)
        /\ Append(p, m + 1)[Len(p) + 1] = m + 1
        /\ \A i \in DOMAIN p : Append(p, m + 1)[i] = p[i]
    <3> DEFINE A == 1..(m + 1)
    <3>1. Sorted(p)
      BY <1>1 DEF p
    <3>2. p \in Seq(A) /\ m + 1 \in A
      BY <2>2, <2>3
    <3> HIDE DEF A
    <3>3. \A q \in Seq(A), e \in A : Sorted(q) /\ (\A i \in DOMAIN q : q[i] < e) =>
            /\ Append(q, e) \in Seq(A) /\ Sorted(Append(q, e))
            /\ Len(Append(q, e)) = Len(q) + 1
            /\ DOMAIN Append(q, e) = 1..(Len(q) + 1)
            /\ Append(q, e)[Len(q) + 1] = e
            /\ \A i \in DOMAIN q : Append(q, e)[i] = q[i]
      BY AppendSorted, SMT
    <3>4. /\ Append(p, m + 1) \in Seq(A) /\ Sorted(Append(p, m + 1))
          /\ DOMAIN Append(p, m + 1) = 1..(Len(p) + 1)
          /\ Append(p, m + 1)[Len(p) + 1] = m + 1
          /\ \A i \in DOMAIN p : Append(p, m + 1)[i] = p[i]
      BY <2>3, <3>1, <3>2, <3>3
    <3> QED BY <3>4 DEF A
  <2>5. ToSet(Append(p, m + 1)) = ToSet(p) \cup {m + 1}
    <3>1. DOMAIN p = 1..Len(p) /\ Len(p) \in Nat
      BY <2>2
    <3> QED BY <2>4, <3>1 DEF ToSet
  <2>6. Pending = ToSet(p) /\ Pending' = ToSet(p') /\ ToSet(p) \subseteq 1..m
    BY <2>1 DEF Pending, p, ToSet
  <2>7. p' = IF averaged = <<>> /\ ImuBehind(t) THEN Append(p, m + 1) ELSE p
    BY <1>2, <1>8 DEF p
  <2> QED BY <1>1, <1>8, <2>2, <2>4, <2>5, <2>6, <2>7 DEF p
<1>11. Heard(GravityImus)' = h /\ HeardImu(GravityImus)' = HeardImu(GravityImus)
  BY HeardSame DEF h
<1>12. InOrder' = InOrder /\ Newest(Heard(GravityImus))' = newest
  BY <1>11 DEF InOrder, h, newest, Newest
<1>13. QueueInv'
  BY <1>11, <1>12 DEF GravityInv, QueueInv, InWindow, Newest, h
<1>14. \A k \in Nat : /\ (k \in 1..m => AllInWindow(k)' = AllInWindow(k))
                       /\ (k = m + 1 => AllInWindow(k)' = InWindow(h, t))
  BY <1>8, <1>11 DEF AllInWindow, h
<1>15. DOMAIN stamps' = DOMAIN stamps \cup {m + 1} /\ m + 1 \notin DOMAIN stamps
  BY <1>1, <1>8
<1>16. GravityComplete'
  <2> SUFFICES ASSUME InOrder, NEW k \in DOMAIN stamps', k \notin Pending'
               PROVE  IF gravity'[k] = <<>>
                      THEN Len(AllInWindow(k)') < imu_gravity_min_samples
                      ELSE /\ Len(gravity'[k]) >= imu_gravity_min_samples
                           /\ IsPrefix(gravity'[k], AllInWindow(k)')
    BY <1>12 DEF GravityComplete
  <2>1. CASE k = m + 1
    <3>1. IF averaged = <<>>
          THEN Len(InWindow(h, t)) < imu_gravity_min_samples
          ELSE /\ Len(averaged) >= imu_gravity_min_samples
               /\ IsPrefix(averaged, InWindow(h, t))
      BY <1>1, <1>5, AllAveraged DEF averaged
    <3>2. m + 1 \in Nat
      BY <1>1
    <3>3. AllInWindow(k)' = InWindow(h, t) /\ gravity'[k] = averaged
      BY <1>9, <1>14, <2>1, <3>2
    <3> QED BY <3>1, <3>3
  <2>2. CASE k \in DOMAIN stamps
    <3>1. k \notin Pending /\ k \in 1..m /\ k \in Nat
      BY <1>8, <1>10, <2>2
    <3>2. AllInWindow(k)' = AllInWindow(k) /\ gravity'[k] = gravity[k]
      BY <1>9, <1>14, <3>1
    <3> QED BY <2>2, <3>1, <3>2 DEF GravityInv, GravityComplete
  <2> QED BY <1>15, <2>1, <2>2
<1>17. GravityWaits'
  <2> SUFFICES ASSUME InOrder, GravityImus # {}
               PROVE  \A k \in DOMAIN stamps' :
                        /\ gravity'[k] = <<>> /\ newest < stamps'[k] => k \in Pending'
                        /\ k \in Pending' => gravity'[k] = <<>> /\ newest <= stamps'[k]
    <3>1. Pending' \subseteq DOMAIN stamps'
      BY <1>1, <1>8, <1>10
    <3> QED BY <1>12, <3>1 DEF GravityWaits
  <2> TAKE k \in DOMAIN stamps'
  <2>1. CASE k = m + 1
    <3>1. k \notin Pending
      BY <1>8, <1>10, <1>15, <2>1
    <3> QED BY <1>3, <1>7, <1>8, <1>9, <1>10, <2>1, <3>1
  <2>2. CASE k \in DOMAIN stamps
    <3>1. k \in 1..m /\ k # m + 1
      BY <1>8, <1>15, <2>2
    <3>2. /\ gravity[k] = <<>> /\ newest < stamps[k] => k \in Pending
          /\ k \in Pending => gravity[k] = <<>> /\ newest <= stamps[k]
      BY <2>2 DEF GravityInv, GravityWaits, newest, h
    <3> QED BY <1>8, <1>9, <1>10, <3>1, <3>2
  <2> QED BY <1>15, <2>1, <2>2
<1>18. gravity_label_' = HeardImu(GravityImus)'
  BY <1>11 DEF GravityInv
<1> QED BY <1>8, <1>9, <1>10, <1>13, <1>16, <1>17, <1>18 DEF GravityInv

-----------------------------------------------------------------------------
(***************************************************************************)
(* The rotation: integrate_gyro() reading by reading.                      *)
(***************************************************************************)
LoopStates == [prev : Nat, R : Seq(Readings), covered : BOOLEAN]

LoopStart(t0) == [prev |-> t0, R |-> <<>>, covered |-> TRUE]

Loop(rest, t0, t1) == FoldLeft(LAMBDA st, s : Segment(st, s, t1), LoopStart(t0), rest)

LEMMA HoldTyped ==
  ASSUME NEW s \in Readings, NEW n \in Nat
  PROVE  /\ Hold(s, n) \in Seq(Readings) /\ Len(Hold(s, n)) = n
         /\ \A u \in 1..n : Hold(s, n)[u] = s
  BY DEF Hold

LEMMA SegmentTyped ==
  ASSUME NEW st \in LoopStates, NEW s \in Readings, NEW t1 \in Times
  PROVE  Segment(st, s, t1) \in LoopStates
<1> DEFINE end == SegmentEnd(s, t1)
           dt == end - st.prev
<1>1. end \in Nat /\ st.prev \in Nat /\ st.R \in Seq(Readings) /\ st.covered \in BOOLEAN
  BY ConstantTypes DEF SegmentEnd, LoopStates
<1>2. Hold(s, dt) \in Seq(Readings)
  <2>1. CASE dt \in Nat
    BY <2>1, HoldTyped
  <2>2. CASE dt \notin Nat
    <3>1. 1..dt = 1..0
      BY <1>1, <2>2
    <3>2. Hold(s, dt) = Hold(s, 0)
      BY <3>1 DEF Hold
    <3> QED BY <3>2, HoldTyped
  <2> QED BY <2>1, <2>2
<1> HIDE DEF end, dt
<1>3. st.R \o Hold(s, dt) \in Seq(Readings)
  BY <1>1, <1>2, ConcatProperties
<1>4. Segment(st, s, t1) =
        IF st.prev >= t1 THEN st
        ELSE [prev |-> end, R |-> st.R \o Hold(s, dt),
              covered |-> st.covered /\ dt <= gyro_max_gap]
  BY DEF Segment, end, dt
<1>5. (st.covered /\ dt <= gyro_max_gap) \in BOOLEAN
  OBVIOUS
<1> QED BY <1>1, <1>3, <1>4, <1>5 DEF LoopStates

LEMMA LoopSteps ==
  ASSUME NEW rest \in Seq(Readings), NEW t0 \in Times, NEW t1 \in Times
  PROVE  \E st :
           /\ st[0] = LoopStart(t0)
           /\ \A k \in 0..(Len(rest) - 1) : st[k + 1] = Segment(st[k], rest[k + 1], t1)
           /\ Loop(rest, t0, t1) = st[Len(rest)]
<1> DEFINE m == Len(rest)
           base == LoopStart(t0)
           IsFold(iter) ==
             iter = [s \in SUBSET (1..m) |->
                       IF s = {} THEN base
                       ELSE Segment(iter[s \ {Max(s)}], rest[Max(s)], t1)]
           fold == CHOOSE iter : IsFold(iter)
<1>1. m \in Nat /\ DOMAIN rest = 1..m /\ \A k \in 1..m : rest[k] \in Readings
  OBVIOUS
<1>2. base \in LoopStates
  BY EmptySeq, ConstantTypes DEF LoopStates, LoopStart
<1>3. Loop(rest, t0, t1) = fold[1..m]
  BY <1>1 DEF Loop, FoldLeft, MapThenFoldSet
<1> HIDE DEF m, base
<1>4. IsFold(fold)
  <2> DEFINE F == [k \in 1..m |-> [st \in LoopStates |-> Segment(st, rest[k], t1)]]
  <2>1. F \in [1..m -> [LoopStates -> LoopStates]]
    <3>1. \A k \in 1..m : \A st \in LoopStates : Segment(st, rest[k], t1) \in LoopStates
      BY <1>1, SegmentTyped
    <3> QED BY <3>1
  <2>2. PICK iter \in [SUBSET (1..m) -> LoopStates] : IsFoldOf(iter, m, base, F)
    <3> HIDE DEF F, IsFold
    <3> QED BY <1>1, <1>2, <2>1, FoldExists
  <2>3. ASSUME NEW s \in SUBSET (1..m), s # {}
        PROVE  F[Max(s)][iter[s \ {Max(s)}]] = Segment(iter[s \ {Max(s)}], rest[Max(s)], t1)
    <3>1. Max(s) \in 1..m
      BY <1>1, <2>3, MaxOfNumbers
    <3>2. iter[s \ {Max(s)}] \in LoopStates
      OBVIOUS
    <3> QED BY <3>1, <3>2
  <2>4. IsFold(iter)
    <3> HIDE DEF F
    <3> QED BY <2>2, <2>3 DEF IsFoldOf
  <2> HIDE DEF IsFold
  <2> QED BY <2>4
<1> HIDE DEF fold
<1> DEFINE st == [k \in 0..m |-> fold[1..k]]
<1>5. st[0] = base
  <2>1. 1..0 = {} /\ 1..0 \in SUBSET (1..m) /\ 0 \in 0..m
    BY <1>1
  <2> QED BY <1>4, <2>1
<1>6. ASSUME NEW k \in 0..(m - 1) PROVE st[k + 1] = Segment(st[k], rest[k + 1], t1)
  <2>1. Max(1..(k + 1)) = k + 1 /\ (1..(k + 1)) \ {k + 1} = 1..k
    BY <1>1, MaxOfNumbers
  <2>2. 1 \in 1..(k + 1) /\ k \in 0..m /\ k + 1 \in 0..m /\ 1..(k + 1) \subseteq 1..m
    BY <1>1
  <2>3. fold[1..(k + 1)] = Segment(fold[1..k], rest[k + 1], t1)
    BY <1>4, <2>1, <2>2
  <2> QED BY <2>2, <2>3
<1>7. Loop(rest, t0, t1) = st[m]
  BY <1>1, <1>3
<1> QED BY <1>5, <1>6, <1>7 DEF m, base

(* The readings after t0, in order.                                         *)
Follow(rest, t0) ==
  rest \in Seq(Readings) /\ TimesIncrease(rest) /\ \A i \in DOMAIN rest : rest[i].t > t0

(* Where the interval ends after k of them.                                 *)
EndOf(rest, t0, t1, k) == IF k = 0 THEN t0 ELSE SegmentEnd(rest[k], t1)

(* The first one since a time.                                              *)
HeldBy(rest, k, time, s) ==
  \E j \in 1..k : s = rest[j] /\ s.t >= time /\ \A i \in 1..(j - 1) : rest[i].t < time

AfterLoop(rest, t0, t1, k, st) ==
  /\ st \in LoopStates
  /\ st.prev = EndOf(rest, t0, t1, k)
  /\ Len(st.R) = EndOf(rest, t0, t1, k) - t0
  /\ \A u \in 1..Len(st.R) : HeldBy(rest, k, t0 + u, st.R[u])
  /\ st.covered <=> \A j \in 1..k :
       EndOf(rest, t0, t1, j) - EndOf(rest, t0, t1, j - 1) <= gyro_max_gap

LEMMA EndTyped ==
  ASSUME NEW t0 \in Times, NEW t1 \in Times, t0 < t1, NEW rest, Follow(rest, t0)
  PROVE  /\ Len(rest) \in Nat /\ DOMAIN rest = 1..Len(rest) /\ t0 \in Nat /\ t1 \in Nat
         /\ \A k \in 1..Len(rest) : rest[k] \in Readings /\ rest[k].t \in Nat /\ rest[k].t > t0
         /\ \A k \in 1..Len(rest) : \A i \in 1..(k - 1) : rest[i].t < rest[k].t
         /\ \A k \in 0..Len(rest) : /\ EndOf(rest, t0, t1, k) \in Nat
                                   /\ t0 <= EndOf(rest, t0, t1, k)
                                   /\ EndOf(rest, t0, t1, k) <= t1
         /\ EndOf(rest, t0, t1, 0) = t0
         /\ \A k \in 1..Len(rest) :
              EndOf(rest, t0, t1, k) = IF rest[k].t < t1 THEN rest[k].t ELSE t1
         /\ \A k \in 1..Len(rest) : EndOf(rest, t0, t1, k - 1) <= EndOf(rest, t0, t1, k)
<1>1. /\ rest \in Seq(Readings)
      /\ \A k \in DOMAIN rest : rest[k].t > t0
      /\ \A k \in DOMAIN rest : \A i \in 1..(k - 1) : rest[i].t < rest[k].t
  BY DEF Follow, TimesIncrease
<1>2. DOMAIN rest = 1..Len(rest) /\ Len(rest) \in Nat /\ \A k \in 1..Len(rest) : rest[k] \in Readings
  BY <1>1
<1>3. t0 \in Nat /\ t1 \in Nat /\ \A k \in 1..Len(rest) : rest[k].t \in Nat
  BY <1>2, ConstantTypes
<1>4. EndOf(rest, t0, t1, 0) = t0
  BY DEF EndOf
<1>5. \A k \in 1..Len(rest) :
        EndOf(rest, t0, t1, k) = IF rest[k].t < t1 THEN rest[k].t ELSE t1
  BY DEF EndOf, SegmentEnd
<1>6. \A k \in 0..Len(rest) : k = 0 \/ k \in 1..Len(rest)
  BY <1>2
<1>7. \A k \in 0..Len(rest) : /\ EndOf(rest, t0, t1, k) \in Nat
                             /\ t0 <= EndOf(rest, t0, t1, k)
                             /\ EndOf(rest, t0, t1, k) <= t1
  BY <1>1, <1>2, <1>3, <1>4, <1>5, <1>6
<1>8. ASSUME NEW k \in 1..Len(rest)
      PROVE  EndOf(rest, t0, t1, k - 1) <= EndOf(rest, t0, t1, k)
  <2>1. CASE k = 1
    BY <1>4, <1>6, <1>7, <2>1
  <2>2. CASE k # 1
    <3>1. k - 1 \in 1..Len(rest) /\ k - 1 \in 1..(k - 1)
      BY <1>2, <2>2
    <3>2. rest[k - 1].t < rest[k].t
      BY <1>1, <1>2, <3>1
    <3> QED BY <1>2, <1>3, <1>5, <3>1, <3>2
  <2> QED BY <2>1, <2>2
<1> QED BY <1>1, <1>2, <1>3, <1>4, <1>5, <1>7, <1>8

LEMMA SegmentRuns ==
  ASSUME NEW t0 \in Times, NEW t1 \in Times, t0 < t1, NEW rest, Follow(rest, t0),
         NEW k \in 0..(Len(rest) - 1), NEW st, AfterLoop(rest, t0, t1, k, st)
  PROVE  AfterLoop(rest, t0, t1, k + 1, Segment(st, rest[k + 1], t1))
<1> DEFINE m == Len(rest)
           s == rest[k + 1]
           E(j) == EndOf(rest, t0, t1, j)
           next == Segment(st, s, t1)
<1>1. /\ m \in Nat /\ t0 \in Nat /\ t1 \in Nat
      /\ \A j \in 1..m : rest[j] \in Readings /\ rest[j].t \in Nat /\ rest[j].t > t0
      /\ \A j \in 1..m : \A i \in 1..(j - 1) : rest[i].t < rest[j].t
      /\ \A j \in 0..m : E(j) \in Nat /\ t0 <= E(j) /\ E(j) <= t1
      /\ E(0) = t0
      /\ \A j \in 1..m : E(j) = IF rest[j].t < t1 THEN rest[j].t ELSE t1
      /\ \A j \in 1..m : E(j - 1) <= E(j)
  BY EndTyped
<1>2. /\ st \in LoopStates /\ st.prev = E(k) /\ Len(st.R) = E(k) - t0
      /\ \A u \in 1..Len(st.R) : HeldBy(rest, k, t0 + u, st.R[u])
      /\ st.covered <=> \A j \in 1..k : E(j) - E(j - 1) <= gyro_max_gap
  BY DEF AfterLoop
<1> HIDE DEF E, m
<1>3. k \in Nat /\ k \in 0..m /\ k + 1 \in 1..m /\ k + 1 \in 0..m /\ s \in Readings /\ s.t \in Nat
  BY <1>1 DEF m
<1>4. st.prev \in Nat /\ st.R \in Seq(Readings) /\ st.covered \in BOOLEAN
  BY <1>2 DEF LoopStates
<1>5. SegmentEnd(s, t1) = E(k + 1)
  BY <1>1, <1>3 DEF SegmentEnd
<1>6. next \in LoopStates
  BY <1>2, <1>3, SegmentTyped
<1>7. 1..(k + 1) = 1..k \cup {k + 1} /\ (k + 1) - 1 = k
  BY <1>3
<1>8. (\A j \in 1..(k + 1) : E(j) - E(j - 1) <= gyro_max_gap) <=>
        (\A j \in 1..k : E(j) - E(j - 1) <= gyro_max_gap) /\ E(k + 1) - E(k) <= gyro_max_gap
  BY <1>7
<1>9. ASSUME NEW time, NEW r, HeldBy(rest, k, time, r) PROVE HeldBy(rest, k + 1, time, r)
  BY <1>7, <1>9 DEF HeldBy
<1>10. gyro_max_gap \in Nat
  BY ConstantTypes
<1>11. CASE E(k) >= t1
  <2>1. next = st
    BY <1>2, <1>11 DEF Segment
  <2>2. E(k) \in Nat /\ E(k + 1) \in Nat /\ E(k) <= E(k + 1) /\ E(k + 1) <= t1
    BY <1>1, <1>3, <1>7
  <2>3. E(k + 1) = E(k)
    BY <1>1, <1>11, <2>2
  <2>4. E(k + 1) - E(k) <= gyro_max_gap
    BY <1>10, <2>2, <2>3
  <2>5. next.prev = E(k + 1) /\ Len(next.R) = E(k + 1) - t0
        /\ \A u \in 1..Len(next.R) : HeldBy(rest, k + 1, t0 + u, next.R[u])
    BY <1>2, <1>9, <2>1, <2>3
  <2>6. next.covered <=> \A j \in 1..(k + 1) : E(j) - E(j - 1) <= gyro_max_gap
    BY <1>2, <1>8, <2>1, <2>4
  <2> QED BY <1>6, <2>5, <2>6 DEF AfterLoop, E
<1>12. CASE ~ (E(k) >= t1)
  <2> DEFINE dt == E(k + 1) - E(k)
             R == st.R \o Hold(s, dt)
             n == E(k) - t0
  <2>1. /\ next.prev = E(k + 1) /\ next.R = R
        /\ next.covered <=> (st.covered /\ dt <= gyro_max_gap)
    BY <1>2, <1>5, <1>12 DEF Segment
  <2>2. /\ E(k) \in Nat /\ E(k + 1) \in Nat /\ t0 <= E(k) /\ E(k) <= E(k + 1) /\ E(k + 1) <= t1
    BY <1>1, <1>3, <1>7
  <2>3. dt \in Nat /\ n \in Nat /\ n + dt = E(k + 1) - t0
        /\ t0 + n = E(k) /\ t0 + (n + dt) = E(k + 1)
    <3>1. t0 \in Nat
      BY <1>1
    <3> QED BY <2>2, <3>1
  <2>4. /\ Hold(s, dt) \in Seq(Readings) /\ Len(Hold(s, dt)) = dt
        /\ \A u \in 1..dt : Hold(s, dt)[u] = s
    BY <1>3, <2>3, HoldTyped
  <2> HIDE DEF dt, n
  <2>5. /\ Len(R) = n + dt
        /\ \A u \in 1..n : R[u] = st.R[u]
        /\ \A u \in (n + 1)..(n + dt) : R[u] = s
    <3>1. Len(st.R) = n
      BY <1>2 DEF n
    <3> DEFINE p == st.R
               q == Hold(s, dt)
    <3>0. p \in Seq(Readings) /\ q \in Seq(Readings) /\ Len(p) = n /\ Len(q) = dt
          /\ R = p \o q
      BY <1>4, <2>4, <3>1
    <3> HIDE DEF p, q
    <3>2. /\ Len(R) = n + dt
          /\ \A u \in 1..(n + dt) : R[u] = IF u <= n THEN p[u] ELSE q[u - n]
      <4>1. /\ Len(p \o q) = Len(p) + Len(q)
            /\ \A u \in 1..(Len(p) + Len(q)) :
                 (p \o q)[u] = IF u <= Len(p) THEN p[u] ELSE q[u - Len(p)]
        BY <3>0, ConcatProperties
      <4> HIDE DEF R
      <4> QED BY <3>0, <4>1
    <3>3. ASSUME NEW u \in 1..n PROVE u \in 1..(n + dt) /\ u <= n
      BY <2>3
    <3>4. ASSUME NEW u \in (n + 1)..(n + dt)
          PROVE  u \in 1..(n + dt) /\ ~ (u <= n) /\ u - n \in 1..dt
      BY <2>3
    <3> HIDE DEF R
    <3>5. \A u \in 1..n : R[u] = p[u]
      BY <3>2, <3>3
    <3>6. \A u \in (n + 1)..(n + dt) : R[u] = q[u - n] /\ u - n \in 1..dt
      BY <3>2, <3>4
    <3>7. \A u \in 1..dt : q[u] = s
      BY <2>4 DEF q
    <3> QED BY <3>2, <3>5, <3>6, <3>7 DEF p
  <2> HIDE DEF R
  <2>6. ASSUME NEW u \in (n + 1)..(n + dt) PROVE HeldBy(rest, k + 1, t0 + u, s)
    <3>1. t0 + u > E(k) /\ t0 + u <= E(k + 1) /\ t0 + u \in Nat
      <4>1. t0 \in Nat /\ n \in Nat /\ dt \in Nat
        BY <1>1, <2>3
      <4>2. u \in Nat /\ u > n /\ u <= n + dt
        BY <4>1
      <4> QED BY <2>3, <4>1, <4>2
    <3>2. s.t >= t0 + u
      <4>1. E(k + 1) <= s.t
        BY <1>1, <1>3
      <4> QED BY <1>3, <2>2, <3>1, <4>1
    <3>3. ASSUME NEW i \in 1..((k + 1) - 1) PROVE rest[i].t < t0 + u
      <4>1. i \in 1..m /\ k \in 1..m /\ (i = k \/ i \in 1..(k - 1))
        BY <1>1, <1>3
      <4>2. rest[i].t <= rest[k].t /\ rest[i].t \in Nat /\ rest[k].t \in Nat
        <5>1. rest[i].t \in Nat /\ rest[k].t \in Nat
          BY <1>1, <4>1
        <5>2. i \in 1..(k - 1) => rest[i].t < rest[k].t
          BY <1>1, <4>1
        <5> QED BY <4>1, <5>1, <5>2
      <4>3. E(k) = rest[k].t
        BY <1>1, <1>12, <4>1
      <4> QED BY <3>1, <4>2, <4>3
    <3>4. k + 1 \in 1..(k + 1)
      BY <1>3
    <3> QED BY <3>2, <3>3, <3>4 DEF HeldBy
  <2>7. ASSUME NEW u \in 1..Len(R) PROVE HeldBy(rest, k + 1, t0 + u, R[u])
    <3>1. u \in 1..n \/ u \in (n + 1)..(n + dt)
      BY <2>3, <2>5
    <3>2. CASE u \in 1..n
      <4>1. HeldBy(rest, k, t0 + u, st.R[u])
        BY <1>2, <3>2 DEF n
      <4> QED BY <1>9, <2>5, <3>2, <4>1
    <3>3. CASE u \in (n + 1)..(n + dt)
      BY <2>5, <2>6, <3>3
    <3> QED BY <3>1, <3>2, <3>3
  <2>8. next.covered <=> \A j \in 1..(k + 1) : E(j) - E(j - 1) <= gyro_max_gap
    BY <1>2, <1>8, <2>1 DEF dt
  <2> QED BY <1>6, <2>1, <2>3, <2>5, <2>7, <2>8 DEF AfterLoop, E
<1> QED BY <1>11, <1>12 DEF next

LEMMA LoopRuns ==
  ASSUME NEW t0 \in Times, NEW t1 \in Times, t0 < t1, NEW rest, Follow(rest, t0)
  PROVE  AfterLoop(rest, t0, t1, Len(rest), Loop(rest, t0, t1))
<1> DEFINE m == Len(rest)
<1>1. rest \in Seq(Readings) /\ m \in Nat
  BY DEF Follow
<1>2. PICK st :
        /\ st[0] = LoopStart(t0)
        /\ \A k \in 0..(m - 1) : st[k + 1] = Segment(st[k], rest[k + 1], t1)
        /\ Loop(rest, t0, t1) = st[m]
  BY <1>1, LoopSteps
<1> DEFINE U == {k \in 0..m : AfterLoop(rest, t0, t1, k, st[k])}
<1>3. 0 \in U
  <2>1. LoopStart(t0) \in LoopStates /\ Len(LoopStart(t0).R) = 0 /\ LoopStart(t0).prev = t0
        /\ LoopStart(t0).covered
    BY EmptySeq, ConstantTypes DEF LoopStates, LoopStart
  <2>2. EndOf(rest, t0, t1, 0) = t0 /\ t0 - t0 = 0
    BY EndTyped
  <2>3. AfterLoop(rest, t0, t1, 0, LoopStart(t0))
    BY <2>1, <2>2 DEF AfterLoop
  <2> QED BY <1>1, <1>2, <2>3
<1>4. ASSUME NEW k \in 0..(m - 1), k \in U PROVE k + 1 \in U
  <2>1. AfterLoop(rest, t0, t1, k + 1, Segment(st[k], rest[k + 1], t1))
    BY <1>4, SegmentRuns
  <2>2. k + 1 \in 0..m
    BY <1>1
  <2> QED BY <1>2, <2>1, <2>2
<1>5. m \in U
  <2> HIDE DEF U, m
  <2> QED BY <1>1, <1>3, <1>4, UpTo
<1> QED BY <1>2, <1>5

-----------------------------------------------------------------------------
(***************************************************************************)
(* The rotation is that of the readings, and they cover the interval.      *)
(***************************************************************************)
OneAtATime(readings) ==
  readings \subseteq Readings /\ \A s \in readings : \A o \in readings : s.t = o.t => s = o

(* The readings after t0 are these ones.                                    *)
After(rest, readings, t0) ==
  /\ OneAtATime(readings)
  /\ Follow(rest, t0)
  /\ ToSet(rest) = {s \in readings : s.t > t0}

LEMMA AfterFacts ==
  ASSUME NEW readings, NEW rest, NEW t0 \in Times, After(rest, readings, t0)
  PROVE  /\ \A s \in readings : s \in Readings /\ s.t \in Nat
         /\ \A s \in readings : \A o \in readings : s.t = o.t => s = o
         /\ \A s \in readings : s.t > t0 => \E j \in 1..Len(rest) : s = rest[j]
         /\ \A j \in 1..Len(rest) : rest[j] \in readings
<1>1. DOMAIN rest = 1..Len(rest)
  BY DEF After, Follow
<1>2. \A s \in readings : s \in Readings /\ s.t \in Nat
  BY ConstantTypes DEF After, OneAtATime
<1> QED BY <1>1, <1>2 DEF After, OneAtATime, ToSet

LEMMA HoldsInRest ==
  ASSUME NEW t0 \in Times, NEW t1 \in Times, t0 < t1, NEW readings, NEW rest,
         After(rest, readings, t0), Len(rest) # 0, NEW time \in Nat, time > t0
  PROVE  /\ \A s : HeldBy(rest, Len(rest), time, s) => HoldsAt(readings, time) = s
         /\ rest[Len(rest)].t < time => HoldsAt(readings, time) = rest[Len(rest)]
<1> DEFINE m == Len(rest)
           since == {s \in readings : s.t >= time}
           last == rest[m]
<1>1. /\ m \in Nat /\ m \in 1..m /\ t0 \in Nat
      /\ \A k \in 1..m : rest[k] \in Readings /\ rest[k].t \in Nat /\ rest[k].t > t0
      /\ \A k \in 1..m : \A i \in 1..(k - 1) : rest[i].t < rest[k].t
  BY EndTyped DEF After
<1>2. /\ \A s \in readings : s \in Readings /\ s.t \in Nat
      /\ \A s \in readings : \A o \in readings : s.t = o.t => s = o
      /\ \A s \in readings : s.t > t0 => \E j \in 1..m : s = rest[j]
      /\ \A j \in 1..m : rest[j] \in readings
  BY AfterFacts
<1> HIDE DEF m
<1>3. ASSUME NEW s, HeldBy(rest, m, time, s) PROVE HoldsAt(readings, time) = s
  <2>1. PICK j \in 1..m : s = rest[j] /\ s.t >= time /\ \A i \in 1..(j - 1) : rest[i].t < time
    BY <1>3 DEF HeldBy
  <2>2. s \in since
    BY <1>2, <2>1
  <2>3. ASSUME NEW o \in since PROVE s.t <= o.t
    <3>1. o \in readings /\ o.t \in Nat /\ o.t >= time /\ o.t > t0
      BY <1>1, <1>2
    <3>2. PICK i \in 1..m : o = rest[i]
      BY <1>2, <3>1
    <3>3. ~ (i \in 1..(j - 1))
      BY <1>1, <2>1, <3>1, <3>2
    <3>4. i = j \/ j \in 1..(i - 1)
      BY <1>1, <3>3
    <3>5. i = j \/ rest[j].t < rest[i].t
      BY <1>1, <3>4
    <3>6. rest[j].t \in Nat /\ rest[i].t \in Nat
      BY <1>1
    <3> QED BY <2>1, <3>2, <3>5, <3>6
  <2>4. ASSUME NEW x \in since, \A o \in since : x.t <= o.t PROVE x = s
    <3>1. x.t <= s.t /\ s.t <= x.t /\ x \in readings /\ s \in readings /\ x.t \in Nat /\ s.t \in Nat
      BY <1>2, <2>2, <2>3, <2>4
    <3>2. x.t = s.t
      BY <3>1
    <3> QED BY <1>2, <3>1, <3>2
  <2>5. HoldsAt(readings, time) = CHOOSE x \in since : \A o \in since : x.t <= o.t
    BY <2>2 DEF HoldsAt
  <2> HIDE DEF since
  <2> QED BY <2>2, <2>3, <2>4, <2>5
<1>4. ASSUME last.t < time PROVE HoldsAt(readings, time) = last
  <2>1. \A i \in 1..m : rest[i].t <= last.t
    <3> SUFFICES ASSUME NEW i \in 1..m PROVE rest[i].t <= last.t
      OBVIOUS
    <3>1. i = m \/ i \in 1..(m - 1)
      BY <1>1
    <3>2. rest[i].t \in Nat /\ last.t \in Nat
      BY <1>1
    <3>3. i = m \/ rest[i].t < last.t
      BY <1>1, <3>1
    <3> QED BY <3>2, <3>3
  <2>2. last \in readings /\ last.t \in Nat /\ last.t > t0
    BY <1>1, <1>2
  <2>3. ASSUME NEW o \in readings PROVE o.t <= last.t
    <3>1. o.t \in Nat
      BY <1>2
    <3>2. CASE o.t > t0
      BY <1>2, <2>1, <3>2
    <3>3. CASE ~ (o.t > t0)
      BY <1>1, <2>2, <3>1, <3>3
    <3> QED BY <3>2, <3>3
  <2>4. since = {}
    <3> SUFFICES ASSUME NEW o \in since PROVE FALSE
      OBVIOUS
    <3>1. o \in readings /\ o.t \in Nat /\ o.t >= time /\ o.t <= last.t
      BY <1>2, <2>3
    <3> QED BY <1>4, <2>2, <3>1
  <2>5. ASSUME NEW x \in readings, \A o \in readings : o.t <= x.t PROVE x = last
    <3>1. x.t <= last.t /\ last.t <= x.t /\ x.t \in Nat
      BY <1>2, <2>2, <2>3, <2>5
    <3>2. x.t = last.t
      BY <2>2, <3>1
    <3> QED BY <1>2, <2>2, <3>2
  <2>6. HoldsAt(readings, time) = CHOOSE s \in readings : \A o \in readings : o.t <= s.t
    BY <2>4 DEF HoldsAt
  <2> HIDE DEF last
  <2> QED BY <2>2, <2>3, <2>5, <2>6
<1> QED BY <1>3, <1>4 DEF m

(* No gap between the readings of the loop, and after the last of them.     *)
NoGap(rest, t0, t1) ==
  /\ \A j \in 1..Len(rest) :
       EndOf(rest, t0, t1, j) - EndOf(rest, t0, t1, j - 1) <= gyro_max_gap
  /\ t1 - rest[Len(rest)].t <= gyro_max_gap

LEMMA NoGapCovers ==
  ASSUME NEW t0 \in Times, NEW t1 \in Times, t0 < t1, NEW readings, NEW rest,
         After(rest, readings, t0), Len(rest) # 0, NoGap(rest, t0, t1)
  PROVE  Covers(readings, t0, t1)
<1> DEFINE m == Len(rest)
           E(j) == EndOf(rest, t0, t1, j)
           times == {t0, t1} \cup {s.t : s \in {r \in readings : r.t \in t0..t1}}
<1>1. /\ m \in Nat /\ 1 \in 1..m /\ m \in 1..m /\ t0 \in Nat /\ t1 \in Nat
      /\ \A k \in 1..m : rest[k] \in Readings /\ rest[k].t \in Nat /\ rest[k].t > t0
      /\ \A k \in 0..m : E(k) \in Nat /\ t0 <= E(k) /\ E(k) <= t1
      /\ E(0) = t0
      /\ \A k \in 1..m : E(k) = IF rest[k].t < t1 THEN rest[k].t ELSE t1
  BY EndTyped DEF After
<1>2. /\ \A s \in readings : s \in Readings /\ s.t \in Nat
      /\ \A j \in 1..m : rest[j] \in readings
  BY AfterFacts
<1>3. \E s \in readings : s.t > t0
  BY <1>1, <1>2
<1>4. gyro_max_gap \in Nat
  BY ConstantTypes
<1>5. /\ \A j \in 1..m : E(j) - E(j - 1) <= gyro_max_gap
      /\ t1 - rest[m].t <= gyro_max_gap
  BY DEF NoGap
<1>6. \A j \in 0..m : E(j) \in times
  <2> SUFFICES ASSUME NEW j \in 0..m PROVE E(j) \in times
    OBVIOUS
  <2> HIDE DEF m, E
  <2>1. j = 0 \/ j \in 1..m
    BY <1>1
  <2>2. CASE j \in 1..m /\ rest[j].t < t1
    <3>1. rest[j] \in readings /\ rest[j].t \in t0..t1 /\ E(j) = rest[j].t
      BY <1>1, <1>2, <2>2
    <3> QED BY <3>1
  <2> QED BY <1>1, <2>1, <2>2
<1>7. \A x \in times : x \in t0..t1
  <2>1. t0 \in t0..t1 /\ t1 \in t0..t1
    BY <1>1
  <2> QED BY <2>1
<1> HIDE DEF m, E, times
<1>8. ASSUME NEW x \in times, x # t1 PROVE \E y \in times : y - x \in 1..gyro_max_gap
  <2> DEFINE I == {j \in 1..m : rest[j].t > x}
  <2>1. x \in Nat /\ t0 <= x /\ x < t1
    BY <1>1, <1>7, <1>8
  <2>2. CASE I = {}
    <3>1. rest[m].t <= x /\ rest[m].t \in Nat
      <4>1. m \in 1..m /\ rest[m].t \in Nat
        BY <1>1
      <4>2. ~ (rest[m].t > x)
        BY <2>2, <4>1
      <4> QED BY <2>1, <4>1, <4>2
    <3>2. t1 - x \in 1..gyro_max_gap
      BY <1>1, <1>4, <1>5, <2>1, <3>1
    <3> QED BY <3>2 DEF times
  <2>3. CASE I # {}
    <3> DEFINE j == Min(I)
    <3>1. j \in I /\ \A i \in I : j <= i
      <4>1. I \in SUBSET (1..m)
        OBVIOUS
      <4> HIDE DEF I
      <4> QED BY <1>1, <2>3, <4>1, MinOfNumbers
    <3> HIDE DEF j
    <3>2. j \in 1..m /\ rest[j].t > x /\ j - 1 \in 0..m /\ j \in 0..m
      BY <1>1, <3>1
    <3>3. E(j) > x /\ E(j) \in Nat
      <4>1. rest[j].t \in Nat /\ E(j) = IF rest[j].t < t1 THEN rest[j].t ELSE t1
        BY <1>1, <3>2
      <4> QED BY <1>1, <2>1, <3>2, <4>1
    <3>4. E(j - 1) <= x /\ E(j - 1) \in Nat
      <4>1. CASE j = 1
        BY <1>1, <2>1, <4>1
      <4>2. CASE j # 1
        <5>1. j - 1 \in 1..m /\ ~ (j <= j - 1)
          BY <1>1, <3>2, <4>2
        <5>2. j - 1 \notin I
          BY <3>1, <5>1
        <5>3. rest[j - 1].t \in Nat
          BY <1>1, <5>1
        <5>4. rest[j - 1].t <= x
          BY <2>1, <5>1, <5>2, <5>3
        <5>5. E(j - 1) = rest[j - 1].t
          BY <1>1, <2>1, <5>1, <5>3, <5>4
        <5> QED BY <5>3, <5>4, <5>5
      <4> QED BY <4>1, <4>2
    <3>5. E(j) - E(j - 1) <= gyro_max_gap
      BY <1>5, <3>2
    <3>6. E(j) - x \in 1..gyro_max_gap
      BY <1>4, <2>1, <3>3, <3>4, <3>5
    <3> QED BY <1>6, <3>2, <3>6
  <2> QED BY <2>2, <2>3
<1> QED BY <1>3, <1>8 DEF Covers, times

LEMMA CoversNoGap ==
  ASSUME NEW t0 \in Times, NEW t1 \in Times, t0 < t1, NEW readings, NEW rest,
         After(rest, readings, t0), Len(rest) # 0, Covers(readings, t0, t1)
  PROVE  NoGap(rest, t0, t1)
<1> DEFINE m == Len(rest)
           E(j) == EndOf(rest, t0, t1, j)
           times == {t0, t1} \cup {s.t : s \in {r \in readings : r.t \in t0..t1}}
<1>1. /\ m \in Nat /\ m \in 1..m /\ t0 \in Nat /\ t1 \in Nat
      /\ \A k \in 1..m : rest[k] \in Readings /\ rest[k].t \in Nat /\ rest[k].t > t0
      /\ \A k \in 1..m : \A i \in 1..(k - 1) : rest[i].t < rest[k].t
      /\ \A k \in 0..m : E(k) \in Nat /\ t0 <= E(k) /\ E(k) <= t1
      /\ E(0) = t0
      /\ \A k \in 1..m : E(k) = IF rest[k].t < t1 THEN rest[k].t ELSE t1
      /\ \A k \in 1..m : E(k - 1) <= E(k)
  BY EndTyped DEF After
<1>2. /\ \A s \in readings : s \in Readings /\ s.t \in Nat
      /\ \A s \in readings : s.t > t0 => \E j \in 1..m : s = rest[j]
      /\ \A j \in 1..m : rest[j] \in readings
  BY AfterFacts
<1>3. gyro_max_gap \in Nat
  BY ConstantTypes
<1>4. \A x \in times \ {t1} : \E y \in times : y - x \in 1..gyro_max_gap
  BY DEF Covers
<1>5. \A y \in times : y = t0 \/ y = t1 \/ \E s \in readings : y = s.t
  OBVIOUS
<1>6. \A j \in 1..m : rest[j].t < t1 => rest[j].t \in times
  <2> SUFFICES ASSUME NEW j \in 1..m, rest[j].t < t1 PROVE rest[j].t \in times
    OBVIOUS
  <2> HIDE DEF m
  <2>1. rest[j] \in readings /\ rest[j].t \in t0..t1
    BY <1>1, <1>2
  <2> QED BY <2>1
<1>7. t0 \in times
  OBVIOUS
<1> HIDE DEF m, E, times
(* The next time after x is at the first reading after x, or at the end.    *)
<1>8. ASSUME NEW x \in times, NEW j \in 1..m, x \in Nat, t0 <= x, x < t1,
             \A i \in 1..(j - 1) : rest[i].t <= x
      PROVE  E(j) - x <= gyro_max_gap
  <2>1. PICK y \in times : y - x \in 1..gyro_max_gap
    BY <1>4, <1>8
  <2>2. E(j) \in Nat /\ E(j) <= t1 /\ rest[j].t \in Nat
        /\ E(j) = IF rest[j].t < t1 THEN rest[j].t ELSE t1
    <3>1. j \in 0..m
      BY <1>1
    <3> QED BY <1>1, <3>1
  <2>3. CASE y = t0
    BY <1>1, <1>3, <1>8, <2>1, <2>3
  <2>4. CASE y = t1
    BY <1>1, <1>3, <1>8, <2>1, <2>2, <2>4
  <2>5. ASSUME NEW s \in readings, y = s.t PROVE E(j) - x <= gyro_max_gap
    <3>1. s.t \in Nat /\ s.t > x /\ s.t - x <= gyro_max_gap /\ s.t > t0
      BY <1>1, <1>2, <1>3, <1>8, <2>1, <2>5
    <3>2. PICK i \in 1..m : s = rest[i]
      BY <1>2, <3>1
    <3>3. ~ (i \in 1..(j - 1))
      BY <1>8, <3>1, <3>2
    <3>4. i = j \/ j \in 1..(i - 1)
      BY <1>1, <3>3
    <3>5. i = j \/ rest[j].t < rest[i].t
      BY <1>1, <3>4
    <3>6. E(j) <= s.t
      BY <1>1, <2>2, <3>1, <3>2, <3>5
    <3> QED BY <1>3, <1>8, <2>2, <3>1, <3>6
  <2> QED BY <1>5, <2>3, <2>4, <2>5
<1>9. ASSUME NEW j \in 1..m PROVE E(j) - E(j - 1) <= gyro_max_gap
  <2>1. j \in 0..m /\ j - 1 \in 0..m
    BY <1>1
  <2>2. E(j) \in Nat /\ E(j - 1) \in Nat /\ E(j - 1) <= E(j) /\ E(j) <= t1 /\ t0 <= E(j - 1)
    BY <1>1, <2>1
  <2>3. CASE E(j - 1) >= t1
    BY <1>1, <1>3, <2>2, <2>3
  <2>4. CASE E(j - 1) < t1
    <3>1. CASE j = 1
      <4>1. \A i \in 1..(j - 1) : rest[i].t <= t0
        BY <3>1
      <4> QED BY <1>1, <1>7, <1>8, <3>1, <4>1
    <3>2. CASE j # 1
      <4>1. j - 1 \in 1..m
        BY <1>1, <3>2
      <4>2. E(j - 1) = rest[j - 1].t /\ rest[j - 1].t < t1
        BY <1>1, <2>4, <4>1
      <4>3. \A i \in 1..(j - 1) : rest[i].t <= E(j - 1)
        <5> SUFFICES ASSUME NEW i \in 1..(j - 1) PROVE rest[i].t <= E(j - 1)
          OBVIOUS
        <5>1. i \in 1..m /\ (i = j - 1 \/ i \in 1..((j - 1) - 1))
          BY <1>1
        <5>2. rest[i].t \in Nat
          BY <1>1, <5>1
        <5>3. i = j - 1 \/ rest[i].t < rest[j - 1].t
          BY <1>1, <4>1, <5>1
        <5> QED BY <2>2, <4>2, <5>2, <5>3
      <4>4. E(j - 1) \in times
        BY <1>6, <4>1, <4>2
      <4> QED BY <1>8, <2>2, <2>4, <4>3, <4>4
    <3> QED BY <3>1, <3>2
  <2> QED BY <1>1, <2>2, <2>3, <2>4
<1>10. t1 - rest[m].t <= gyro_max_gap
  <2>1. rest[m].t \in Nat /\ rest[m].t > t0
    BY <1>1
  <2>2. CASE rest[m].t >= t1
    BY <1>1, <1>3, <2>1, <2>2
  <2>3. CASE rest[m].t < t1
    <3> DEFINE x == rest[m].t
    <3>1. x \in times /\ x # t1
      BY <1>1, <1>6, <2>1, <2>3
    <3>2. PICK y \in times : y - x \in 1..gyro_max_gap
      BY <1>4, <3>1
    <3>3. CASE y = t0
      BY <1>1, <1>3, <2>1, <3>2, <3>3
    <3>4. CASE y = t1
      BY <1>1, <1>3, <2>1, <3>2, <3>4
    <3>5. ASSUME NEW s \in readings, y = s.t PROVE FALSE
      <4>1. s.t \in Nat /\ s.t > x /\ s.t > t0
        <5>1. s.t \in Nat /\ y = s.t /\ x \in Nat /\ x > t0 /\ t0 \in Nat
          BY <1>1, <1>2, <2>1, <3>5
        <5>2. y - x >= 1
          BY <1>3, <3>2, <5>1
        <5> HIDE DEF x
        <5> QED BY <5>1, <5>2
      <4>2. PICK i \in 1..m : s = rest[i]
        BY <1>2, <4>1
      <4>3. i = m \/ i \in 1..(m - 1)
        BY <1>1
      <4>4. i = m \/ rest[i].t < rest[m].t
        BY <1>1, <4>3
      <4> QED BY <2>1, <4>1, <4>2, <4>4
    <3> QED BY <1>5, <3>3, <3>4, <3>5
  <2> QED BY <1>1, <2>1, <2>2, <2>3
<1> QED BY <1>9, <1>10 DEF NoGap, E, m

(* The readings of the queue from the first one after t0 on.                *)
LEMMA RestIsAfter ==
  ASSUME NEW samples \in Seq(Readings), TimesIncrease(samples), NEW readings,
         OneAtATime(readings), ToSet(samples) \subseteq readings, NEW t0 \in Times,
         \A s \in readings : s.t > t0 => s \in ToSet(samples),
         NEW n \in 1..Len(samples), samples[n].t > t0,
         \A i \in 1..Len(samples) : samples[i].t > t0 => n <= i
  PROVE  LET rest == SubSeq(samples, n, Len(samples))
         IN  /\ After(rest, readings, t0) /\ Len(rest) \in Nat \ {0}
             /\ rest[1] = samples[n] /\ rest[Len(rest)] = Last(samples)
<1> DEFINE m == Len(samples)
           rest == SubSeq(samples, n, m)
           l == (m - n) + 1
<1>1. /\ m \in Nat /\ DOMAIN samples = 1..m /\ n \in Nat /\ n >= 1 /\ n <= m /\ t0 \in Nat
      /\ \A i \in 1..m : samples[i] \in Readings /\ samples[i].t \in Nat
  <2>1. m \in Nat /\ DOMAIN samples = 1..m /\ n \in Nat /\ n >= 1 /\ n <= m
        /\ \A i \in 1..m : samples[i] \in Readings
    OBVIOUS
  <2> HIDE DEF m
  <2> QED BY <2>1, ConstantTypes
<1>2. \A i \in 1..m : \A j \in 1..(i - 1) : samples[j].t < samples[i].t
  BY <1>1 DEF TimesIncrease
<1>3. /\ rest \in Seq(Readings) /\ rest # <<>> /\ Len(rest) = l
      /\ \A i \in 1..l : rest[i] = samples[(n + i) - 1]
      /\ Last(rest) = Last(samples)
  BY FromFacts
<1> HIDE DEF m, rest
<1>4. l \in Nat \ {0} /\ 1 \in 1..l /\ (n + 1) - 1 = n /\ DOMAIN rest = 1..l
  BY <1>1, <1>3
<1>5. \A i \in 1..l : (n + i) - 1 \in 1..m
  BY <1>1
<1>6. TimesIncrease(rest)
  <2> SUFFICES ASSUME NEW i \in 1..l, NEW j \in 1..(i - 1) PROVE rest[j].t < rest[i].t
    BY <1>4 DEF TimesIncrease
  <2>1. j \in 1..l /\ (n + j) - 1 \in 1..(((n + i) - 1) - 1)
    BY <1>1
  <2>2. (n + i) - 1 \in 1..m
    BY <1>5
  <2> QED BY <1>2, <1>3, <2>1, <2>2
<1>7. ASSUME NEW i \in 1..l PROVE rest[i].t > t0
  <2>1. i = 1 \/ 1 \in 1..(i - 1)
    BY <1>1
  <2>2. rest[1] = samples[n] /\ rest[1].t \in Nat
    BY <1>1, <1>3, <1>4, <1>5
  <2>3. rest[i].t \in Nat
    BY <1>1, <1>3, <1>5
  <2>4. i = 1 \/ rest[1].t < rest[i].t
    BY <1>4, <1>6, <2>1 DEF TimesIncrease
  <2> QED BY <1>1, <2>2, <2>3, <2>4
<1>8. \A i \in 1..l : rest[i] \in readings
  <2>1. \A i \in 1..m : samples[i] \in readings
    BY <1>1 DEF ToSet
  <2> QED BY <1>3, <1>5, <2>1
<1>9. ASSUME NEW s \in readings, s.t > t0 PROVE \E i \in 1..l : s = rest[i]
  <2>1. PICK i \in 1..m : s = samples[i]
    BY <1>1, <1>9 DEF ToSet
  <2>2. n <= i
    BY <1>9, <2>1 DEF m
  <2>3. (i - n) + 1 \in 1..l /\ (n + ((i - n) + 1)) - 1 = i
    BY <1>1, <2>2
  <2> QED BY <1>3, <2>1, <2>3
<1>10. ToSet(rest) = {s \in readings : s.t > t0}
  BY <1>4, <1>7, <1>8, <1>9 DEF ToSet
<1>11. After(rest, readings, t0)
  BY <1>3, <1>4, <1>6, <1>7, <1>10 DEF After, Follow
<1>12. rest[Len(rest)] = Last(samples)
  BY <1>3 DEF Last
<1> HIDE DEF l
<1> QED BY <1>3, <1>4, <1>11, <1>12 DEF rest, m

LEMMA IntegrateIs ==
  ASSUME NEW samples \in Seq(Readings), TimesIncrease(samples), NEW readings,
         OneAtATime(readings), ToSet(samples) \subseteq readings,
         NEW t0 \in Times, NEW t1 \in Times, t0 < t1,
         \A s \in readings : s.t > t0 => s \in ToSet(samples)
  PROVE  LET R == integrate_gyro(samples, t0, t1)
         IN  /\ R \in Seq(Readings)
             /\ R # <<>> => /\ Covers(readings, t0, t1)
                            /\ R = [u \in 1..(t1 - t0) |-> HoldsAt(readings, t0 + u)]
             /\ Covers(readings, t0, t1) /\ StartsSoon(readings, t0) => R # <<>>
<1> DEFINE m == Len(samples)
           I == {i \in 1..m : samples[i].t > t0}
           first == SelectInSeq(samples, LAMBDA s : s.t > t0)
           rest == SubSeq(samples, first, m)
           loop == Loop(rest, t0, t1)
           starts == first # 1 \/ samples[first].t - t0 <= gyro_max_gap
           ends == t1 - Last(samples).t <= gyro_max_gap
           full == loop.R \o Hold(Last(samples), t1 - loop.prev)
           R == integrate_gyro(samples, t0, t1)
<1>1. m \in Nat /\ I \in SUBSET (1..m) /\ DOMAIN samples = 1..m
  OBVIOUS
<1>2. R = IF samples # <<>> /\ first # 0 /\ starts /\ ends /\ loop.covered THEN full ELSE <<>>
  BY DEF integrate_gyro, Loop, LoopStart
<1>3. CASE I = {}
  <2>1. first = 0
    BY <1>3 DEF SelectInSeq
  <2>2. R = <<>>
    BY <1>2, <2>1
  <2>3. \A s \in readings : ~ (s.t > t0)
    BY <1>1, <1>3 DEF ToSet
  <2>4. ~Covers(readings, t0, t1)
    BY <2>3 DEF Covers
  <2>5. <<>> \in Seq(Readings)
    BY EmptySeq
  <2> HIDE DEF R
  <2> QED BY <2>2, <2>4, <2>5 DEF R
<1>4. CASE I # {}
  <2>1. first = Min(I)
    BY <1>4 DEF SelectInSeq
  <2>2. Min(I) \in I /\ \A i \in I : Min(I) <= i
    <3> HIDE DEF I
    <3> QED BY <1>1, <1>4, MinOfNumbers
  <2>3. /\ first \in 1..m /\ first # 0 /\ samples[first].t > t0
        /\ \A i \in 1..m : samples[i].t > t0 => first <= i
    <3> DEFINE n == Min(I)
    <3>1. n \in 1..m /\ samples[n].t > t0 /\ \A i \in 1..m : samples[i].t > t0 => n <= i
      BY <2>2
    <3> HIDE DEF n, first, m
    <3>2. n # 0
      BY <1>1, <3>1
    <3> QED BY <2>1, <3>1, <3>2 DEF n
  <2>4. samples # <<>>
    <3>1. Len(<<>>) = 0 /\ m # 0
      BY <1>1, <2>3
    <3> QED BY <3>1
  <2> HIDE DEF I, first
  <2>5. /\ After(rest, readings, t0) /\ Len(rest) \in Nat \ {0}
        /\ rest[1] = samples[first] /\ rest[Len(rest)] = Last(samples)
    BY <2>3, RestIsAfter
  <2> DEFINE l == Len(rest)
             last == rest[l]
             E == EndOf(rest, t0, t1, l)
  <2> HIDE DEF rest
  <2>6. /\ t0 \in Nat /\ t1 \in Nat
        /\ l \in 1..l /\ last \in Readings /\ last.t \in Nat
        /\ \A k \in 1..l : rest[k].t \in Nat /\ rest[k].t > t0
        /\ \A k \in 1..l : \A i \in 1..(k - 1) : rest[i].t < rest[k].t
        /\ E \in Nat /\ t0 <= E /\ E <= t1
        /\ E = IF last.t < t1 THEN last.t ELSE t1
    <3>1. l \in 1..l /\ l \in 0..l
      BY <2>5
    <3> QED BY <2>5, <3>1, EndTyped DEF After
  <2>7. AfterLoop(rest, t0, t1, l, loop)
    BY <2>5, LoopRuns DEF After
  <2> HIDE DEF l, last, E, loop
  <2>8. /\ loop.R \in Seq(Readings) /\ loop.prev = E /\ Len(loop.R) = E - t0
        /\ \A u \in 1..(E - t0) : HeldBy(rest, l, t0 + u, loop.R[u])
        /\ loop.covered /\ ends <=> NoGap(rest, t0, t1)
    <3>1. /\ loop \in LoopStates /\ loop.prev = E /\ Len(loop.R) = E - t0
          /\ \A u \in 1..Len(loop.R) : HeldBy(rest, l, t0 + u, loop.R[u])
          /\ loop.covered <=> \A j \in 1..l :
               EndOf(rest, t0, t1, j) - EndOf(rest, t0, t1, j - 1) <= gyro_max_gap
      BY <2>7 DEF AfterLoop, E
    <3>2. ends <=> t1 - rest[Len(rest)].t <= gyro_max_gap
      BY <2>5
    <3> HIDE DEF ends
    <3>3. loop.covered /\ ends <=> NoGap(rest, t0, t1)
      BY <3>1, <3>2 DEF NoGap, l
    <3>4. loop.R \in Seq(Readings)
      BY <3>1 DEF LoopStates
    <3> QED BY <3>1, <3>3, <3>4
  <2>9. /\ full \in Seq(Readings) /\ full # <<>>
        /\ full = [u \in 1..(t1 - t0) |-> HoldsAt(readings, t0 + u)]
    <3> DEFINE p == loop.R
               q == Hold(last, t1 - E)
               a == E - t0
               b == t1 - E
    <3>1. a \in Nat /\ b \in Nat /\ a + b = t1 - t0 /\ a + b # 0
      <4>1. t0 \in Nat /\ t1 \in Nat /\ E \in Nat /\ t0 <= E /\ E <= t1
        BY <2>6
      <4> QED BY <4>1
    <3>2. q \in Seq(Readings) /\ Len(q) = b /\ \A u \in 1..b : q[u] = last
      BY <2>6, <3>1, HoldTyped
    <3>3. full = p \o q
      BY <2>5, <2>8 DEF last, l
    <3>4. p \in Seq(Readings) /\ Len(p) = a
      BY <2>8
    <3> HIDE DEF p, q
    <3>5. /\ p \o q \in Seq(Readings) /\ Len(p \o q) = Len(p) + Len(q)
          /\ \A u \in 1..(Len(p) + Len(q)) :
               (p \o q)[u] = IF u <= Len(p) THEN p[u] ELSE q[u - Len(p)]
      BY <3>2, <3>4, ConcatProperties
    <3> HIDE DEF full, a, b
    <3>6. /\ full \in Seq(Readings) /\ Len(full) = a + b
          /\ \A u \in 1..(a + b) : full[u] = IF u <= a THEN p[u] ELSE q[u - a]
      BY <3>2, <3>3, <3>4, <3>5
    <3>7. ASSUME NEW u \in 1..(a + b) PROVE full[u] = HoldsAt(readings, t0 + u)
      <4>1. t0 + u \in Nat /\ t0 + u > t0 /\ t0 + u <= t1 /\ u \in Nat
        BY <2>6, <3>1
      <4>2. CASE u <= a
        <5>1. u \in 1..a
          BY <3>1, <4>2
        <5>2. HeldBy(rest, l, t0 + u, p[u])
          BY <2>8, <5>1 DEF a, p
        <5>3. HoldsAt(readings, t0 + u) = p[u]
          BY <2>5, <4>1, <5>2, HoldsInRest DEF l
        <5> QED BY <3>6, <4>2, <5>3
      <4>3. CASE ~ (u <= a)
        <5>1. u - a \in 1..b
          BY <3>1, <4>1, <4>3
        <5>2. full[u] = last
          BY <3>2, <3>6, <4>3, <5>1
        <5>3. E < t0 + u
          <6>1. a = E - t0
            BY DEF a
          <6> QED BY <2>6, <4>1, <4>3, <6>1
        <5>4. last.t < t0 + u
          BY <2>6, <4>1, <5>3
        <5>5. HoldsAt(readings, t0 + u) = last
          BY <2>5, <4>1, <5>4, HoldsInRest DEF l, last
        <5> QED BY <5>2, <5>5
      <4> QED BY <4>2, <4>3
    <3>8. full # <<>>
      <4>1. Len(<<>>) = 0
        OBVIOUS
      <4> QED BY <3>1, <3>6, <4>1
    <3>9. full = [u \in 1..(a + b) |-> HoldsAt(readings, t0 + u)]
      <4>1. full = [u \in 1..(a + b) |-> full[u]]
        BY <3>6
      <4> QED BY <3>7, <4>1
    <3> QED BY <3>1, <3>6, <3>8, <3>9
  <2> HIDE DEF full, R, starts, ends
  <2>10. <<>> \in Seq(Readings)
    BY EmptySeq
  <2>11. R # <<>> => R = full /\ NoGap(rest, t0, t1)
    BY <1>2, <2>8
  <2>12. NoGap(rest, t0, t1) => Covers(readings, t0, t1)
    BY <2>5, NoGapCovers
  <2>13. Covers(readings, t0, t1) => NoGap(rest, t0, t1)
    BY <2>5, CoversNoGap
  <2>14. StartsSoon(readings, t0) => starts
    <3> SUFFICES ASSUME NEW s \in readings, s.t - t0 \in 1..gyro_max_gap
                 PROVE  samples[first].t - t0 <= gyro_max_gap
      BY DEF StartsSoon, starts
    <3>1. /\ s.t \in Nat
          /\ s.t > t0 => \E j \in 1..l : s = rest[j]
      BY <2>5, AfterFacts DEF l
    <3>2. gyro_max_gap \in Nat
      BY ConstantTypes
    <3>3. s.t > t0 /\ s.t - t0 <= gyro_max_gap
      BY <2>6, <3>1, <3>2
    <3>4. PICK j \in 1..l : s = rest[j]
      BY <3>1, <3>3
    <3>5. j = 1 \/ 1 \in 1..(j - 1)
      BY <2>6
    <3>6. j = 1 \/ rest[1].t < rest[j].t
      BY <2>6, <3>5
    <3>7. rest[1].t \in Nat
      <4>1. 1 \in 1..l
        BY <2>5 DEF l
      <4> QED BY <2>6, <4>1
    <3>8. rest[1].t - t0 <= gyro_max_gap
      BY <2>6, <3>1, <3>2, <3>3, <3>4, <3>6, <3>7
    <3> QED BY <2>5, <3>8
  <2>15. NoGap(rest, t0, t1) /\ starts => R = full
    BY <1>2, <2>3, <2>4, <2>8
  <2> QED BY <1>2, <2>9, <2>10, <2>11, <2>12, <2>13, <2>14, <2>15 DEF R
<1> QED BY <1>3, <1>4

-----------------------------------------------------------------------------
(***************************************************************************)
(* The gyroscope: a reading comes.                                         *)
(***************************************************************************)
IsNewest(seq, imu, i) ==
  seq[i].imu = imu /\ \A l \in 1..(i - 1) : seq[l].imu = imu => seq[l].t < seq[i].t

LEMMA GyroIs ==
  ASSUME received \in Seq(Readings)
  PROVE  /\ Gyro = {received[i] : i \in
                      {j \in DOMAIN received : IsNewest(received, HeardImu(GyroImus), j)}}
         /\ OneAtATime(Gyro)
         /\ \A s \in Gyro : /\ s.imu = HeardImu(GyroImus)
                            /\ \E i \in DOMAIN received : s = received[i]
<1>1. Gyro = {received[i] : i \in
                {j \in DOMAIN received : IsNewest(received, HeardImu(GyroImus), j)}}
  BY DEF Gyro, IsNewest
<1>2. \A i \in DOMAIN received : received[i] \in Readings
  OBVIOUS
<1>3. \A s \in Gyro : /\ s.imu = HeardImu(GyroImus) /\ s \in Readings
                      /\ \E i \in DOMAIN received : s = received[i]
  BY <1>1, <1>2 DEF IsNewest
<1>4. \A s \in Readings : \A o \in Readings : s.imu = o.imu /\ s.t = o.t => s = o
  BY DEF Readings
<1>5. OneAtATime(Gyro)
  BY <1>3, <1>4 DEF OneAtATime
<1> QED BY <1>1, <1>3, <1>5

(* A reading counts if it is newer than all before it.                      *)
LEMMA GyroNext ==
  ASSUME received \in Seq(Readings), NEW r \in Readings, received' = Append(received, r)
  PROVE  Gyro' = IF /\ r.imu \in GyroImus /\ r.imu = HeardImu(GyroImus)'
                    /\ \A i \in DOMAIN received : received[i].imu = r.imu => received[i].t < r.t
                 THEN Gyro \cup {r} ELSE Gyro
<1> DEFINE m == Len(received)
           more == Append(received, r)
           imu == HeardImu(GyroImus)
           next == HeardImu(GyroImus)'
           counts == \A i \in DOMAIN received : received[i].imu = r.imu => received[i].t < r.t
<1>1. /\ more \in Seq(Readings) /\ Len(more) = m + 1 /\ m \in Nat
      /\ DOMAIN more = 1..(m + 1) /\ DOMAIN received = 1..m
      /\ \A i \in 1..m : more[i] = received[i]
      /\ more[m + 1] = r
  BY AppendProperties
<1>2. Gyro' = {more[i] : i \in {j \in 1..(m + 1) : IsNewest(more, next, j)}}
  BY <1>1 DEF Gyro, IsNewest
<1>3. Gyro = {received[i] : i \in {j \in 1..m : IsNewest(received, imu, j)}}
  BY <1>1, GyroIs
<1>4. GyroImus \in SUBSET Imus /\ r.imu # "" /\ \A i \in 1..m : received[i].imu # ""
  <2>1. \A i \in 1..m : received[i] \in Readings
    OBVIOUS
  <2> QED BY <2>1, ConstantTypes DEF Imus
<1>5. next = IF r.imu \in GyroImus THEN Latched(imu, r.imu) ELSE imu
  BY <1>4, HeardNext
<1>6. \/ imu = "" /\ \A i \in 1..m : received[i].imu \notin GyroImus
      \/ imu \in GyroImus
  BY <1>4, FirstHeard
<1> HIDE DEF m, more, imu, next
<1>7. \A i \in 1..(m + 1) : i \in 1..m \/ i = m + 1
  BY <1>1
<1>8. 1..m \subseteq 1..(m + 1) /\ m + 1 \in 1..(m + 1) /\ (m + 1) - 1 = m
  BY <1>1
<1>9. ASSUME NEW i \in 1..m PROVE IsNewest(more, next, i) <=> IsNewest(received, next, i)
  <2>1. \A l \in 1..(i - 1) : l \in 1..m
    BY <1>1
  <2> QED BY <1>1, <2>1 DEF IsNewest
<1>10. IsNewest(more, next, m + 1) <=> r.imu = next /\ counts
  BY <1>1, <1>8 DEF IsNewest
<1>11. CASE next = imu
  <2>1. r.imu = next => r.imu \in GyroImus
    BY <1>4, <1>6, <1>11
  <2>2. {more[i] : i \in {j \in 1..m : IsNewest(more, next, j)}} = Gyro
    BY <1>1, <1>3, <1>9, <1>11
  <2>3. Gyro' = {more[i] : i \in {j \in 1..m : IsNewest(more, next, j)}}
                  \cup (IF IsNewest(more, next, m + 1) THEN {r} ELSE {})
    BY <1>1, <1>2, <1>7, <1>8
  <2> HIDE DEF counts
  <2> QED BY <1>10, <2>1, <2>2, <2>3 DEF counts, next
<1>12. CASE next # imu
  <2>1. r.imu \in GyroImus /\ imu = "" /\ next = r.imu
    BY <1>5, <1>12 DEF Latched
  <2>2. \A i \in 1..m : received[i].imu \notin GyroImus
    BY <1>4, <1>6, <2>1, ConstantTypes
  <2>3. Gyro = {}
    BY <1>3, <1>4, <2>1 DEF IsNewest
  <2>4. counts
    BY <1>1, <2>1, <2>2
  <2>5. \A i \in 1..m : ~IsNewest(more, next, i)
    BY <1>1, <2>1, <2>2 DEF IsNewest
  <2>6. Gyro' = {r}
    BY <1>1, <1>2, <1>7, <1>8, <1>10, <2>1, <2>4, <2>5
  <2> QED BY <2>1, <2>3, <2>4, <2>6 DEF next
<1> QED BY <1>11, <1>12

(* What a queue keeps of its readings and a new one.                        *)
LEMMA PrunedKeeps ==
  ASSUME NEW samples \in Seq(Readings), TimesIncrease(samples), NEW r \in Readings,
         NEW keep \in Nat, Newest(samples) < r.t
  PROVE  LET left == Pruned(Append(samples, r), r.t, keep)
         IN  /\ left \in Seq(Readings) /\ TimesIncrease(left) /\ Newest(left) = r.t
             /\ ToSet(left) = {s \in ToSet(samples) \cup {r} : r.t - s.t <= keep}
<1> DEFINE more == Append(samples, r)
           m == Len(samples)
           left == Pruned(more, r.t, keep)
<1>1. more \in Seq(Readings) /\ Len(more) = m + 1 /\ more[m + 1] = r /\ m \in Nat
      /\ DOMAIN more = 1..(m + 1) /\ DOMAIN samples = 1..m
      /\ (\A i \in 1..m : more[i] = samples[i])
      /\ \A i \in 1..(m + 1) : more[i] \in Readings
  BY AppendProperties
<1>2. PICK n \in 1..(m + 1) :
        /\ left = From(more, n)
        /\ \A i \in 1..(n - 1) : r.t - more[i].t > keep
        /\ r.t - more[n].t <= keep
  BY PrunedIs
<1>3. samples # <<>> => Newest(samples) = samples[m].t /\ m \in 1..m
  BY NewestIs
<1>4. m # 0 => samples # <<>>
  BY EmptySeq
<1> HIDE DEF more, m, left
<1>5. r.t \in Nat /\ \A i \in 1..(m + 1) : more[i].t \in Nat
  BY <1>1, ConstantTypes
<1>6. \A i \in 1..(m + 1) : \A j \in 1..(i - 1) : more[j].t < more[i].t
  <2> SUFFICES ASSUME NEW i \in 1..(m + 1), NEW j \in 1..(i - 1) PROVE more[j].t < more[i].t
    OBVIOUS
  <2>1. j \in 1..m /\ j \in 1..(m + 1) /\ more[j] = samples[j]
    BY <1>1
  <2>2. \A l \in 1..m : \A h \in 1..(l - 1) : samples[h].t < samples[l].t
    BY <1>1 DEF TimesIncrease
  <2>3. CASE i \in 1..m
    BY <1>1, <2>1, <2>2, <2>3
  <2>4. CASE i \notin 1..m
    <3>1. i = m + 1 /\ m # 0
      BY <1>1, <2>4
    <3>2. samples[m].t < r.t /\ m \in 1..m
      BY <1>3, <1>4, <3>1
    <3>3. j = m \/ j \in 1..(m - 1)
      BY <1>1, <2>1
    <3>4. more[j].t <= more[m].t /\ more[m] = samples[m] /\ m \in 1..(m + 1)
      <4>1. m \in 1..(m + 1) /\ more[m] = samples[m]
        BY <1>1, <3>2
      <4>2. j = m \/ samples[j].t < samples[m].t
        BY <2>2, <3>2, <3>3
      <4>3. more[j].t \in Nat /\ more[m].t \in Nat
        BY <1>5, <2>1, <4>1
      <4> QED BY <2>1, <4>1, <4>2, <4>3
    <3>5. more[j].t \in Nat /\ more[m].t \in Nat
      BY <1>5, <2>1, <3>4
    <3> QED BY <1>1, <1>5, <3>1, <3>2, <3>4, <3>5
  <2> QED BY <2>3, <2>4
<1> DEFINE l == ((m + 1) - n) + 1
<1>7. /\ left \in Seq(Readings) /\ left # <<>> /\ Len(left) = l
      /\ \A i \in 1..l : left[i] = more[(n + i) - 1]
      /\ Last(left) = Last(more)
  <2>1. n \in 1..Len(more)
    BY <1>1
  <2>2. /\ From(more, n) \in Seq(Readings) /\ From(more, n) # <<>>
        /\ Len(From(more, n)) = (Len(more) - n) + 1
        /\ \A i \in 1..((Len(more) - n) + 1) : From(more, n)[i] = more[(n + i) - 1]
        /\ Last(From(more, n)) = Last(more)
    BY <1>1, <2>1, FromFacts
  <2>3. Len(more) = m + 1
    BY <1>1
  <2> QED BY <1>2, <2>2, <2>3, Zenon
<1>8. l \in Nat /\ DOMAIN left = 1..l /\ \A i \in 1..l : (n + i) - 1 \in n..(m + 1)
  BY <1>1, <1>7
<1>9. Newest(left) = r.t
  BY <1>1, <1>7 DEF Newest, Last
<1>10. TimesIncrease(left)
  <2> SUFFICES ASSUME NEW i \in 1..l, NEW j \in 1..(i - 1) PROVE left[j].t < left[i].t
    BY <1>8 DEF TimesIncrease
  <2>1. /\ j \in 1..l /\ (n + i) - 1 \in 1..(m + 1)
        /\ (n + j) - 1 \in 1..(((n + i) - 1) - 1)
    BY <1>1
  <2> QED BY <1>6, <1>7, <2>1
<1>11. \A i \in 1..(m + 1) : r.t - more[i].t <= keep <=> i >= n
  <2> TAKE i \in 1..(m + 1)
  <2>1. i \in 1..(n - 1) \/ i = n \/ n \in 1..(i - 1)
    BY <1>1
  <2>2. more[i].t \in Nat /\ more[n].t \in Nat
    BY <1>5
  <2>3. n \in 1..(i - 1) => more[n].t < more[i].t
    BY <1>6
  <2>4. CASE i \in 1..(n - 1)
    BY <1>2, <1>5, <2>2, <2>4
  <2>5. CASE i = n
    BY <1>1, <1>2, <2>5
  <2>6. CASE n \in 1..(i - 1)
    <3>1. r.t - more[i].t <= keep
      BY <1>2, <1>5, <2>2, <2>3, <2>6
    <3>2. i >= n
      BY <2>6
    <3> QED BY <3>1, <3>2
  <2> QED BY <2>1, <2>4, <2>5, <2>6
<1>12. ToSet(more) = ToSet(samples) \cup {r}
  <2>1. \A i \in 1..(m + 1) : i \in 1..m \/ i = m + 1
    BY <1>1
  <2>2. 1..m \subseteq 1..(m + 1) /\ m + 1 \in 1..(m + 1)
    BY <1>1
  <2> QED BY <1>1, <2>1, <2>2 DEF ToSet
<1>13. ToSet(left) = {s \in ToSet(more) : r.t - s.t <= keep}
  <2>1. ASSUME NEW i \in 1..l PROVE left[i] \in ToSet(more) /\ r.t - left[i].t <= keep
    <3>1. (n + i) - 1 \in 1..(m + 1) /\ (n + i) - 1 >= n
      BY <1>1
    <3> QED BY <1>1, <1>7, <1>11, <3>1 DEF ToSet
  <2>2. ASSUME NEW i \in 1..(m + 1), r.t - more[i].t <= keep PROVE \E j \in 1..l : more[i] = left[j]
    <3>1. i >= n
      BY <1>11, <2>2
    <3>2. (i - n) + 1 \in 1..l /\ (n + ((i - n) + 1)) - 1 = i
      BY <1>1, <3>1
    <3> QED BY <1>7, <3>2
  <2> HIDE DEF l
  <2>3. ToSet(left) = {left[i] : i \in 1..l} /\ ToSet(more) = {more[i] : i \in 1..(m + 1)}
    BY <1>1, <1>8 DEF ToSet
  <2>4. ToSet(left) \subseteq {s \in ToSet(more) : r.t - s.t <= keep}
    BY <2>1, <2>3
  <2>5. {s \in ToSet(more) : r.t - s.t <= keep} \subseteq ToSet(left)
    BY <2>2, <2>3
  <2> QED BY <2>4, <2>5
<1> QED BY <1>7, <1>9, <1>10, <1>12, <1>13 DEF left, more

(* A gyroscope's reading is queued if and only if it counts.                *)
LEMMA GyroReading ==
  ASSUME TypeInv, GyroInv, NEW r \in Readings, received' = Append(received, r),
         IF r.imu \in GyroImus THEN add_gyro_sample(r) ELSE UNCHANGED gyroVars,
         UNCHANGED request
  PROVE  GyroInv' /\ gyro_label_' \in Labels /\ gyro_samples_' \in Seq(Readings)
<1> DEFINE m == Len(received)
           label == gyro_label_
           samples == gyro_samples_
           newest == Newest(gyro_samples_)
           used == r.imu \in GyroImus /\ r.imu = HeardImu(GyroImus)'
           counts == \A i \in DOMAIN received : received[i].imu = r.imu => received[i].t < r.t
<1>1. /\ received \in Seq(Readings) /\ samples \in Seq(Readings) /\ label \in Labels
      /\ label = HeardImu(GyroImus) /\ TimesIncrease(samples)
      /\ ToSet(samples) = {s \in Gyro : newest - s.t <= GYRO_KEEP}
      /\ \A i \in DOMAIN received : received[i].imu = label => received[i].t <= newest
      /\ request.bias \in {"", label}
  BY DEF TypeInv, GyroInv
<1>2. /\ m \in Nat /\ DOMAIN received = 1..m /\ DOMAIN received' = 1..(m + 1)
      /\ (\A i \in 1..m : received'[i] = received[i])
      /\ received'[m + 1] = r
      /\ \A i \in 1..m : received[i] \in Readings
  <2> DEFINE more == Append(received, r)
  <2>3. received \in Seq(Readings)
    BY <1>1
  <2>1. /\ more \in Seq(Readings) /\ Len(more) = m + 1 /\ m \in Nat
        /\ DOMAIN more = 1..(m + 1) /\ DOMAIN received = 1..m
        /\ (\A i \in 1..m : more[i] = received[i])
        /\ more[m + 1] = r
        /\ \A i \in 1..m : received[i] \in Readings
    BY <2>3, AppendProperties
  <2> HIDE DEF more, m
  <2>2. received' = more
    BY DEF more
  <2> QED BY <2>1, <2>2
<1>3. /\ GyroImus \in SUBSET Imus /\ r.imu # "" /\ r.imu \in Imus /\ r.t \in Nat /\ r.t >= 1
      /\ "" \notin GyroImus /\ GYRO_KEEP \in Nat
      /\ \A i \in 1..m : received[i].imu # "" /\ received[i].t \in Nat
  BY <1>2, ConstantTypes DEF Imus
<1>4. HeardImu(GyroImus)' = IF r.imu \in GyroImus THEN Latched(label, r.imu) ELSE label
  BY <1>1, <1>3, HeardNext
<1>5. gyro_label_' = HeardImu(GyroImus)' /\ gyro_label_' \in Labels
  <2>1. gyro_label_' = HeardImu(GyroImus)'
    BY <1>4 DEF add_gyro_sample, gyroVars
  <2>2. gyro_label_' = label \/ gyro_label_' = r.imu
    BY <1>4, <2>1 DEF Latched
  <2> QED BY <1>1, <1>3, <2>1, <2>2 DEF Labels
<1>6. /\ OneAtATime(Gyro)
      /\ \A s \in Gyro : s.imu = label /\ \E i \in 1..m : s = received[i]
  BY <1>1, <1>2, GyroIs
<1>7. /\ newest \in Nat
      /\ samples = <<>> => newest = 0
      /\ samples # <<>> => newest = Last(samples).t /\ Last(samples) \in ToSet(samples)
  <2>1. /\ newest \in Nat
        /\ samples = <<>> => newest = 0
        /\ samples # <<>> => /\ newest = samples[Len(samples)].t
                             /\ Len(samples) \in 1..Len(samples)
    BY <1>1, NewestIs
  <2> HIDE DEF samples, newest
  <2>2. Last(samples) = samples[Len(samples)] /\ DOMAIN samples = 1..Len(samples)
    <3>1. samples \in Seq(Readings)
      BY <1>1
    <3> QED BY <3>1 DEF Last
  <2>3. samples # <<>> => Last(samples) \in ToSet(samples) /\ newest = Last(samples).t
    BY <2>1, <2>2 DEF ToSet
  <2> QED BY <2>1, <2>3
<1>8. \/ label = "" /\ \A i \in 1..m : received[i].imu \notin GyroImus
      \/ label \in GyroImus
  BY <1>1, <1>3, FirstHeard
<1>9. label = "" => samples = <<>>
  <2> SUFFICES ASSUME label = "" PROVE samples = <<>>
    OBVIOUS
  <2>1. Gyro = {}
    BY <1>3, <1>6
  <2>2. ToSet(samples) = {}
    BY <1>1, <2>1
  <2> QED BY <1>7, <2>2
<1>10. Gyro' = IF used /\ counts THEN Gyro \cup {r} ELSE Gyro
  BY <1>1, GyroNext
<1> HIDE DEF m, label, samples, newest
<1>19. r.t \in Nat /\ r.t >= 1 /\ newest \in Nat /\ GYRO_KEEP \in Nat
  BY <1>3, <1>7
<1>20. \A i \in 1..m : received[i].t \in Nat
  BY <1>3
<1>11. Accepts(samples, r) <=> newest < r.t
  <2>1. CASE samples = <<>>
    BY <1>7, <1>19, <2>1 DEF Accepts
  <2>2. CASE samples # <<>>
    BY <1>7, <2>2 DEF Accepts
  <2> QED BY <2>1, <2>2
<1>12. ASSUME used PROVE counts <=> newest < r.t
  <2>1. label = r.imu \/ label = ""
    BY <1>4, <1>12 DEF Latched
  <2>2. ASSUME newest < r.t, NEW i \in 1..m, received[i].imu = r.imu PROVE received[i].t < r.t
    <3>1. received[i].imu = label
      <4>1. received[i].imu \in GyroImus
        BY <1>12, <2>2
      <4>2. label \in GyroImus
        BY <1>8, <4>1
      <4>3. label = r.imu
        BY <1>3, <2>1, <4>2
      <4> QED BY <2>2, <4>3
    <3>2. received[i].t <= newest
      BY <1>1, <1>2, <3>1
    <3>3. received[i].t \in Nat
      BY <1>20
    <3> QED BY <1>19, <2>2, <3>2, <3>3
  <2>3. ASSUME ~ (newest < r.t) PROVE ~counts
    <3>1. samples # <<>>
      BY <1>7, <1>19, <2>3
    <3>2. Last(samples) \in Gyro /\ label # ""
      BY <1>1, <1>7, <1>9, <3>1
    <3>3. PICK i \in 1..m : Last(samples) = received[i]
      BY <1>6, <3>2
    <3>4. received[i].imu = r.imu /\ received[i].t = newest
      BY <1>6, <1>7, <2>1, <3>1, <3>2, <3>3
    <3> QED BY <1>2, <2>3, <3>4
  <2> QED BY <1>2, <2>2, <2>3
<1>13. gyro_samples_' = IF used /\ newest < r.t
                        THEN Pruned(Append(samples, r), r.t, GYRO_KEEP) ELSE samples
  BY <1>5, <1>11 DEF add_gyro_sample, gyroVars, samples
<1>14. gyro_label_' = label \/ (label = "" /\ used /\ newest < r.t)
  <2>1. gyro_label_' = label \/ (label = "" /\ used)
    BY <1>4, <1>5 DEF Latched
  <2>2. ASSUME label = "" PROVE newest < r.t
    <3>1. newest = 0
      BY <1>7, <1>9, <2>2
    <3> QED BY <1>19, <3>1
  <2> QED BY <2>1, <2>2
<1>15. request'.bias \in {"", gyro_label_'}
  BY <1>1, <1>14
<1>16. \A i \in 1..(m + 1) : i \in 1..m \/ i = m + 1
  BY <1>2
<1>17. CASE used /\ newest < r.t
  <2> DEFINE left == Pruned(Append(samples, r), r.t, GYRO_KEEP)
  <2>1. /\ left \in Seq(Readings) /\ TimesIncrease(left) /\ Newest(left) = r.t
        /\ ToSet(left) = {s \in ToSet(samples) \cup {r} : r.t - s.t <= GYRO_KEEP}
    <3>1. samples \in Seq(Readings) /\ TimesIncrease(samples) /\ Newest(samples) < r.t
      BY <1>1, <1>17 DEF newest, samples
    <3> QED BY <1>19, <3>1, PrunedKeeps
  <2>2. gyro_samples_' = left /\ Gyro' = Gyro \cup {r} /\ counts
    BY <1>10, <1>12, <1>13, <1>17
  <2> HIDE DEF left
  <2>3. \A s \in Gyro : s.t \in Nat
    BY <1>6, <1>20
  <2>4. ToSet(left) = {s \in Gyro \cup {r} : r.t - s.t <= GYRO_KEEP}
    <3>1. ASSUME NEW s \in Gyro, r.t - s.t <= GYRO_KEEP PROVE s \in ToSet(samples)
      <4>1. newest - s.t <= GYRO_KEEP
        <5>1. s.t \in Nat
          BY <2>3
        <5> QED BY <1>17, <1>19, <3>1, <5>1
      <4> QED BY <1>1, <4>1
    <3>2. ToSet(samples) \subseteq Gyro
      BY <1>1
    <3> QED BY <2>1, <3>1, <3>2
  <2>5. Newest(gyro_samples_)' = r.t
    BY <2>1, <2>2 DEF Newest
  <2>6. ASSUME NEW i \in 1..(m + 1), received'[i].imu = gyro_label_'
        PROVE  received'[i].t <= r.t
    <3>1. CASE i = m + 1
      <4>1. received'[i] = r
        BY <1>2, <3>1
      <4> QED BY <1>19, <4>1
    <3>2. CASE i \in 1..m
      <4>1. received[i].imu = r.imu
        BY <1>2, <1>5, <1>17, <2>6, <3>2
      <4>2. received[i].t < r.t
        BY <1>2, <2>2, <3>2, <4>1
      <4>3. received'[i] = received[i] /\ received[i].t \in Nat
        BY <1>2, <1>20, <3>2
      <4> QED BY <1>19, <4>2, <4>3
    <3> QED BY <1>16, <3>1, <3>2
  <2>7. TimesIncrease(gyro_samples_)' /\ ToSet(gyro_samples_)' = ToSet(left)
    BY <2>1, <2>2 DEF TimesIncrease, ToSet
  <2>8. GyroInv'
    BY <1>2, <1>5, <1>15, <2>2, <2>4, <2>5, <2>6, <2>7 DEF GyroInv
  <2> QED BY <1>5, <2>1, <2>2, <2>8
<1>18. CASE ~ (used /\ newest < r.t)
  <2>1. gyro_samples_' = samples /\ Gyro' = Gyro /\ gyro_label_' = label
    BY <1>10, <1>12, <1>13, <1>14, <1>18
  <2>2. /\ Newest(gyro_samples_)' = newest
        /\ TimesIncrease(gyro_samples_)' = TimesIncrease(samples)
        /\ ToSet(gyro_samples_)' = ToSet(samples)
    BY <2>1 DEF Newest, TimesIncrease, ToSet, newest, samples
  <2>3. ASSUME NEW i \in 1..(m + 1), received'[i].imu = gyro_label_'
        PROVE  received'[i].t <= newest
    <3>1. CASE i = m + 1
      <4>1. r.imu = gyro_label_'
        BY <1>2, <2>3, <3>1
      <4>2. used
        BY <1>3, <1>5, <1>8, <2>1, <4>1
      <4>3. ~ (newest < r.t)
        BY <1>18, <4>2
      <4>4. received'[i] = r
        BY <1>2, <3>1
      <4> QED BY <1>19, <4>3, <4>4
    <3>2. CASE i \in 1..m
      BY <1>1, <1>2, <2>1, <2>3, <3>2
    <3> QED BY <1>16, <3>1, <3>2
  <2>4. GyroInv'
    BY <1>1, <1>2, <1>5, <1>15, <2>1, <2>2, <2>3 DEF GyroInv
  <2> QED BY <1>1, <1>5, <2>1, <2>4
<1> QED BY <1>17, <1>18

-----------------------------------------------------------------------------
(***************************************************************************)
(* The gyroscope: a keyframe is inserted.                                  *)
(***************************************************************************)
LEMMA InsertRotation ==
  ASSUME TypeInv, GyroInv, request \in [t : Times, bias : Labels],
         ~IsOlder(request.t), Insert(request.t, request.bias), received' = received
  PROVE  /\ rotation' \in Seq([R : Seq(Readings), bias : Labels])
         /\ Len(rotation') = Len(stamps')
         /\ NewestRotation'
<1> DEFINE Rotations == [R : Seq(Readings), bias : Labels]
           k == Len(stamps)
           t0 == Last(stamps)
           t1 == request.t
           samples == gyro_samples_
           newest == Newest(samples)
           R == IF stamps = <<>> THEN <<>> ELSE integrate_gyro(samples, t0, t1)
           new == RotationTo(t1, request.bias)
<1>1. /\ stamps \in Seq(Times) /\ Sorted(stamps) /\ k \in Nat
      /\ rotation \in Seq(Rotations) /\ Len(rotation) = k
      /\ received \in Seq(Readings) /\ samples \in Seq(Readings)
      /\ t1 \in Times /\ request.bias \in Labels
  BY DEF TypeInv
<1>2. stamps # <<>> => t0 \in Times /\ t0 < t1 /\ k >= 1 /\ stamps[k] = t0
  <2> SUFFICES ASSUME stamps # <<>> PROVE t0 \in Times /\ t0 < t1 /\ k >= 1 /\ stamps[k] = t0
    OBVIOUS
  <2>1. k # 0
    BY <1>1, EmptySeq
  <2>2. k >= 1 /\ k \in DOMAIN stamps
    BY <1>1, <2>1
  <2>3. stamps[k] \in Times /\ stamps[k] = t0
    BY <1>1, <2>2 DEF Last
  <2>4. \A i \in DOMAIN stamps : stamps[i] < t1
    BY <1>1, BeforeLast
  <2> QED BY <2>2, <2>3, <2>4
<1>3. /\ OneAtATime(Gyro) /\ ToSet(samples) \subseteq Gyro /\ TimesIncrease(samples)
      /\ ToSet(samples) = {s \in Gyro : newest - s.t <= GYRO_KEEP}
      /\ \A s \in Gyro : s.imu = gyro_label_ /\ s \in Readings
      /\ request.bias \in {"", gyro_label_}
  BY <1>1, GyroIs DEF GyroInv, OneAtATime
<1>4. R \in Seq(Readings)
  <2>1. OneAtATime(ToSet(samples))
    BY <1>3 DEF OneAtATime
  <2>2. stamps # <<>> => integrate_gyro(samples, t0, t1) \in Seq(Readings)
    BY <1>1, <1>2, <1>3, <2>1, IntegrateIs
  <2>3. <<>> \in Seq(Readings)
    BY EmptySeq
  <2> QED BY <2>2, <2>3
<1>5. new = IF R = <<>> THEN NoRotation ELSE [R |-> R, bias |-> request.bias]
  BY DEF RotationTo
<1>6. /\ stamps' = Append(stamps, t1) /\ rotation' = Append(rotation, new)
      /\ Gyro' = Gyro
  <2>1. HeardImu(GyroImus)' = HeardImu(GyroImus)
    BY HeardSame
  <2> QED BY <2>1 DEF Insert, Gyro
<1> HIDE DEF k, t0, t1, samples, newest, R, new
<1>7. new \in Rotations
  <2>1. NoRotation \in Rotations
    BY EmptySeq DEF NoRotation, Labels
  <2> QED BY <1>1, <1>4, <1>5, <2>1
<1>8. new # NoRotation <=> R # <<>>
  BY <1>5 DEF NoRotation
<1>9. R # <<>> => new.R = R /\ new.bias = request.bias
  BY <1>5
<1>10. ASSUME stamps # <<>>, \A s \in Gyro : s.t - t0 <= GYRO_KEEP
       PROVE  /\ new # NoRotation =>
                   /\ Covers(Gyro, t0, t1)
                   /\ new.R = [u \in 1..(t1 - t0) |-> HoldsAt(Gyro, t0 + u)]
                   /\ new.bias \in {""} \cup {s.imu : s \in Gyro}
              /\ Covers(Gyro, t0, t1) /\ StartsSoon(Gyro, t0) => new # NoRotation
  <2>1. newest \in Nat /\ (newest = 0 \/ \E s \in Gyro : newest = s.t)
    <3>1. /\ newest \in Nat
          /\ samples = <<>> => newest = 0
          /\ samples # <<>> => /\ newest = samples[Len(samples)].t
                               /\ Len(samples) \in 1..Len(samples)
      BY <1>1, NewestIs DEF newest
    <3>2. DOMAIN samples = 1..Len(samples)
      BY <1>1
    <3>3. samples # <<>> => samples[Len(samples)] \in Gyro
      BY <1>3, <3>1, <3>2 DEF ToSet
    <3> QED BY <3>1, <3>3
  <2>2. t0 \in Nat /\ GYRO_KEEP \in Nat /\ \A s \in Gyro : s.t \in Nat
    BY <1>2, <1>3, <1>10, ConstantTypes
  <2>3. newest - t0 <= GYRO_KEEP
    BY <1>10, <2>1, <2>2
  <2>4. ASSUME NEW s \in Gyro, s.t > t0 PROVE s \in ToSet(samples)
    <3>1. s.t \in Nat
      BY <2>2
    <3>2. newest - s.t <= GYRO_KEEP
      BY <2>1, <2>2, <2>3, <2>4, <3>1
    <3> QED BY <1>3, <3>2
  <2>5. /\ R # <<>> => /\ Covers(Gyro, t0, t1)
                       /\ R = [u \in 1..(t1 - t0) |-> HoldsAt(Gyro, t0 + u)]
        /\ Covers(Gyro, t0, t1) /\ StartsSoon(Gyro, t0) => R # <<>>
    <3>1. R = integrate_gyro(samples, t0, t1)
      BY <1>10 DEF R
    <3>2. samples \in Seq(Readings) /\ t0 \in Times /\ t1 \in Times /\ t0 < t1
      BY <1>1, <1>2, <1>10
    <3>3. /\ TimesIncrease(samples) /\ OneAtATime(Gyro) /\ ToSet(samples) \subseteq Gyro
          /\ \A s \in Gyro : s.t > t0 => s \in ToSet(samples)
      BY <1>3, <2>4
    <3> DEFINE readings == Gyro
    <3> HIDE DEF readings
    <3>4. /\ TimesIncrease(samples) /\ OneAtATime(readings) /\ ToSet(samples) \subseteq readings
          /\ \A s \in readings : s.t > t0 => s \in ToSet(samples)
      BY <3>3 DEF readings
    <3>5. LET Q == integrate_gyro(samples, t0, t1)
          IN  /\ Q # <<>> => /\ Covers(readings, t0, t1)
                             /\ Q = [u \in 1..(t1 - t0) |-> HoldsAt(readings, t0 + u)]
              /\ Covers(readings, t0, t1) /\ StartsSoon(readings, t0) => Q # <<>>
      BY <3>2, <3>4, IntegrateIs
    <3> QED BY <3>1, <3>5 DEF readings
  <2>6. Covers(Gyro, t0, t1) => Gyro # {}
    BY DEF Covers
  <2>7. R # <<>> => request.bias \in {""} \cup {s.imu : s \in Gyro}
    BY <1>3, <2>5, <2>6
  <2> QED BY <1>8, <1>9, <2>5, <2>7
<1>11. /\ Len(stamps') = k + 1 /\ stamps'[k + 1] = t1
       /\ k >= 1 => stamps'[k] = stamps[k]
       /\ rotation' \in Seq(Rotations) /\ Len(rotation') = k + 1 /\ rotation'[k + 1] = new
  <2>1. /\ Len(Append(stamps, t1)) = k + 1 /\ Append(stamps, t1)[k + 1] = t1
        /\ k >= 1 => Append(stamps, t1)[k] = stamps[k]
    BY <1>1, AppendProperties DEF k
  <2> HIDE DEF Rotations
  <2>2. /\ Append(rotation, new) \in Seq(Rotations) /\ Len(Append(rotation, new)) = k + 1
        /\ Append(rotation, new)[k + 1] = new
    BY <1>1, <1>7, AppendProperties
  <2> QED BY <1>6, <2>1, <2>2
<1>12. ASSUME k + 1 >= 2 PROVE stamps # <<>> /\ stamps'[k] = t0
  <2>1. k >= 1
    BY <1>1, <1>12
  <2>2. stamps # <<>>
    BY <1>1, <2>1, EmptySeq DEF k
  <2> QED BY <1>2, <1>11, <2>1, <2>2
<1>13. (k + 1) - 1 = k
  BY <1>1
<1>14. NewestRotation'
  <2> HIDE DEF Rotations
  <2> QED BY <1>6, <1>10, <1>11, <1>12, <1>13 DEF NewestRotation
<1> QED BY <1>11, <1>14

-----------------------------------------------------------------------------
(***************************************************************************)
(* The steps.                                                              *)
(***************************************************************************)
LEMMA InitInv ==
  ASSUME Init
  PROVE  IInv
<1>1. TypeInv
  <2>1. <<>> \in Seq(Times) /\ <<>> \in Seq([R : Seq(Readings), bias : Labels])
        /\ <<>> \in Seq(Seq(Readings)) /\ <<>> \in Seq(Readings) /\ <<>> \in Seq({})
    BY EmptySeq
  <2>2. Sorted(<<>>) /\ DOMAIN <<>> = {} /\ Len(<<>>) = 0
    BY DEF Sorted
  <2> QED BY <2>1, <2>2 DEF Init, TypeInv, Labels
<1>7. DOMAIN <<>> = {} /\ Len(<<>>) = 0 /\ ToSet(<<>>) = {} /\ TimesIncrease(<<>>)
  BY DEF ToSet, TimesIncrease
<1>2. /\ received \in Seq(Readings) /\ Len(received) = 0 /\ DOMAIN received = {}
      /\ stamps = <<>> /\ DOMAIN stamps = {}
  <2>1. received = <<>> /\ stamps = <<>> /\ <<>> \in Seq(Readings)
    BY EmptySeq DEF Init
  <2> QED BY <1>7, <2>1
<1>3. HeardImu(GyroImus) = "" /\ HeardImu(GravityImus) = ""
  <2>1. ASSUME NEW imus \in SUBSET Imus PROVE HeardImu(imus) = ""
    <3>1. 1..Len(received) = {}
      BY <1>2
    <3> QED BY <1>2, <3>1, FirstHeard
  <2> QED BY <2>1 DEF Imus
<1>4. Heard(GravityImus) = <<>>
  BY KeptNone DEF Init, Heard
<1>5. GravityInv
  <2>1. Newest(Heard(GravityImus)) = Newest(imu_samples_) /\ imu_samples_ = <<>>
    BY <1>4 DEF Init
  <2>2. QueueInv
    BY <1>4, <2>1 DEF QueueInv
  <2>3. Pending = {}
    BY <1>7 DEF Init, Pending
  <2>4. GravityComplete /\ GravityWaits
    BY <1>2, <2>3 DEF GravityComplete, GravityWaits
  <2> QED BY <1>3, <2>2, <2>4 DEF GravityInv, Init
<1>6. GyroInv
  <2>1. Gyro = {}
    BY <1>2, GyroIs
  <2>2. TimesIncrease(gyro_samples_) /\ ToSet(gyro_samples_) = {}
    BY <1>7 DEF Init
  <2>3. request.bias = ""
    BY DEF Init, NoRequest
  <2> QED BY <1>2, <1>3, <2>1, <2>2, <2>3 DEF GyroInv, Init
<1> QED BY <1>1, <1>5, <1>6 DEF IInv

LEMMA StutterInv ==
  ASSUME IInv, UNCHANGED vars
  PROVE  IInv'
<1>1. /\ UNCHANGED <<stamps, rotation, gravity, gyro_label_, gyro_samples_, gravity_label_,
                     imu_samples_, pending_gravity_, request, received>>
  BY DEF vars, gyroVars, gravityVars
<1>2. TypeInv'
  BY <1>1 DEF IInv, TypeInv, Sorted
<1>3. /\ HeardImu(GyroImus)' = HeardImu(GyroImus)
      /\ HeardImu(GravityImus)' = HeardImu(GravityImus)
      /\ Heard(GravityImus)' = Heard(GravityImus)
  BY <1>1, HeardSame
<1>4. GravityInv'
  <2>1. gravity_label_' = HeardImu(GravityImus)'
    BY <1>1, <1>3 DEF IInv, GravityInv
  <2> QED BY <1>1, <1>3, <2>1, GravityStays DEF IInv
<1>5. GyroInv'
  <2>1. Gyro' = Gyro
    BY <1>1, <1>3 DEF Gyro
  <2> QED BY <1>1, <1>3, <2>1 DEF IInv, GyroInv, TimesIncrease, ToSet, Newest
<1> QED BY <1>2, <1>4, <1>5 DEF IInv

LEMMA QueryBiasInv ==
  ASSUME IInv, NEW t \in Times, QueryBias(t)
  PROVE  IInv'
<1>1. /\ UNCHANGED <<stamps, rotation, gravity, gyro_label_, gyro_samples_, gravity_label_,
                     imu_samples_, pending_gravity_, received>>
      /\ request' \in [t : Times, bias : {"", gyro_label_}]
  <2>1. UNCHANGED <<stamps, rotation, gravity, gyro_label_, gyro_samples_, gravity_label_,
                    imu_samples_, pending_gravity_, received>>
    BY DEF QueryBias, gyroVars, gravityVars
  <2>2. PICK b \in {"", gyro_label_} : request' = [t |-> t, bias |-> b]
    BY DEF QueryBias
  <2>3. [t |-> t, bias |-> b] \in [t : Times, bias : {"", gyro_label_}]
    OBVIOUS
  <2>4. request' \in [t : Times, bias : {"", gyro_label_}]
    BY <2>2, <2>3
  <2> QED BY <2>1, <2>4
<1>2. {"", gyro_label_} \subseteq Labels
  BY DEF IInv, TypeInv, Labels
<1>3. TypeInv'
  BY <1>1, <1>2 DEF IInv, TypeInv, Sorted
<1>4. /\ HeardImu(GyroImus)' = HeardImu(GyroImus)
      /\ HeardImu(GravityImus)' = HeardImu(GravityImus)
      /\ Heard(GravityImus)' = Heard(GravityImus)
  BY <1>1, HeardSame
<1>5. GravityInv'
  <2>1. gravity_label_' = HeardImu(GravityImus)'
    BY <1>1, <1>4 DEF IInv, GravityInv
  <2> QED BY <1>1, <1>4, <2>1, GravityStays DEF IInv
<1>6. GyroInv'
  <2>1. Gyro' = Gyro
    BY <1>1, <1>4 DEF Gyro
  <2>2. request'.bias \in {"", gyro_label_}
    BY <1>1
  <2> QED BY <1>1, <1>4, <2>1, <2>2 DEF IInv, GyroInv, TimesIncrease, ToSet, Newest
<1> QED BY <1>3, <1>5, <1>6 DEF IInv

LEMMA OnImuInv ==
  ASSUME IInv, NEW r \in Readings, OnImu(r)
  PROVE  IInv'
<1>1. /\ received' = Append(received, r) /\ received \in Seq(Readings)
      /\ UNCHANGED <<stamps, rotation, request>>
      /\ IF r.imu \in GyroImus THEN add_gyro_sample(r) ELSE UNCHANGED gyroVars
      /\ IF r.imu \in GravityImus THEN add_gravity_sample(r)
         ELSE UNCHANGED <<gravity, gravity_label_, imu_samples_, pending_gravity_>>
  BY DEF OnImu, gravityVars, IInv, TypeInv
<1>2. GyroInv' /\ gyro_label_' \in Labels /\ gyro_samples_' \in Seq(Readings)
  BY <1>1, GyroReading DEF IInv
<1>3. received' \in Seq(Readings)
  BY <1>1, AppendProperties
<1>4. GravityImus \in SUBSET Imus
  BY DEF Imus
<1>5. /\ HeardImu(GravityImus)' = IF r.imu \in GravityImus
                                  THEN Latched(HeardImu(GravityImus), r.imu)
                                  ELSE HeardImu(GravityImus)
      /\ Heard(GravityImus)' = IF r.imu \in GravityImus /\ r.imu = HeardImu(GravityImus)'
                               THEN Append(Heard(GravityImus), r) ELSE Heard(GravityImus)
  BY <1>1, <1>4, HeardNext
<1>6. /\ gravity_label_ = HeardImu(GravityImus) /\ gravity_label_ \in Labels
      /\ r.imu \in Labels
  BY ConstantTypes DEF IInv, GravityInv, TypeInv, Labels
<1>7. gravity_label_' = HeardImu(GravityImus)' /\ gravity_label_' \in Labels
  <2>1. gravity_label_' = HeardImu(GravityImus)'
    BY <1>1, <1>5, <1>6 DEF add_gravity_sample
  <2>2. HeardImu(GravityImus)' \in {gravity_label_, r.imu}
    BY <1>5, <1>6 DEF Latched
  <2> QED BY <1>6, <2>1, <2>2
<1>8. /\ GravityInv'
      /\ gravity' \in Seq(Seq(Readings)) /\ Len(gravity') = Len(stamps)
      /\ imu_samples_' \in Seq(Readings)
      /\ pending_gravity_' \in Seq(DOMAIN stamps) /\ Sorted(pending_gravity_')
  <2>1. CASE r.imu \in GravityImus /\ r.imu = gravity_label_'
    <3>1. QueueGravity(r) /\ Heard(GravityImus)' = Append(Heard(GravityImus), r)
      BY <1>1, <1>5, <1>7, <2>1 DEF add_gravity_sample
    <3> QED BY <1>1, <1>7, <2>1, <3>1, QueueGravityInv DEF IInv
  <2>2. CASE ~ (r.imu \in GravityImus /\ r.imu = gravity_label_')
    <3>1. UNCHANGED <<gravity, imu_samples_, pending_gravity_>>
          /\ Heard(GravityImus)' = Heard(GravityImus)
      BY <1>1, <1>5, <1>7, <2>2 DEF add_gravity_sample
    <3>2. GravityInv'
      BY <1>1, <1>7, <3>1, GravityStays DEF IInv
    <3> QED BY <3>1, <3>2 DEF IInv, TypeInv
  <2> QED BY <2>1, <2>2
<1>9. TypeInv'
  BY <1>1, <1>2, <1>3, <1>7, <1>8 DEF IInv, TypeInv, Sorted
<1> QED BY <1>2, <1>8, <1>9 DEF IInv

LEMMA InsertKeyframeInv ==
  ASSUME IInv, InsertKeyframe
  PROVE  IInv' /\ (stamps' # stamps => NewestRotation')
<1>1. /\ request \in [t : Times, bias : Labels]
      /\ \A r \in ToSet(received) : request.t >= r.t - FrontEndLag
      /\ request' = NoRequest
      /\ UNCHANGED <<gyro_label_, gyro_samples_, gravity_label_, imu_samples_, received>>
  BY DEF InsertKeyframe, gyroVars, IInv, TypeInv
<1>2. /\ HeardImu(GyroImus)' = HeardImu(GyroImus)
      /\ HeardImu(GravityImus)' = HeardImu(GravityImus)
      /\ Heard(GravityImus)' = Heard(GravityImus)
  BY <1>1, HeardSame
<1>3. GyroInv'
  <2>1. Gyro' = Gyro
    BY <1>1, <1>2 DEF Gyro
  <2>2. request'.bias = ""
    BY <1>1 DEF NoRequest
  <2> QED BY <1>1, <1>2, <2>1, <2>2 DEF IInv, GyroInv, TimesIncrease, ToSet, Newest
<1>4. CASE IsOlder(request.t)
  <2>1. UNCHANGED <<stamps, rotation, gravity, pending_gravity_>>
    BY <1>4 DEF InsertKeyframe
  <2>2. gravity_label_' = HeardImu(GravityImus)'
    BY <1>1, <1>2 DEF IInv, GravityInv
  <2>3. GravityInv'
    BY <1>1, <1>2, <2>1, <2>2, GravityStays DEF IInv
  <2>4. TypeInv'
    BY <1>1, <2>1 DEF IInv, TypeInv, Sorted
  <2> QED BY <1>3, <2>1, <2>3, <2>4 DEF IInv
<1>5. CASE ~IsOlder(request.t)
  <2>1. Insert(request.t, request.bias)
    BY <1>5 DEF InsertKeyframe
  <2>2. /\ GravityInv'
        /\ stamps' \in Seq(Times) /\ Sorted(stamps')
        /\ gravity' \in Seq(Seq(Readings)) /\ Len(gravity') = Len(stamps')
        /\ pending_gravity_' \in Seq(DOMAIN stamps') /\ Sorted(pending_gravity_')
    BY <1>1, <1>5, <2>1, InsertGravityInv DEF IInv
  <2>3. /\ rotation' \in Seq([R : Seq(Readings), bias : Labels])
        /\ Len(rotation') = Len(stamps')
        /\ NewestRotation'
    BY <1>1, <1>5, <2>1, InsertRotation DEF IInv
  <2>4. TypeInv'
    BY <1>1, <2>2, <2>3 DEF IInv, TypeInv, Sorted
  <2> QED BY <1>3, <2>2, <2>3, <2>4 DEF IInv
<1> QED BY <1>4, <1>5

LEMMA NextInv ==
  ASSUME IInv, [Next]_vars
  PROVE  IInv' /\ (stamps' # stamps => NewestRotation')
<1>1. ASSUME NEW r \in Readings, OnImu(r) PROVE IInv' /\ stamps' = stamps
  BY <1>1, OnImuInv DEF OnImu
<1>2. ASSUME NEW t \in Times, QueryBias(t) PROVE IInv' /\ stamps' = stamps
  BY <1>2, QueryBiasInv DEF QueryBias
<1>3. ASSUME UNCHANGED vars PROVE IInv' /\ stamps' = stamps
  BY <1>3, StutterInv DEF vars
<1> QED BY <1>1, <1>2, <1>3, InsertKeyframeInv DEF Next

-----------------------------------------------------------------------------
(***************************************************************************)
(* The theorems.                                                           *)
(***************************************************************************)
(* Keyframes are in the order of their stamps, each has its rotation and    *)
(* its gravity, and the queues are what is left of what was heard of the    *)
(* first IMU of either kind, in every reachable state: whatever add_gyro_   *)
(* sample_locked(), add_gravity_sample_locked() and the insertion of a      *)
(* keyframe do to them, in any order (Mapper.cpp:253-305, 485-532,          *)
(* 599-622).                                                                *)
THEOREM Invariant == Spec => []IInv
<1>1. Init => IInv
  BY InitInv
<1>2. IInv /\ [Next]_vars => IInv'
  BY NextInv
<1> QED BY <1>1, <1>2, PTL DEF Spec

(* Gravity is complete: a keyframe that waits no more averages, in order,   *)
(* what came of its window until it was tried last, or its window has too   *)
(* few readings, of those that come later too.                              *)
THEOREM CompleteGravity == Spec => []GravityComplete
<1>1. IInv => GravityComplete
  BY DEF IInv, GravityInv
<1> QED BY <1>1, Invariant, PTL

(* The keyframes that wait for gravity are the ones without it that the     *)
(* readings have not passed: none is forgotten by the retry at each reading *)
(* (Mapper.cpp:294-298), and none waits for ever.                           *)
THEOREM WaitingForGravity == Spec => []GravityWaits
<1>1. IInv => GravityWaits
  BY DEF IInv, GravityInv
<1> QED BY <1>1, Invariant, PTL

(* A keyframe is given the rotation that the readings make, if and only if  *)
(* they cover the time since the previous keyframe: integrate_gyro() and    *)
(* its queue, which is pruned and refuses readings out of order, lose none  *)
(* of those that the interval needs.                                        *)
THEOREM RotationOfReadings == Spec => RotationFromReadings
<1>1. IInv /\ [Next]_vars => [stamps' # stamps => NewestRotation']_vars
  BY NextInv
<1> QED BY <1>1, Invariant, PTL DEF Spec, RotationFromReadings
=============================================================================

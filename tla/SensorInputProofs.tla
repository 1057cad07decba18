-------------------------- MODULE SensorInputProofs --------------------------
(***************************************************************************)
(* The readings end up with the right keyframes, for every value of the    *)
(* constants of SensorInput and however many keyframes and readings come.  *)
(***************************************************************************)
EXTENDS SensorInput, Induction, SequenceTheorems

-----------------------------------------------------------------------------
(***************************************************************************)
(* attach_nearest_locked(): one reading.                                   *)
(***************************************************************************)
Row == [Slots -> Times \cup {None}]

Increasing(kfs) ==
  /\ kfs \in Seq(Times)
  /\ \A i, j \in DOMAIN kfs : i < j => kfs[i] < kfs[j]

(* The keyframe nearest to r over all of kfs, as in NearestOfAll.           *)
NearestIn(kfs, r) ==
  {k \in DOMAIN kfs : \A j \in DOMAIN kfs :
     \/ abs_time_diff(kfs[k], r.t) < abs_time_diff(kfs[j], r.t)
     \/ abs_time_diff(kfs[k], r.t) = abs_time_diff(kfs[j], r.t) /\ k <= j}

IsNear(kfs, k, r) ==
  /\ ~IsPending(kfs, r.t)
  /\ k \in NearestIn(kfs, r)
  /\ abs_time_diff(kfs[k], r.t) <= MaxOffset(r.slot)

LEMMA LastOf ==
  ASSUME NEW kfs \in Seq(Times)
  PROVE  /\ kfs # <<>> => Last(kfs) = kfs[Len(kfs)] /\ Len(kfs) \in DOMAIN kfs
         /\ DOMAIN kfs = 1..Len(kfs) /\ Len(kfs) \in Nat
         /\ \A k \in DOMAIN kfs : kfs[k] \in Times /\ kfs[k] \in Int
<1>1. Times \subseteq Int
  BY TimesAssumption DEF Times
<1>2. DOMAIN kfs = 1..Len(kfs) /\ Len(kfs) \in Nat /\ \A k \in DOMAIN kfs : kfs[k] \in Times
  OBVIOUS
<1>3. ASSUME kfs # <<>> PROVE Len(kfs) # 0
  BY <1>3, EmptySeq
<1>4. kfs # <<>> => Len(kfs) \in DOMAIN kfs
  BY <1>2, <1>3
<1>5. Last(kfs) = kfs[Len(kfs)]
  BY DEF Last
<1> QED BY <1>1, <1>2, <1>4, <1>5

(* The two keyframes around a time are those before and at or after it.     *)
LEMMA NeighborsAround ==
  ASSUME NEW kfs, Increasing(kfs), NEW t \in Times, ~IsPending(kfs, t)
  PROVE  \E a \in DOMAIN kfs :
           /\ kfs[a] >= t
           /\ \A j \in 1..(a - 1) : kfs[j] < t
           /\ Neighbors(kfs, t) = {a - 1, a} \cap DOMAIN kfs
<1> DEFINE IsAfter(k) == kfs[k] >= t /\ \A j \in 1..(k - 1) : kfs[j] < t
           S == {n \in Nat : \A j \in 1..n : kfs[j] < t}
<1>1. kfs \in Seq(Times)
  BY DEF Increasing
<1>2. kfs # <<>> /\ kfs[Len(kfs)] >= t /\ Len(kfs) \in DOMAIN kfs
  BY <1>1, LastOf DEF IsPending, Times
<1>3. \E k \in DOMAIN kfs : IsAfter(k)
  <2> SUFFICES ASSUME \A k \in DOMAIN kfs : ~IsAfter(k) PROVE FALSE
    OBVIOUS
  <2>1. 0 \in S
    OBVIOUS
  <2>2. ASSUME NEW n \in 0..(Len(kfs) - 1), n \in S PROVE n + 1 \in S
    <3>1. n + 1 \in DOMAIN kfs
      BY <1>1, LastOf
    <3>2. kfs[n + 1] < t
      BY <1>1, <2>2, <3>1, LastOf DEF Times
    <3> QED BY <2>2, <3>2
  <2>3. Len(kfs) \in S
    <3> HIDE DEF S
    <3> QED BY <1>1, <2>1, <2>2, LastOf, UpTo
  <2> QED BY <1>1, <1>2, <2>3, LastOf DEF Times
<1>4. PICK a \in DOMAIN kfs : a = CHOOSE k \in DOMAIN kfs : IsAfter(k)
  BY <1>3
<1>5. IsAfter(a)
  BY <1>3, <1>4
<1>6. Neighbors(kfs, t) = {a - 1, a} \cap DOMAIN kfs
  BY <1>4 DEF Neighbors
<1> QED BY <1>5, <1>6

LEMMA Distances ==
  ASSUME NEW a \in Int, NEW b \in Int
  PROVE  /\ abs_time_diff(a, b) \in Nat
         /\ a >= b => abs_time_diff(a, b) = a - b
         /\ a <= b => abs_time_diff(a, b) = b - a
BY DEF abs_time_diff

LEMMA ReadingTypes ==
  ASSUME NEW r \in Readings
  PROVE  r.slot \in Slots /\ r.t \in Times /\ r.t \in Int /\ MaxOffset(r.slot) \in Nat
BY TimesAssumption DEF Readings, Times, MaxOffset

(* It is enough to look at the two neighbors.                               *)
LEMMA BestIsNear ==
  ASSUME NEW kfs, Increasing(kfs), NEW r \in Readings, ~IsPending(kfs, r.t)
  PROVE  \A k : k \in Best(kfs, r) <=> IsNear(kfs, k, r)
<1> DEFINE d(k) == abs_time_diff(kfs[k], r.t)
           Before(k, j) == d(k) < d(j) \/ (d(k) = d(j) /\ k <= j)
           close == {k \in Neighbors(kfs, r.t) : d(k) <= MaxOffset(r.slot)}
<1>1. kfs \in Seq(Times) /\ r.t \in Times
  BY ReadingTypes DEF Increasing
<1>2. PICK a \in DOMAIN kfs :
        /\ kfs[a] >= r.t
        /\ \A j \in 1..(a - 1) : kfs[j] < r.t
        /\ Neighbors(kfs, r.t) = {a - 1, a} \cap DOMAIN kfs
  BY <1>1, NeighborsAround
<1>3. DOMAIN kfs = 1..Len(kfs) /\ Len(kfs) \in Nat /\ r.t \in Int
      /\ (\A k \in DOMAIN kfs : kfs[k] \in Int) /\ MaxOffset(r.slot) \in Nat
  BY <1>1, LastOf, ReadingTypes
<1>4. \A k \in DOMAIN kfs : d(k) \in Nat
  BY <1>3, Distances
<1>5. ASSUME NEW j \in DOMAIN kfs, j > a PROVE d(a) < d(j)
  <2>1. kfs[a] < kfs[j]
    BY <1>5 DEF Increasing
  <2>2. kfs[a] >= r.t /\ kfs[j] >= r.t /\ kfs[a] \in Int /\ kfs[j] \in Int
    BY <1>2, <1>3, <2>1
  <2>3. d(a) = kfs[a] - r.t /\ d(j) = kfs[j] - r.t
    BY <1>3, <2>2, Distances
  <2> QED BY <1>3, <2>1, <2>2, <2>3
<1>6. ASSUME NEW j \in DOMAIN kfs, j < a - 1 PROVE a - 1 \in DOMAIN kfs /\ d(a - 1) < d(j)
  <2>0. a - 1 \in DOMAIN kfs /\ j \in 1..(a - 1) /\ a - 1 \in 1..(a - 1)
    BY <1>3, <1>6
  <2>1. kfs[j] < kfs[a - 1]
    BY <1>6, <2>0 DEF Increasing
  <2>2. kfs[a - 1] < r.t /\ kfs[j] < r.t
    BY <1>2, <2>0
  <2>3. kfs[a - 1] <= r.t /\ kfs[j] <= r.t /\ kfs[a - 1] \in Int /\ kfs[j] \in Int
    BY <1>3, <2>0, <2>2
  <2>4. d(a - 1) = r.t - kfs[a - 1] /\ d(j) = r.t - kfs[j]
    BY <1>3, <2>3, Distances
  <2> QED BY <1>3, <2>0, <2>1, <2>3, <2>4
<1> HIDE DEF d
<1>7. ASSUME NEW k \in DOMAIN kfs, d(k) <= MaxOffset(r.slot)
      PROVE  (k \in {a - 1, a} /\ \A j \in close : Before(k, j))
               <=> \A j \in DOMAIN kfs : Before(k, j)
  <2>1. ASSUME k \in {a - 1, a}, \A j \in close : Before(k, j), NEW j \in DOMAIN kfs
        PROVE  Before(k, j)
    <3>1. \A i \in {a - 1, a} \cap DOMAIN kfs : Before(k, i)
      <4> TAKE i \in {a - 1, a} \cap DOMAIN kfs
      <4>1. CASE d(i) <= MaxOffset(r.slot)
        BY <1>2, <2>1, <4>1
      <4>2. CASE ~(d(i) <= MaxOffset(r.slot))
        BY <1>3, <1>4, <1>7, <4>2
      <4> QED BY <4>1, <4>2
    <3>2. CASE j > a
      <4>1. d(a) < d(j) /\ Before(k, a)
        BY <1>5, <3>1, <3>2
      <4>2. d(k) \in Nat /\ d(a) \in Nat /\ d(j) \in Nat
        BY <1>4
      <4> QED BY <4>1, <4>2
    <3>3. CASE j < a - 1
      <4>1. a - 1 \in DOMAIN kfs /\ d(a - 1) < d(j)
        BY <1>6, <3>3
      <4>2. d(k) \in Nat /\ d(a - 1) \in Nat /\ d(j) \in Nat /\ Before(k, a - 1)
        BY <1>4, <3>1, <4>1
      <4> QED BY <4>1, <4>2
    <3>4. CASE j \in {a - 1, a}
      BY <3>1, <3>4
    <3> QED BY <1>3, <3>2, <3>3, <3>4
  <2>2. ASSUME \A j \in DOMAIN kfs : Before(k, j)
        PROVE  k \in {a - 1, a} /\ \A j \in close : Before(k, j)
    <3>1. ~(k > a) /\ ~(k < a - 1)
      BY <1>4, <1>5, <1>6, <2>2
    <3> QED BY <1>2, <1>3, <2>2, <3>1
  <2> QED BY <2>1, <2>2
<1>8. \A k : k \in Best(kfs, r) <=>
        /\ k \in {a - 1, a} \cap DOMAIN kfs /\ d(k) <= MaxOffset(r.slot)
        /\ \A j \in close : Before(k, j)
  BY <1>2 DEF Best, d
<1>9. \A k : IsNear(kfs, k, r) <=>
        /\ k \in DOMAIN kfs /\ d(k) <= MaxOffset(r.slot)
        /\ \A j \in DOMAIN kfs : Before(k, j)
  BY DEF IsNear, NearestIn, d
<1> QED BY <1>7, <1>8, <1>9

(* What one reading changes in the keyframes.                               *)
LEMMA AttachOne ==
  ASSUME NEW kfs, Increasing(kfs), NEW near \in [DOMAIN kfs -> Row],
         NEW r \in Readings, ~IsPending(kfs, r.t)
  PROVE  /\ Attach(kfs, near, r) \in [DOMAIN kfs -> Row]
         /\ AttachedTo(kfs, near, r) \subseteq DOMAIN kfs
         /\ \A k \in DOMAIN kfs :
              /\ k \in AttachedTo(kfs, near, r) <=>
                   IsNear(kfs, k, r) /\ IsCloser(kfs, near, k, r)
              /\ \A s \in Slots :
                   Attach(kfs, near, r)[k][s] =
                     IF s = r.slot /\ k \in AttachedTo(kfs, near, r) THEN r.t ELSE near[k][s]
<1>1. \A k : k \in AttachedTo(kfs, near, r) <=>
               IsNear(kfs, k, r) /\ IsCloser(kfs, near, k, r)
  BY BestIsNear DEF AttachedTo
<1>2. AttachedTo(kfs, near, r) \subseteq DOMAIN kfs
  BY <1>1 DEF IsNear, NearestIn
<1>3. \A k \in DOMAIN kfs : near[k] \in Row /\ [near[k] EXCEPT ![r.slot] = r.t] \in Row
  BY ReadingTypes DEF Row
<1>4. \A k \in DOMAIN kfs, s \in Slots :
        [near[k] EXCEPT ![r.slot] = r.t][s] = IF s = r.slot THEN r.t ELSE near[k][s]
  BY <1>3 DEF Row
<1>5. Attach(kfs, near, r) = [k \in DOMAIN kfs |-> IF k \in AttachedTo(kfs, near, r)
                                                   THEN [near[k] EXCEPT ![r.slot] = r.t]
                                                   ELSE near[k]]
  BY DEF Attach
<1>6. Attach(kfs, near, r) \in [DOMAIN kfs -> Row]
  BY <1>3, <1>5
<1>7. \A k \in DOMAIN kfs, s \in Slots :
        Attach(kfs, near, r)[k][s] =
          IF s = r.slot /\ k \in AttachedTo(kfs, near, r) THEN r.t ELSE near[k][s]
  BY <1>4, <1>5
<1> QED BY <1>1, <1>2, <1>6, <1>7

(* The readings of R that keyframe k could have in slot s.                  *)
Candidates(kfs, k, s, R) == {r \in R : r.slot = s /\ IsNear(kfs, k, r)}

(* k has in s the closest of C, or none if C is empty.                      *)
IsClosest(kfs, near, k, s, C) ==
  IF C = {}
  THEN near[k][s] = None
  ELSE /\ [slot |-> s, t |-> near[k][s]] \in C
       /\ \A r \in C : abs_time_diff(kfs[k], near[k][s]) <= abs_time_diff(kfs[k], r.t)

HasClosest(kfs, near, R) ==
  \A k \in DOMAIN kfs, s \in Slots :
    IsClosest(kfs, near, k, s, Candidates(kfs, k, s, R))

LEMMA AttachKeepsClosest ==
  ASSUME NEW kfs, Increasing(kfs), NEW near \in [DOMAIN kfs -> Row],
         NEW r \in Readings, ~IsPending(kfs, r.t),
         NEW R \in SUBSET Readings, HasClosest(kfs, near, R)
  PROVE  HasClosest(kfs, Attach(kfs, near, r), R \cup {r})
<1> DEFINE after == Attach(kfs, near, r)
<1> SUFFICES ASSUME NEW k \in DOMAIN kfs, NEW s \in Slots
             PROVE  IsClosest(kfs, after, k, s, Candidates(kfs, k, s, R \cup {r}))
  BY DEF HasClosest
<1> DEFINE C == Candidates(kfs, k, s, R)
           D == Candidates(kfs, k, s, R \cup {r})
           d(t) == abs_time_diff(kfs[k], t)
<1>1. IsClosest(kfs, near, k, s, C)
  BY DEF HasClosest
<1>2. kfs[k] \in Int /\ r.t \in Int /\ r.t # None
  BY LastOf, ReadingTypes DEF Increasing, Times, None
<1>3. \A o \in R : o.t \in Int /\ o.t # None
  BY ReadingTypes DEF Times, None
<1>4. d(r.t) \in Nat /\ \A o \in R : d(o.t) \in Nat
  BY <1>2, <1>3, Distances
<1>5. after[k][s] = IF s = r.slot /\ k \in AttachedTo(kfs, near, r) THEN r.t ELSE near[k][s]
  BY AttachOne
<1>6. k \in AttachedTo(kfs, near, r) <=> IsNear(kfs, k, r) /\ IsCloser(kfs, near, k, r)
  BY AttachOne
<1>7. D = C \cup (IF r.slot = s /\ IsNear(kfs, k, r) THEN {r} ELSE {})
  BY DEF Candidates
<1>8. CASE ~(r.slot = s /\ IsNear(kfs, k, r))
  <2>1. D = C /\ after[k][s] = near[k][s]
    BY <1>5, <1>6, <1>7, <1>8
  <2> QED BY <1>1, <2>1 DEF IsClosest
<1>9. CASE r.slot = s /\ IsNear(kfs, k, r)
  <2>1. D = C \cup {r} /\ D # {}
    BY <1>7, <1>9
  <2>2. r = [slot |-> s, t |-> r.t]
    BY <1>9 DEF Readings
  <2>3. C = {} => near[k][s] = None
    BY <1>1 DEF IsClosest
  <2>4. C # {} => /\ [slot |-> s, t |-> near[k][s]] \in C
                  /\ \A o \in C : d(near[k][s]) <= d(o.t)
    BY <1>1 DEF IsClosest
  <2>5. \A o \in C : o \in R
    BY DEF Candidates
  <2>6. C # {} => near[k][s] \in Int /\ near[k][s] # None /\ d(near[k][s]) \in Nat
    <3> SUFFICES ASSUME C # {} PROVE near[k][s] \in Int /\ near[k][s] # None /\ d(near[k][s]) \in Nat
      OBVIOUS
    <3> DEFINE o == [slot |-> s, t |-> near[k][s]]
    <3>1. o \in R /\ o.t = near[k][s]
      BY <2>4, <2>5
    <3> HIDE DEF o
    <3> QED BY <1>3, <1>4, <3>1
  <2>7. IsCloser(kfs, near, k, r) <=> (C # {} => d(r.t) < d(near[k][s]))
    BY <1>9, <2>3, <2>6 DEF IsCloser
  <2> HIDE DEF C, D, d, after
  <2>8. CASE IsCloser(kfs, near, k, r)
    <3>1. after[k][s] = r.t
      BY <1>5, <1>6, <1>9, <2>8
    <3>2. \A o \in C : d(r.t) <= d(o.t)
      <4> TAKE o \in C
      <4>1. d(r.t) < d(near[k][s]) /\ d(near[k][s]) <= d(o.t)
        BY <2>4, <2>7, <2>8
      <4> QED BY <1>4, <2>5, <2>6, <4>1
    <3>3. \A o \in D : d(r.t) <= d(o.t)
      BY <1>4, <2>1, <3>2
    <3> QED BY <2>1, <2>2, <3>1, <3>3 DEF IsClosest, D, d, after
  <2>9. CASE ~IsCloser(kfs, near, k, r)
    <3>1. after[k][s] = near[k][s] /\ C # {}
      BY <1>5, <1>6, <2>7, <2>9
    <3>2. \A o \in D : d(near[k][s]) <= d(o.t)
      <4> TAKE o \in D
      <4>1. CASE o = r
        BY <1>4, <2>6, <2>7, <2>9, <3>1, <4>1
      <4>2. CASE o \in C
        BY <2>4, <3>1, <4>2
      <4> QED BY <2>1, <4>1, <4>2
    <3>3. [slot |-> s, t |-> near[k][s]] \in D
      BY <2>1, <2>4, <3>1
    <3> QED BY <2>1, <3>1, <3>2, <3>3 DEF IsClosest, D, d, after
  <2> QED BY <2>8, <2>9
<1> QED BY <1>8, <1>9

-----------------------------------------------------------------------------
(***************************************************************************)
(* Readings tried one after the other.                                     *)
(***************************************************************************)
States(kfs) == [near : [DOMAIN kfs -> Row], pending : Seq(Readings),
                new : SUBSET ((DOMAIN kfs) \X Slots)]

(* No reading of `tried' is closer to k than what it has in s.              *)
NoneCloser(kfs, near, k, s, tried) ==
  /\ near[k][s] # None
  /\ \A r \in Candidates(kfs, k, s, tried) :
       ~(abs_time_diff(kfs[k], r.t) < abs_time_diff(kfs[k], near[k][s]))

(* What st has after the readings `tried', from near: the pending ones wait,*)
(* the closest ones are attached, and what has changed is in `new'.         *)
Outcome(kfs, near, tried, st) ==
  /\ ToSet(st.pending) = {r \in tried : IsPending(kfs, r.t)}
  /\ \A R \in SUBSET Readings :
       HasClosest(kfs, near, R) => HasClosest(kfs, st.near, R \cup tried)
  /\ \A k \in DOMAIN kfs, s \in Slots :
       /\ st.near[k][s] # near[k][s] => <<k, s>> \in st.new
       /\ <<k, s>> \in st.new => st.near[k][s] # None /\ \E r \in tried : r.slot = s
       /\ NoneCloser(kfs, near, k, s, tried) => st.near[k][s] = near[k][s]
       /\ near[k][s] # None => st.near[k][s] # None

LEMMA AppendToSet ==
  ASSUME NEW S, NEW q \in Seq(S), NEW x \in S
  PROVE  ToSet(Append(q, x)) = ToSet(q) \cup {x} /\ ToSet(q) \subseteq S
<1>1. DOMAIN Append(q, x) = 1..(Len(q) + 1) /\ DOMAIN q = 1..Len(q) /\ Len(q) \in Nat
  OBVIOUS
<1>2. \A i \in 1..Len(q) : Append(q, x)[i] = q[i]
  OBVIOUS
<1>3. Append(q, x)[Len(q) + 1] = x
  OBVIOUS
<1> QED BY <1>1, <1>2, <1>3 DEF ToSet

(* A reading that has to wait changes no keyframe.                          *)
LEMMA PendingKeepsClosest ==
  ASSUME NEW kfs, NEW near, NEW r, IsPending(kfs, r.t), NEW R, HasClosest(kfs, near, R)
  PROVE  HasClosest(kfs, near, R \cup {r})
<1>1. \A k, s : Candidates(kfs, k, s, R \cup {r}) = Candidates(kfs, k, s, R)
  BY DEF Candidates, IsNear
<1> QED BY <1>1 DEF HasClosest

LEMMA TryOneTyped ==
  ASSUME NEW kfs, Increasing(kfs), NEW st \in States(kfs), NEW r \in Readings
  PROVE  TryOne(kfs, st, r) \in States(kfs)
<1> DEFINE att == AttachedTo(kfs, st.near, r)
<1>1. /\ st.near \in [DOMAIN kfs -> Row] /\ st.pending \in Seq(Readings)
      /\ st.new \in SUBSET ((DOMAIN kfs) \X Slots)
  BY DEF States
<1>2. CASE IsPending(kfs, r.t)
  <2>1. Append(st.pending, r) \in Seq(Readings)
    BY <1>1
  <2> QED BY <1>2, <2>1 DEF TryOne, States
<1>3. CASE ~IsPending(kfs, r.t)
  <2>1. Attach(kfs, st.near, r) \in [DOMAIN kfs -> Row] /\ att \subseteq DOMAIN kfs
    BY <1>1, <1>3, AttachOne
  <2>2. TryOne(kfs, st, r) = [st EXCEPT !.near = Attach(kfs, st.near, r),
                                        !.new = st.new \cup {<<k, r.slot>> : k \in att}]
    BY <1>3 DEF TryOne
  <2> HIDE DEF att
  <2>3. st.new \cup {<<k, r.slot>> : k \in att} \in SUBSET ((DOMAIN kfs) \X Slots)
    BY <1>1, <2>1, ReadingTypes
  <2> QED BY <1>1, <2>1, <2>2, <2>3 DEF States
<1> QED BY <1>2, <1>3

LEMMA TryOneOutcome ==
  ASSUME NEW kfs, Increasing(kfs), NEW near \in [DOMAIN kfs -> Row],
         NEW tried \in SUBSET Readings, NEW st \in States(kfs),
         Outcome(kfs, near, tried, st), NEW r \in Readings
  PROVE  /\ TryOne(kfs, st, r) \in States(kfs)
         /\ Outcome(kfs, near, tried \cup {r}, TryOne(kfs, st, r))
<1> DEFINE after == TryOne(kfs, st, r)
           all == tried \cup {r}
<1>1. /\ st.near \in [DOMAIN kfs -> Row] /\ st.pending \in Seq(Readings)
      /\ st.new \in SUBSET ((DOMAIN kfs) \X Slots)
  BY DEF States
<1>2. CASE IsPending(kfs, r.t)
  <2>1. after = [st EXCEPT !.pending = Append(st.pending, r)]
    BY <1>2 DEF TryOne
  <2>2. after.near = st.near /\ after.new = st.new /\ after.pending = Append(st.pending, r)
        /\ after \in States(kfs)
    <3>1. Append(st.pending, r) \in Seq(Readings)
      BY <1>1
    <3> QED BY <2>1, <3>1 DEF States
  <2> HIDE DEF after
  <2>3. ToSet(after.pending) = {o \in all : IsPending(kfs, o.t)}
    <3>1. ToSet(after.pending) = ToSet(st.pending) \cup {r}
      BY <1>1, <2>2, AppendToSet
    <3> QED BY <1>2, <3>1 DEF Outcome
  <2>4. ASSUME NEW R \in SUBSET Readings, HasClosest(kfs, near, R)
        PROVE  HasClosest(kfs, after.near, R \cup all)
    <3>1. HasClosest(kfs, after.near, R \cup tried)
      BY <2>2, <2>4 DEF Outcome
    <3>2. (R \cup tried) \cup {r} = R \cup all
      OBVIOUS
    <3> QED BY <1>2, <3>1, <3>2, PendingKeepsClosest
  <2>5. \A k, s : NoneCloser(kfs, near, k, s, all) => NoneCloser(kfs, near, k, s, tried)
    BY DEF NoneCloser, Candidates
  <2>6. ASSUME NEW k \in DOMAIN kfs, NEW s \in Slots
        PROVE  /\ after.near[k][s] # near[k][s] => <<k, s>> \in after.new
               /\ <<k, s>> \in after.new =>
                    after.near[k][s] # None /\ \E o \in all : o.slot = s
               /\ NoneCloser(kfs, near, k, s, all) => after.near[k][s] = near[k][s]
               /\ near[k][s] # None => after.near[k][s] # None
    <3>1. /\ st.near[k][s] # near[k][s] => <<k, s>> \in st.new
          /\ <<k, s>> \in st.new => st.near[k][s] # None /\ \E o \in tried : o.slot = s
          /\ NoneCloser(kfs, near, k, s, tried) => st.near[k][s] = near[k][s]
          /\ near[k][s] # None => st.near[k][s] # None
      BY DEF Outcome
    <3> QED BY <2>2, <2>5, <3>1
  <2>7. Outcome(kfs, near, all, after)
    BY <2>3, <2>4, <2>6 DEF Outcome
  <2> QED BY <2>2, <2>7 DEF after
<1>3. CASE ~IsPending(kfs, r.t)
  <2> DEFINE att == AttachedTo(kfs, st.near, r)
  <2>1. after = [st EXCEPT !.near = Attach(kfs, st.near, r),
                           !.new = st.new \cup {<<k, r.slot>> : k \in att}]
    BY <1>3 DEF TryOne
  <2>2. Attach(kfs, st.near, r) \in [DOMAIN kfs -> Row] /\ att \subseteq DOMAIN kfs
    BY <1>1, <1>3, AttachOne
  <2>3. /\ after.near = Attach(kfs, st.near, r) /\ after.pending = st.pending
        /\ after.new = st.new \cup {<<k, r.slot>> : k \in att}
        /\ after \in States(kfs)
    <3> HIDE DEF att, after
    <3>0. r.slot \in Slots /\ att \subseteq DOMAIN kfs
      BY <2>2, ReadingTypes
    <3>1. {<<k, r.slot>> : k \in att} \subseteq (DOMAIN kfs) \X Slots
      BY <3>0
    <3> QED BY <1>1, <2>1, <2>2, <3>1 DEF States
  <2>4. \A k \in DOMAIN kfs, s \in Slots :
          /\ after.near[k][s] = IF s = r.slot /\ k \in att THEN r.t ELSE st.near[k][s]
          /\ k \in att <=> IsNear(kfs, k, r) /\ IsCloser(kfs, st.near, k, r)
    BY <1>1, <1>3, <2>3, AttachOne
  <2> HIDE DEF after, att
  <2>5. ToSet(after.pending) = {o \in all : IsPending(kfs, o.t)}
    BY <1>3, <2>3 DEF Outcome
  <2>6. ASSUME NEW R \in SUBSET Readings, HasClosest(kfs, near, R)
        PROVE  HasClosest(kfs, after.near, R \cup all)
    <3>1. HasClosest(kfs, st.near, R \cup tried) /\ R \cup tried \in SUBSET Readings
      BY <2>6 DEF Outcome
    <3>2. (R \cup tried) \cup {r} = R \cup all
      OBVIOUS
    <3>3. HasClosest(kfs, Attach(kfs, st.near, r), (R \cup tried) \cup {r})
      BY <1>1, <1>3, <3>1, AttachKeepsClosest
    <3> QED BY <2>3, <3>2, <3>3
  <2>7. ASSUME NEW k \in DOMAIN kfs, NEW s \in Slots
        PROVE  /\ after.near[k][s] # near[k][s] => <<k, s>> \in after.new
               /\ <<k, s>> \in after.new =>
                    after.near[k][s] # None /\ \E o \in all : o.slot = s
               /\ NoneCloser(kfs, near, k, s, all) => after.near[k][s] = near[k][s]
               /\ near[k][s] # None => after.near[k][s] # None
    <3>1. /\ st.near[k][s] # near[k][s] => <<k, s>> \in st.new
          /\ <<k, s>> \in st.new => st.near[k][s] # None /\ \E o \in tried : o.slot = s
          /\ NoneCloser(kfs, near, k, s, tried) => st.near[k][s] = near[k][s]
          /\ near[k][s] # None => st.near[k][s] # None
      BY DEF Outcome
    <3>2. r.t # None
      BY ReadingTypes DEF Times, None
    <3>3. CASE s = r.slot /\ k \in att
      <4>1. after.near[k][s] = r.t /\ <<k, s>> \in after.new
        BY <2>3, <2>4, <3>3
      <4>2. ~NoneCloser(kfs, near, k, s, all)
        <5> SUFFICES ASSUME NoneCloser(kfs, near, k, s, all) PROVE FALSE
          OBVIOUS
        <5>1. NoneCloser(kfs, near, k, s, tried)
          BY DEF NoneCloser, Candidates
        <5>2. st.near[k][s] = near[k][s] /\ near[k][s] # None
          BY <3>1, <5>1 DEF NoneCloser
        <5>3. r \in Candidates(kfs, k, s, all)
          BY <2>4, <3>3 DEF Candidates
        <5>4. IsCloser(kfs, st.near, k, r)
          BY <2>4, <3>3
        <5> QED BY <3>3, <5>2, <5>3, <5>4 DEF IsCloser, NoneCloser
      <4> QED BY <3>2, <3>3, <4>1, <4>2
    <3>4. CASE ~(s = r.slot /\ k \in att)
      <4>1. after.near[k][s] = st.near[k][s]
        BY <2>4, <3>4
      <4>2. <<k, s>> \in after.new <=> <<k, s>> \in st.new
        BY <2>3, <3>4
      <4>3. NoneCloser(kfs, near, k, s, all) => NoneCloser(kfs, near, k, s, tried)
        BY DEF NoneCloser, Candidates
      <4> QED BY <3>1, <4>1, <4>2, <4>3
    <3> QED BY <3>3, <3>4
  <2>8. Outcome(kfs, near, all, after)
    BY <2>5, <2>6, <2>7 DEF Outcome
  <2> QED BY <2>3, <2>8 DEF after
<1> QED BY <1>2, <1>3

(* TryAll() goes through the readings one by one.                           *)
LEMMA TryAllSteps ==
  ASSUME NEW kfs, Increasing(kfs), NEW near \in [DOMAIN kfs -> Row],
         NEW readings \in Seq(Readings),
         \A st \in States(kfs), r \in Readings : TryOne(kfs, st, r) \in States(kfs)
  PROVE  \E st :
           /\ st[0] = [near |-> near, pending |-> <<>>, new |-> {}]
           /\ \A k \in 0..(Len(readings) - 1) :
                st[k + 1] = TryOne(kfs, st[k], readings[k + 1])
           /\ TryAll(kfs, near, readings) = st[Len(readings)]
<1> DEFINE m == Len(readings)
           base == [near |-> near, pending |-> <<>>, new |-> {}]
           IsFold(iter) ==
             iter = [s \in SUBSET (1..m) |->
                       IF s = {} THEN base
                       ELSE TryOne(kfs, iter[s \ {Max(s)}], readings[Max(s)])]
           fold == CHOOSE iter : IsFold(iter)
<1>1. m \in Nat /\ DOMAIN readings = 1..m /\ \A k \in 1..m : readings[k] \in Readings
  OBVIOUS
<1>2. base \in States(kfs)
  BY EmptySeq DEF States
<1>3. TryAll(kfs, near, readings) = fold[1..m]
  BY <1>1 DEF TryAll, FoldLeft, MapThenFoldSet
<1> HIDE DEF m, base
<1>4. IsFold(fold)
  <2> DEFINE F == [k \in 1..m |-> [st \in States(kfs) |-> TryOne(kfs, st, readings[k])]]
  <2>1. F \in [1..m -> [States(kfs) -> States(kfs)]]
    BY <1>1
  <2>2. PICK iter \in [SUBSET (1..m) -> States(kfs)] : IsFoldOf(iter, m, base, F)
    <3> HIDE DEF F, IsFold
    <3> QED BY <1>1, <1>2, <2>1, FoldExists
  <2>3. ASSUME NEW s \in SUBSET (1..m), s # {}
        PROVE  F[Max(s)][iter[s \ {Max(s)}]] =
                 TryOne(kfs, iter[s \ {Max(s)}], readings[Max(s)])
    <3>1. Max(s) \in 1..m
      BY <1>1, <2>3, MaxOfNumbers
    <3>2. iter[s \ {Max(s)}] \in States(kfs)
      OBVIOUS
    <3> QED BY <3>1, <3>2
  <2>4. IsFold(iter)
    <3> HIDE DEF F
    <3> QED BY <2>2, <2>3 DEF IsFoldOf
  <2> HIDE DEF IsFold
  <2> QED BY <2>4
<1> HIDE DEF fold
<1> DEFINE st == [k \in 0..m |-> fold[1..k]]
<1>5. st[0] = base
  <2>1. 1..0 = {} /\ 1..0 \in SUBSET (1..m)
    BY <1>1
  <2> QED BY <1>1, <1>4, <2>1
<1>6. ASSUME NEW k \in 0..(m - 1)
      PROVE  st[k + 1] = TryOne(kfs, st[k], readings[k + 1])
  <2>1. Max(1..(k + 1)) = k + 1 /\ (1..(k + 1)) \ {k + 1} = 1..k
    BY <1>1, MaxOfNumbers
  <2>2. 1 \in 1..(k + 1) /\ k \in 0..m /\ k + 1 \in 0..m /\ 1..(k + 1) \subseteq 1..m
    BY <1>1
  <2>3. fold[1..(k + 1)] = TryOne(kfs, fold[1..k], readings[k + 1])
    BY <1>4, <2>1, <2>2
  <2> QED BY <2>2, <2>3
<1>7. TryAll(kfs, near, readings) = st[m]
  BY <1>1, <1>3
<1> QED BY <1>5, <1>6, <1>7 DEF m, base

LEMMA TryAllOutcome ==
  ASSUME NEW kfs, Increasing(kfs), NEW near \in [DOMAIN kfs -> Row],
         NEW readings \in Seq(Readings)
  PROVE  /\ TryAll(kfs, near, readings) \in States(kfs)
         /\ Outcome(kfs, near, ToSet(readings), TryAll(kfs, near, readings))
<1> DEFINE base == [near |-> near, pending |-> <<>>, new |-> {}]
           tried(k) == {readings[i] : i \in 1..k}
<1>1. base \in States(kfs) /\ Outcome(kfs, near, {}, base)
  <2>1. base \in States(kfs)
    BY EmptySeq DEF States
  <2>2. ToSet(base.pending) = {}
    BY DEF ToSet
  <2>3. \A R : R \cup {} = R
    OBVIOUS
  <2> QED BY <2>1, <2>2, <2>3 DEF Outcome
<1>2. \A st \in States(kfs), r \in Readings : TryOne(kfs, st, r) \in States(kfs)
  <2> SUFFICES ASSUME NEW st \in States(kfs), NEW r \in Readings
               PROVE  TryOne(kfs, st, r) \in States(kfs)
    OBVIOUS
  <2> QED BY TryOneTyped
<1>3. PICK st :
        /\ st[0] = base
        /\ \A k \in 0..(Len(readings) - 1) : st[k + 1] = TryOne(kfs, st[k], readings[k + 1])
        /\ TryAll(kfs, near, readings) = st[Len(readings)]
  <2> HIDE DEF base
  <2> QED BY <1>2, TryAllSteps DEF base
<1> DEFINE S == {k \in 0..Len(readings) :
                   st[k] \in States(kfs) /\ Outcome(kfs, near, tried(k), st[k])}
<1>4. 0 \in S
  <2>1. tried(0) = {}
    OBVIOUS
  <2> HIDE DEF base, tried
  <2>2. st[0] \in States(kfs) /\ Outcome(kfs, near, tried(0), st[0])
    BY <1>1, <1>3, <2>1
  <2> QED BY <2>2
<1>5. ASSUME NEW k \in 0..(Len(readings) - 1), k \in S PROVE k + 1 \in S
  <2>1. tried(k) \in SUBSET Readings /\ readings[k + 1] \in Readings
        /\ tried(k + 1) = tried(k) \cup {readings[k + 1]}
    OBVIOUS
  <2>2. st[k] \in States(kfs) /\ Outcome(kfs, near, tried(k), st[k])
    BY <1>5
  <2> HIDE DEF tried, S
  <2>3. /\ TryOne(kfs, st[k], readings[k + 1]) \in States(kfs)
        /\ Outcome(kfs, near, tried(k + 1), TryOne(kfs, st[k], readings[k + 1]))
    BY <2>1, <2>2, TryOneOutcome
  <2>4. st[k + 1] \in States(kfs) /\ Outcome(kfs, near, tried(k + 1), st[k + 1])
    BY <1>3, <2>3
  <2>5. k + 1 \in 0..Len(readings)
    OBVIOUS
  <2> QED BY <2>4, <2>5 DEF S
<1>6. Len(readings) \in S
  <2> HIDE DEF S
  <2> QED BY <1>4, <1>5, UpTo
<1>7. tried(Len(readings)) = ToSet(readings)
  BY DEF ToSet
<1> QED BY <1>3, <1>6, <1>7

(* A queue of different readings stays one.                                 *)
Distinct(q) == \A i, j \in DOMAIN q : i # j => q[i] # q[j]

LEMMA AppendDistinct ==
  ASSUME NEW S, NEW q \in Seq(S), Distinct(q), NEW x \in S, x \notin ToSet(q)
  PROVE  Distinct(Append(q, x))
<1>1. DOMAIN Append(q, x) = 1..(Len(q) + 1) /\ DOMAIN q = 1..Len(q) /\ Len(q) \in Nat
  OBVIOUS
<1>2. \A i \in 1..Len(q) : Append(q, x)[i] = q[i] /\ q[i] # x
  BY DEF ToSet
<1>3. Append(q, x)[Len(q) + 1] = x
  OBVIOUS
<1>4. \A i, j \in 1..Len(q) : i # j => Append(q, x)[i] # Append(q, x)[j]
  BY <1>1, <1>2 DEF Distinct
<1>5. \A i \in 1..(Len(q) + 1) : i \in 1..Len(q) \/ i = Len(q) + 1
  BY <1>1
<1> HIDE DEF ToSet
<1> QED BY <1>1, <1>2, <1>3, <1>4, <1>5 DEF Distinct

LEMMA TryAllDistinct ==
  ASSUME NEW kfs, Increasing(kfs), NEW near \in [DOMAIN kfs -> Row],
         NEW readings \in Seq(Readings), Distinct(readings)
  PROVE  Distinct(TryAll(kfs, near, readings).pending)
<1> DEFINE base == [near |-> near, pending |-> <<>>, new |-> {}]
<1>1. base \in States(kfs) /\ base.pending = <<>>
  BY EmptySeq DEF States
<1>2. \A st \in States(kfs), r \in Readings : TryOne(kfs, st, r) \in States(kfs)
  BY TryOneTyped
<1>3. PICK st :
        /\ st[0] = base
        /\ \A k \in 0..(Len(readings) - 1) : st[k + 1] = TryOne(kfs, st[k], readings[k + 1])
        /\ TryAll(kfs, near, readings) = st[Len(readings)]
  <2> HIDE DEF base
  <2> QED BY <1>2, TryAllSteps DEF base
<1> HIDE DEF base
<1> DEFINE S == {k \in 0..Len(readings) :
                   /\ st[k] \in States(kfs) /\ Distinct(st[k].pending)
                   /\ ToSet(st[k].pending) \subseteq {readings[i] : i \in 1..k}}
<1>4. 0 \in S
  BY <1>1, <1>3 DEF Distinct, ToSet
<1>5. ASSUME NEW k \in 0..(Len(readings) - 1), k \in S PROVE k + 1 \in S
  <2> DEFINE r == readings[k + 1]
             q == st[k].pending
  <2>1. r \in Readings /\ k + 1 \in DOMAIN readings /\ k + 1 \in 0..Len(readings)
        /\ (\A i \in 1..k : i \in DOMAIN readings /\ i # k + 1)
    OBVIOUS
  <2>2. st[k] \in States(kfs) /\ Distinct(q) /\ ToSet(q) \subseteq {readings[i] : i \in 1..k}
    BY <1>5
  <2>3. q \in Seq(Readings)
    BY <2>2 DEF States
  <2>4. r \notin {readings[i] : i \in 1..k}
    BY <2>1 DEF Distinct
  <2>5. st[k + 1] = TryOne(kfs, st[k], r) /\ st[k + 1] \in States(kfs)
    BY <1>2, <1>3, <2>1, <2>2
  <2>6. {readings[i] : i \in 1..(k + 1)} = {readings[i] : i \in 1..k} \cup {r}
    OBVIOUS
  <2> HIDE DEF r, q
  <2>7. CASE IsPending(kfs, r.t)
    <3>1. st[k + 1].pending = Append(q, r)
      BY <2>2, <2>5, <2>7 DEF TryOne, States, q
    <3>2. Distinct(Append(q, r)) /\ ToSet(Append(q, r)) = ToSet(q) \cup {r}
      BY <2>1, <2>2, <2>3, <2>4, AppendDistinct, AppendToSet
    <3> QED BY <2>1, <2>2, <2>5, <2>6, <3>1, <3>2
  <2>8. CASE ~IsPending(kfs, r.t)
    <3>1. st[k + 1].pending = q
      BY <2>2, <2>5, <2>8 DEF TryOne, States, q
    <3> QED BY <2>1, <2>2, <2>5, <2>6, <3>1
  <2> QED BY <2>7, <2>8
<1>6. Len(readings) \in S
  <2> HIDE DEF S
  <2> QED BY <1>4, <1>5, UpTo
<1> QED BY <1>3, <1>6

(* Bound(): the images that are dropped, from the front of the queue.       *)
LEMMA BoundDrops ==
  ASSUME NEW images \in Seq(Readings), Distinct(images), Bound(images)
  PROVE  \E gone \in SUBSET ToSet(images) :
           /\ dropped' = dropped \cup gone
           /\ pending_images_' \in Seq(Readings) /\ Distinct(pending_images_')
           /\ ToSet(pending_images_') = ToSet(images) \ gone
           /\ \A r \in gone : images # <<>> /\ TooOld(r, Last(images))
<1> DEFINE m == Len(images)
           Goes(k) == /\ \A i \in 1..k : TooOld(images[i], Last(images))
                      /\ k = Len(images) \/ ~TooOld(images[k + 1], Last(images))
           n == NumTooOld(images)
           gone == {images[i] : i \in 1..n}
           S == {k \in Nat : \A i \in 1..k : TooOld(images[i], Last(images))}
<1>1. m \in Nat /\ DOMAIN images = 1..m
  OBVIOUS
<1>2. \E k \in 0..m : Goes(k)
  <2> SUFFICES ASSUME \A k \in 0..m : ~Goes(k) PROVE FALSE
    OBVIOUS
  <2>1. 0 \in S
    OBVIOUS
  <2>2. ASSUME NEW k \in 0..(m - 1), k \in S PROVE k + 1 \in S
    <3>1. ~Goes(k)
      <4> HIDE DEF Goes
      <4> QED BY <1>1
    <3>2. TooOld(images[k + 1], Last(images))
      BY <1>1, <2>2, <3>1
    <3> QED BY <2>2, <3>2
  <2>3. m \in S
    <3> HIDE DEF S
    <3> QED BY <1>1, <2>1, <2>2, UpTo
  <2>4. Goes(m)
    BY <2>3
  <2> HIDE DEF Goes, m
  <2>5. m \in 0..m
    BY <1>1
  <2> QED BY <2>4, <2>5
<1>3. n \in 0..m /\ Goes(n)
  BY <1>2 DEF NumTooOld
<1>4. pending_images_' = SubSeq(images, n + 1, m) /\ dropped' = dropped \cup gone
  BY DEF Bound
<1> HIDE DEF m, n
<1> DEFINE rest == SubSeq(images, n + 1, m)
<1>5. /\ rest \in Seq(Readings) /\ Len(rest) = m - n /\ DOMAIN rest = 1..(m - n)
      /\ \A i \in 1..(m - n) : rest[i] = images[n + i]
  <2>1. n + 1 \in Int /\ m \in Int /\ n \in Int /\ n <= m
        /\ \A i \in (n + 1)..m : images[i] \in Readings
    BY <1>1, <1>3
  <2>2. /\ rest \in Seq(Readings)
        /\ Len(rest) = IF n + 1 <= m THEN m - (n + 1) + 1 ELSE 0
        /\ \A i \in 1..(m - (n + 1) + 1) : rest[i] = images[(n + 1) + i - 1]
    BY <2>1, SubSeqProperties
  <2> HIDE DEF rest
  <2>3. Len(rest) = m - n /\ m - (n + 1) + 1 = m - n
    BY <2>1, <2>2
  <2>4. \A i \in 1..(m - n) : (n + 1) + i - 1 = n + i
    BY <2>1
  <2> QED BY <2>2, <2>3, <2>4
<1>6. Distinct(rest)
  <2> SUFFICES ASSUME NEW i \in 1..(m - n), NEW j \in 1..(m - n), i # j
               PROVE  rest[i] # rest[j]
    BY <1>5 DEF Distinct
  <2>1. n + i \in DOMAIN images /\ n + j \in DOMAIN images /\ n + i # n + j
    BY <1>1, <1>3
  <2> QED BY <1>5, <2>1 DEF Distinct
<1>7. ToSet(rest) = ToSet(images) \ gone
  <2>1. ASSUME NEW i \in 1..(m - n) PROVE rest[i] \in ToSet(images) \ gone
    <3>1. n + i \in DOMAIN images /\ \A j \in 1..n : j \in DOMAIN images /\ j # n + i
      BY <1>1, <1>3
    <3>2. rest[i] = images[n + i] /\ \A j \in 1..n : images[j] # images[n + i]
      BY <1>5, <3>1 DEF Distinct
    <3> QED BY <3>1, <3>2 DEF ToSet
  <2>2. ASSUME NEW i \in DOMAIN images, images[i] \notin gone PROVE images[i] \in ToSet(rest)
    <3>1. i \notin 1..n
      BY <2>2
    <3>2. i - n \in 1..(m - n) /\ n + (i - n) = i
      BY <1>1, <1>3, <3>1
    <3> QED BY <1>5, <3>2 DEF ToSet
  <2> HIDE DEF rest, gone
  <2> QED BY <1>5, <2>1, <2>2 DEF ToSet
<1>8. gone \subseteq ToSet(images) /\ \A r \in gone : images # <<>> /\ TooOld(r, Last(images))
  BY <1>1, <1>3 DEF ToSet
<1> QED BY <1>4, <1>5, <1>6, <1>7, <1>8

-----------------------------------------------------------------------------
(***************************************************************************)
(* A new keyframe, and readings that are dropped, leave the closest ones.  *)
(***************************************************************************)
LEMMA AppendedStamps ==
  ASSUME NEW kfs, Increasing(kfs), NEW t \in Times, kfs = <<>> \/ Last(kfs) < t
  PROVE  /\ Increasing(Append(kfs, t))
         /\ Append(kfs, t) \in Seq(Times) /\ DOMAIN Append(kfs, t) = 1..(Len(kfs) + 1)
         /\ DOMAIN kfs = 1..Len(kfs) /\ Len(kfs) \in Nat
         /\ \A k \in DOMAIN kfs : Append(kfs, t)[k] = kfs[k] /\ kfs[k] < t /\ kfs[k] \in Int
         /\ Append(kfs, t)[Len(kfs) + 1] = t /\ t \in Int /\ Last(Append(kfs, t)) = t
<1> DEFINE new == Append(kfs, t)
           n == Len(kfs)
<1>1. kfs \in Seq(Times) /\ t \in Int
  BY TimesAssumption DEF Increasing, Times
<1>2. DOMAIN kfs = 1..n /\ n \in Nat /\ \A k \in DOMAIN kfs : kfs[k] \in Int
  BY <1>1, LastOf
<1>3. new \in Seq(Times) /\ DOMAIN new = 1..(n + 1) /\ Len(new) = n + 1
  BY <1>1
<1>4. new[n + 1] = t /\ \A k \in 1..n : new[k] = kfs[k]
  BY <1>1
<1>5. ASSUME NEW k \in 1..n PROVE kfs[k] < t
  <2>1. Last(kfs) = kfs[n] /\ kfs # <<>> /\ n \in 1..n
    BY <1>1, <1>2, LastOf
  <2> HIDE DEF n
  <2>2. kfs[n] < t /\ k \in DOMAIN kfs /\ n \in DOMAIN kfs /\ (k = n \/ k < n)
    BY <1>2, <2>1
  <2>3. k = n \/ kfs[k] < kfs[n]
    BY <2>2 DEF Increasing
  <2>4. kfs[k] \in Int /\ kfs[n] \in Int
    BY <1>2, <2>2
  <2> QED BY <1>1, <2>2, <2>3, <2>4
<1>6. Last(new) = t
  BY <1>3, <1>4 DEF Last
<1> HIDE DEF new, n
<1>7. ASSUME NEW i \in 1..(n + 1), NEW j \in 1..(n + 1), i < j PROVE new[i] < new[j]
  <2>1. i \in 1..n
    BY <1>2, <1>7
  <2>2. CASE j = n + 1
    BY <1>4, <1>5, <2>1, <2>2
  <2>3. CASE j # n + 1
    <3>1. j \in 1..n
      BY <1>2, <2>3
    <3> QED BY <1>2, <1>4, <1>7, <2>1, <3>1 DEF Increasing
  <2> QED BY <2>2, <2>3
<1>8. Increasing(new)
  BY <1>3, <1>7 DEF Increasing
<1> QED BY <1>1, <1>2, <1>3, <1>4, <1>5, <1>6, <1>8 DEF new, n

(* The nearest keyframe of a reading that does not wait is not a later one. *)
LEMMA NearStays ==
  ASSUME NEW kfs, Increasing(kfs), NEW t \in Times, kfs = <<>> \/ Last(kfs) < t,
         NEW r \in Readings, ~IsPending(kfs, r.t)
  PROVE  \A k : IsNear(Append(kfs, t), k, r) <=> IsNear(kfs, k, r)
<1> DEFINE new == Append(kfs, t)
           n == Len(kfs)
           d(x) == abs_time_diff(x, r.t)
           Before(q, k, j) == d(q[k]) < d(q[j]) \/ (d(q[k]) = d(q[j]) /\ k <= j)
<1>1. /\ kfs \in Seq(Times) /\ DOMAIN new = 1..(n + 1) /\ DOMAIN kfs = 1..n /\ n \in Nat
      /\ \A k \in 1..n : new[k] = kfs[k] /\ kfs[k] < t /\ kfs[k] \in Int
      /\ new[n + 1] = t /\ t \in Int /\ Last(new) = t
  BY AppendedStamps DEF Increasing
<1>2. r.t \in Int
  BY ReadingTypes
<1>3. n \in 1..n /\ kfs[n] >= r.t
  <2>1. kfs # <<>> /\ ~(Last(kfs) < r.t)
    BY DEF IsPending
  <2>2. Last(kfs) = kfs[n] /\ n \in DOMAIN kfs
    BY <1>1, <2>1, LastOf
  <2> QED BY <1>1, <1>2, <2>1, <2>2
<1>4. d(kfs[n]) < d(t) /\ \A k \in 1..n : d(kfs[k]) \in Nat
  <2>0. kfs[n] \in Int /\ kfs[n] >= r.t /\ kfs[n] < t /\ t \in Int /\ t >= r.t
    <3>1. kfs[n] \in Int /\ kfs[n] < t
      BY <1>1, <1>3
    <3> QED BY <1>1, <1>2, <1>3, <3>1
  <2>1. d(kfs[n]) = kfs[n] - r.t /\ d(t) = t - r.t /\ kfs[n] < t
    BY <1>2, <2>0, Distances
  <2>2. \A k \in 1..n : d(kfs[k]) \in Nat
    BY <1>1, <1>2, Distances
  <2> QED BY <1>1, <1>2, <1>3, <2>1, <2>2
<1>5. ~IsPending(new, r.t)
  <2>1. new # <<>> /\ ~(t < r.t)
    BY <1>1, <1>2, <1>3
  <2> HIDE DEF new
  <2> QED BY <1>1, <2>1 DEF IsPending
<1> HIDE DEF new, n, d
<1>6. d(t) \in Nat
  BY <1>1, <1>2, Distances DEF d
<1>7. ASSUME NEW k PROVE k \in NearestIn(new, r) <=> k \in NearestIn(kfs, r)
  <2>1. k \in NearestIn(new, r) <=> k \in 1..(n + 1) /\ \A j \in 1..(n + 1) : Before(new, k, j)
    BY <1>1 DEF NearestIn, d
  <2>2. k \in NearestIn(kfs, r) <=> k \in 1..n /\ \A j \in 1..n : Before(kfs, k, j)
    BY <1>1 DEF NearestIn, d
  <2>3. \A i, j \in 1..n : Before(new, i, j) <=> Before(kfs, i, j)
    BY <1>1
  <2>4. ~Before(new, n + 1, n)
    BY <1>1, <1>3, <1>4, <1>6
  <2>5. ASSUME k \in 1..n, Before(kfs, k, n) PROVE Before(new, k, n + 1)
    <3>1. d(kfs[k]) <= d(kfs[n]) /\ d(kfs[k]) \in Nat /\ d(kfs[n]) \in Nat
      BY <1>3, <1>4, <2>5
    <3>2. new[k] = kfs[k] /\ new[n + 1] = t
      BY <1>1, <2>5
    <3> QED BY <1>4, <1>6, <3>1, <3>2
  <2> HIDE DEF Before
  <2>6. \A j \in 1..(n + 1) : j \in 1..n \/ j = n + 1
    BY <1>1
  <2>7. 1..n \subseteq 1..(n + 1)
    BY <1>1
  <2>8. ASSUME k \in NearestIn(new, r) PROVE k \in NearestIn(kfs, r)
    <3>1. k # n + 1
      BY <1>3, <2>1, <2>4, <2>7, <2>8
    <3> QED BY <2>1, <2>2, <2>3, <2>6, <2>7, <2>8, <3>1
  <2>9. ASSUME k \in NearestIn(kfs, r) PROVE k \in NearestIn(new, r)
    BY <1>3, <2>1, <2>2, <2>3, <2>5, <2>6, <2>7, <2>9
  <2> QED BY <2>8, <2>9
<1>8. ASSUME NEW k \in NearestIn(kfs, r) PROVE new[k] = kfs[k]
  BY <1>1 DEF NearestIn
<1> QED BY <1>5, <1>7, <1>8 DEF IsNear, new

(* A keyframe before the last but one is not the nearest of a reading that  *)
(* has waited.                                                              *)
LEMMA OldIsNotNear ==
  ASSUME NEW kfs, Increasing(kfs), NEW r \in Readings,
         NEW k \in DOMAIN kfs, k + 1 \in DOMAIN kfs, kfs[k + 1] < r.t
  PROVE  ~IsNear(kfs, k, r)
<1>1. kfs[k] \in Int /\ kfs[k + 1] \in Int /\ r.t \in Int /\ k \in Int
  BY LastOf, ReadingTypes DEF Increasing
<1>2. kfs[k] < kfs[k + 1]
  BY <1>1 DEF Increasing
<1> kfs[k] <= r.t /\ kfs[k + 1] <= r.t
  BY <1>1, <1>2
<1>3. abs_time_diff(kfs[k], r.t) = r.t - kfs[k]
      /\ abs_time_diff(kfs[k + 1], r.t) = r.t - kfs[k + 1]
  BY <1>1, <1>2, Distances
<1> QED BY <1>1, <1>2, <1>3 DEF IsNear, NearestIn

(* Only the readings that do not wait matter.                               *)
LEMMA SameClosest ==
  ASSUME NEW kfs, NEW near, NEW R, NEW Q, HasClosest(kfs, near, R),
         \A r : ~IsPending(kfs, r.t) => (r \in R <=> r \in Q)
  PROVE  HasClosest(kfs, near, Q)
<1>1. \A k, s : Candidates(kfs, k, s, R) = Candidates(kfs, k, s, Q)
  BY DEF Candidates, IsNear
<1> QED BY <1>1 DEF HasClosest

NoReadings == [s \in Slots |-> None]

(* A new keyframe has no readings until those that waited are tried.        *)
LEMMA InsertedClosest ==
  ASSUME NEW kfs, Increasing(kfs), NEW near \in [DOMAIN kfs -> Row],
         NEW t \in Times, kfs = <<>> \/ Last(kfs) < t,
         NEW R \in SUBSET Readings, HasClosest(kfs, near, R)
  PROVE  /\ Append(near, NoReadings) \in [DOMAIN Append(kfs, t) -> Row]
         /\ \A k \in DOMAIN kfs : Append(near, NoReadings)[k] = near[k]
         /\ Append(near, NoReadings)[Len(kfs) + 1] = NoReadings
         /\ HasClosest(Append(kfs, t), Append(near, NoReadings),
                       {r \in R : ~IsPending(kfs, r.t)})
<1> DEFINE new == Append(kfs, t)
           rows == Append(near, NoReadings)
           n == Len(kfs)
           Q == {r \in R : ~IsPending(kfs, r.t)}
<1>1. /\ DOMAIN new = 1..(n + 1) /\ DOMAIN kfs = 1..n /\ n \in Nat
      /\ \A k \in 1..n : new[k] = kfs[k]
  BY AppendedStamps
<1>2. near \in Seq(Row) /\ Len(near) = n /\ NoReadings \in Row
  <2>1. near \in [1..n -> Row]
    BY <1>1
  <2> HIDE DEF n
  <2> QED BY <1>1, <2>1 DEF NoReadings, Row
<1>3. rows \in [1..(n + 1) -> Row] /\ rows[n + 1] = NoReadings
      /\ \A k \in 1..n : rows[k] = near[k]
  <2>1. rows \in Seq(Row) /\ Len(rows) = n + 1 /\ rows[n + 1] = NoReadings
        /\ \A k \in 1..n : rows[k] = near[k]
    BY <1>2, AppendProperties
  <2> HIDE DEF n, rows
  <2>2. rows \in [1..(n + 1) -> Row]
    BY <2>1
  <2> QED BY <2>1, <2>2
<1> HIDE DEF new, rows, n
<1>4. ASSUME NEW k \in 1..(n + 1), NEW s \in Slots
      PROVE  IsClosest(new, rows, k, s, Candidates(new, k, s, Q))
  <2>1. Candidates(new, k, s, Q) = Candidates(kfs, k, s, R)
    <3>1. \A r \in Q : IsNear(new, k, r) <=> IsNear(kfs, k, r)
      BY NearStays DEF new
    <3> QED BY <3>1 DEF Candidates, IsNear
  <2>2. CASE k \in 1..n
    <3>1. IsClosest(kfs, near, k, s, Candidates(kfs, k, s, R))
      BY <1>1, <2>2 DEF HasClosest
    <3> QED BY <1>1, <1>3, <2>1, <2>2, <3>1 DEF IsClosest
  <2>3. CASE k = n + 1
    <3>1. k \notin DOMAIN kfs
      BY <1>1, <2>3
    <3>2. Candidates(new, k, s, Q) = {}
      BY <2>1, <3>1 DEF Candidates, IsNear, NearestIn
    <3>3. rows[k][s] = None
      BY <1>3, <2>3 DEF NoReadings
    <3> QED BY <3>2, <3>3 DEF IsClosest
  <2> QED BY <1>1, <2>2, <2>3
<1>5. HasClosest(new, rows, Q)
  BY <1>1, <1>4 DEF HasClosest
<1> QED BY <1>1, <1>3, <1>5 DEF new, rows, n

-----------------------------------------------------------------------------
(***************************************************************************)
(* The inductive invariant.                                                *)
(***************************************************************************)
TypeInv ==
  /\ Increasing(stamps)
  /\ nearest \in [DOMAIN stamps -> Row]
  /\ pending_gnss_ \in Seq(Readings) /\ pending_images_ \in Seq(Readings)
  /\ Distinct(pending_images_)
  /\ received \subseteq Readings /\ dropped \subseteq received
  /\ unwritten_images_ \subseteq (DOMAIN stamps) \X Cameras
  /\ written \subseteq (DOMAIN stamps) \X Cameras
  /\ phase \in {"running", "finalized", "waiting", "saved"}

(* The queues have the readings that wait for a keyframe at or after them.  *)
ImagesWait ==
  /\ {r \in received \ dropped : r.slot \in Cameras /\ Waiting(r)} = ToSet(pending_images_)
  /\ \A r \in dropped : r.slot \in Cameras

(* An image was dropped for a much newer one, whose keyframe, not much      *)
(* older, is also much newer.                                               *)
IsOutdatedBy(r, l) ==
  l.slot \in Cameras /\ l.t - r.t > image_max_time_offset + FRONT_END_LAG_MARGIN

DroppedAreOld == \A r \in dropped : \E l \in received : IsOutdatedBy(r, l)

(* The image of keyframe k in s has been overtaken by a newer one of the    *)
(* same camera, farther away on the other side.                             *)
IsOvertaken(k, s) ==
  /\ k < Len(stamps)
  /\ \E r \in received :
       /\ r.slot = s /\ r.t >= stamps[k]
       /\ abs_time_diff(stamps[k], r.t) > abs_time_diff(stamps[k], nearest[k][s])

ImagesTracked ==
  /\ \A k \in DOMAIN stamps, s \in Cameras :
       nearest[k][s] # None <=> <<k, s>> \in unwritten_images_ \cup written
  /\ \A k \in DOMAIN stamps, s \in Cameras :
       /\ <<k, s>> \in written /\ s \notin KeptCameras =>
            [slot |-> s, t |-> nearest[k][s]] \in image_writes_ \cup files
       /\ <<k, s>> \in written /\ phase = "running" => IsOvertaken(k, s)

PhaseInv ==
  /\ phase \in {"waiting", "saved"} => unwritten_images_ = {}
  /\ phase = "saved" => image_writes_ = {}

IInv ==
  /\ TypeInv /\ GnssWaits /\ ImagesWait
  /\ DroppedAreOld /\ DroppedMissNoNewKeyframe
  /\ HasClosest(stamps, nearest, received \ dropped)
  /\ ImagesTracked /\ PhaseInv

LEMMA InitInv == Init => IInv
<1> SUFFICES ASSUME Init PROVE IInv
  OBVIOUS
<1>1. DOMAIN stamps = {} /\ ToSet(pending_images_) = {} /\ DOMAIN pending_gnss_ = {}
  BY DEF Init, ToSet
<1>2. TypeInv
  <2>1. stamps \in Seq(Times) /\ pending_gnss_ \in Seq(Readings) /\ pending_images_ \in Seq(Readings)
    BY EmptySeq DEF Init
  <2>2. nearest \in [DOMAIN stamps -> Row]
    BY <1>1 DEF Init
  <2> QED BY <1>1, <2>1, <2>2 DEF TypeInv, Increasing, Distinct, Init
<1> QED BY <1>1, <1>2 DEF IInv, Init, GnssWaits, ImagesWait, DroppedAreOld,
              DroppedMissNoNewKeyframe, HasClosest, ImagesTracked, PhaseInv

(* A reading waits if and only if all keyframes are before it.              *)
LEMMA StampsBefore ==
  ASSUME NEW kfs, Increasing(kfs), NEW t \in Times, IsPending(kfs, t)
  PROVE  \A k \in DOMAIN kfs : kfs[k] < t
<1>1. kfs \in Seq(Times) /\ t \in Int
  BY TimesAssumption DEF Increasing, Times
<1> SUFFICES ASSUME NEW k \in DOMAIN kfs PROVE kfs[k] < t
  OBVIOUS
<1>2. kfs # <<>> /\ DOMAIN kfs = 1..Len(kfs) /\ Len(kfs) \in DOMAIN kfs /\ Last(kfs) = kfs[Len(kfs)]
      /\ kfs[k] \in Int /\ kfs[Len(kfs)] \in Int /\ Len(kfs) \in Nat
  <2>1. DOMAIN kfs = 1..Len(kfs)
    BY <1>1, LastOf
  <2>2. kfs # <<>>
    BY <2>1
  <2> QED BY <1>1, <2>2, LastOf
<1>3. k = Len(kfs) \/ kfs[k] < kfs[Len(kfs)]
  BY <1>2 DEF Increasing
<1>4. kfs[Len(kfs)] < t
  BY <1>2 DEF IsPending
<1> QED BY <1>1, <1>2, <1>3, <1>4

(* The queue of the images after they have been tried and bounded.          *)
LEMMA QueueAfter ==
  ASSUME TypeInv, NEW kfs, Increasing(kfs), NEW near \in [DOMAIN kfs -> Row],
         NEW images \in Seq(Readings), Distinct(images),
         Bound(TryAll(kfs, near, images).pending)
  PROVE  \E gone \in SUBSET ToSet(images) :
           /\ dropped' = dropped \cup gone
           /\ pending_images_' \in Seq(Readings) /\ Distinct(pending_images_')
           /\ ToSet(pending_images_') = {r \in ToSet(images) : IsPending(kfs, r.t)} \ gone
           /\ \A r \in gone : /\ IsPending(kfs, r.t)
                              /\ \E l \in ToSet(images) : TooOld(r, l)
<1> DEFINE st == TryAll(kfs, near, images)
<1>1. st \in States(kfs) /\ ToSet(st.pending) = {r \in ToSet(images) : IsPending(kfs, r.t)}
  BY TryAllOutcome DEF Outcome
<1>2. st.pending \in Seq(Readings) /\ Distinct(st.pending)
  BY <1>1, TryAllDistinct DEF States
<1> HIDE DEF st
<1>3. Bound(st.pending)
  BY DEF st
<1>4. PICK gone \in SUBSET ToSet(st.pending) :
           /\ dropped' = dropped \cup gone
           /\ pending_images_' \in Seq(Readings) /\ Distinct(pending_images_')
           /\ ToSet(pending_images_') = ToSet(st.pending) \ gone
           /\ \A r \in gone : st.pending # <<>> /\ TooOld(r, Last(st.pending))
  BY <1>2, <1>3, BoundDrops
<1>5. st.pending # <<>> => Last(st.pending) \in ToSet(st.pending)
  <2> SUFFICES ASSUME st.pending # <<>> PROVE Last(st.pending) \in ToSet(st.pending)
    OBVIOUS
  <2>1. Len(st.pending) \in DOMAIN st.pending
    BY <1>2, EmptySeq
  <2> QED BY <2>1 DEF Last, ToSet
<1> HIDE DEF ToSet
<1> QED BY <1>1, <1>4, <1>5

LEMMA StepTypes ==
  ASSUME IInv
  PROVE  /\ Increasing(stamps) /\ nearest \in [DOMAIN stamps -> Row]
         /\ pending_gnss_ \in Seq(Readings) /\ pending_images_ \in Seq(Readings)
         /\ received \subseteq Readings /\ dropped \subseteq received
         /\ ToSet(pending_gnss_) = {r \in received : r.slot = Gnss /\ Waiting(r)}
         /\ ToSet(pending_images_) =
              {r \in received \ dropped : r.slot \in Cameras /\ Waiting(r)}
         /\ Gnss \notin Cameras
         /\ \A r \in Readings : r.slot \in Cameras \/ r.slot = Gnss
<1>1. Gnss \notin Cameras
  BY CamerasAssumption
<1>2. \A r \in Readings : r.slot \in Cameras \/ r.slot = Gnss
  BY ReadingTypes DEF Slots
<1> QED BY <1>1, <1>2 DEF IInv, TypeInv, GnssWaits, ImagesWait, ToSet

-----------------------------------------------------------------------------
(***************************************************************************)
(* onNewObservation() keeps it.                                            *)
(***************************************************************************)
LEMMA OneReading ==
  ASSUME NEW r \in Readings
  PROVE  <<r>> \in Seq(Readings) /\ ToSet(<<r>>) = {r} /\ Distinct(<<r>>)
BY DEF ToSet, Distinct

LEMMA ConcatToSet ==
  ASSUME NEW S, NEW p \in Seq(S), NEW q \in Seq(S)
  PROVE  ToSet(p \o q) = ToSet(p) \cup ToSet(q)
<1>1. Len(p \o q) = Len(p) + Len(q) /\ p \o q \in Seq(S) /\ Len(p) \in Nat /\ Len(q) \in Nat
      /\ DOMAIN p = 1..Len(p) /\ DOMAIN q = 1..Len(q)
      /\ DOMAIN (p \o q) = 1..(Len(p) + Len(q))
  BY ConcatProperties
<1>2. \A i \in 1..(Len(p) + Len(q)) : (p \o q)[i] = IF i <= Len(p) THEN p[i] ELSE q[i - Len(p)]
  BY <1>1, ConcatProperties
<1>3. \A i \in DOMAIN (p \o q) : (p \o q)[i] \in ToSet(p) \cup ToSet(q)
  <2> TAKE i \in DOMAIN (p \o q)
  <2>1. CASE i <= Len(p)
    BY <1>1, <1>2, <2>1 DEF ToSet
  <2>2. CASE ~(i <= Len(p))
    <3>1. i - Len(p) \in DOMAIN q
      BY <1>1, <2>2
    <3> QED BY <1>1, <1>2, <2>2, <3>1 DEF ToSet
  <2> QED BY <2>1, <2>2
<1>4. \A i \in DOMAIN p : p[i] \in ToSet(p \o q)
  BY <1>1, <1>2 DEF ToSet
<1>5. \A i \in DOMAIN q : q[i] \in ToSet(p \o q)
  <2> TAKE i \in DOMAIN q
  <2>1. i + Len(p) \in DOMAIN (p \o q) /\ ~(i + Len(p) <= Len(p)) /\ (i + Len(p)) - Len(p) = i
    BY <1>1
  <2>2. (p \o q)[i + Len(p)] = q[i]
    BY <1>1, <1>2, <2>1
  <2> QED BY <2>1, <2>2 DEF ToSet
<1>6. ToSet(p \o q) = {(p \o q)[i] : i \in DOMAIN (p \o q)} /\ ToSet(p) = {p[i] : i \in DOMAIN p}
      /\ ToSet(q) = {q[i] : i \in DOMAIN q}
  BY DEF ToSet
<1> HIDE DEF ToSet
<1> QED BY <1>3, <1>4, <1>5, <1>6

(* A GNSS reading.                                                          *)
LEMMA OnGnssInv ==
  ASSUME IInv, NEW r \in Readings, OnGnss(r)
  PROVE  IInv' /\ \A e \in written : nearest'[e[1]][e[2]] = nearest[e[1]][e[2]]
<1> DEFINE st == TryAll(stamps, nearest, <<r>>)
<1>1. /\ stamps' = stamps /\ nearest' = st.near
      /\ pending_gnss_' = pending_gnss_ \o st.pending /\ received' = received \cup {r}
      /\ pending_images_' = pending_images_ /\ dropped' = dropped
      /\ unwritten_images_' = unwritten_images_ /\ image_writes_' = image_writes_
      /\ files' = files /\ written' = written /\ phase' = phase
      /\ phase = "running" /\ r \notin received /\ r.slot = Gnss
  BY DEF OnGnss, imageVars, IsNew
<1>2. st \in States(stamps) /\ Outcome(stamps, nearest, {r}, st)
  <2> DEFINE q == <<r>>
  <2>1. q \in Seq(Readings) /\ ToSet(q) = {r}
    BY OneReading
  <2>2. Increasing(stamps) /\ nearest \in [DOMAIN stamps -> Row]
    BY StepTypes
  <2> HIDE DEF q
  <2>3. TryAll(stamps, nearest, q) \in States(stamps)
        /\ Outcome(stamps, nearest, ToSet(q), TryAll(stamps, nearest, q))
    BY <2>1, <2>2, TryAllOutcome
  <2> QED BY <2>1, <2>3 DEF q
<1> HIDE DEF st
<1>3. st.near \in [DOMAIN stamps -> Row] /\ st.pending \in Seq(Readings)
  BY <1>2 DEF States
<1>4. \A k \in DOMAIN stamps, s \in Cameras : nearest'[k][s] = nearest[k][s]
  BY <1>1, <1>2, CamerasAssumption DEF Outcome, Slots
<1>5. TypeInv'
  <2>1. pending_gnss_' \in Seq(Readings)
    BY <1>1, <1>3, StepTypes, ConcatProperties
  <2> QED BY <1>1, <1>3, <2>1 DEF IInv, TypeInv, Increasing, Distinct
<1>6. GnssWaits'
  <2>1. ToSet(pending_gnss_ \o st.pending) = ToSet(pending_gnss_) \cup ToSet(st.pending)
    BY <1>3, StepTypes, ConcatToSet
  <2>2. ToSet(st.pending) = {o \in {r} : IsPending(stamps, o.t)}
    BY <1>2 DEF Outcome
  <2>3. {o \in received' : o.slot = Gnss /\ Waiting(o)'} = ToSet(pending_gnss_')
    BY <1>1, <2>1, <2>2, StepTypes DEF Waiting
  <2> QED BY <2>3 DEF GnssWaits, ToSet
<1>7. ImagesWait'
  BY <1>1, StepTypes DEF IInv, ImagesWait, Waiting, ToSet
<1>8. DroppedAreOld' /\ DroppedMissNoNewKeyframe'
  BY <1>1 DEF IInv, DroppedAreOld, DroppedMissNoNewKeyframe, IsOutdatedBy
<1>9. HasClosest(stamps, nearest, received \ dropped)'
  <2>1. HasClosest(stamps, st.near, (received \ dropped) \cup {r})
    BY <1>2, StepTypes DEF Outcome, IInv
  <2>2. (received' \ dropped') = (received \ dropped) \cup {r}
    BY <1>1, StepTypes
  <2>3. HasClosest(stamps', nearest', received' \ dropped')
    BY <1>1, <2>1, <2>2
  <2> QED BY <2>3 DEF HasClosest, IsClosest, Candidates, IsNear, NearestIn, IsPending
<1>10. ImagesTracked'
  <2>1. \A k \in DOMAIN stamps, s \in Cameras : IsOvertaken(k, s) => IsOvertaken(k, s)'
    BY <1>1, <1>4 DEF IsOvertaken
  <2> QED BY <1>1, <1>4, <2>1 DEF IInv, ImagesTracked
<1>11. PhaseInv'
  BY <1>1 DEF PhaseInv
<1>12. \A e \in written : nearest'[e[1]][e[2]] = nearest[e[1]][e[2]]
  BY <1>4 DEF IInv, TypeInv
<1> QED BY <1>5, <1>6, <1>7, <1>8, <1>9, <1>10, <1>11, <1>12 DEF IInv

(* An image.                                                                *)
LEMMA OnImageInv ==
  ASSUME IInv, NEW r \in Readings, OnImage(r)
  PROVE  IInv' /\ \A e \in written : nearest'[e[1]][e[2]] = nearest[e[1]][e[2]]
<1> DEFINE images == Append(pending_images_, r)
           tried == ToSet(pending_images_) \cup {r}
           st == TryAll(stamps, nearest, images)
           unwritten == unwritten_images_ \cup st.new
           done == {e \in unwritten : ~MayBeReplaced(stamps, st.near, e[1], e[2], r)}
<1>1. /\ stamps' = stamps /\ nearest' = st.near
      /\ pending_gnss_' = pending_gnss_ /\ received' = received \cup {r}
      /\ files' = files /\ phase' = phase
      /\ phase = "running" /\ r \notin received /\ r.slot \in Cameras
      /\ \A o \in received : o.slot = r.slot => o.t < r.t
  BY DEF OnImage, IsNew
<1>2. /\ unwritten_images_' = unwritten \ done /\ written' = written \cup done
      /\ image_writes_' = image_writes_ \cup
           {[slot |-> e[2], t |-> st.near[e[1]][e[2]]] : e \in {d \in done : d[2] \notin KeptCameras}}
  BY DEF OnImage, Finish
<1>3. images \in Seq(Readings) /\ ToSet(images) = tried /\ Distinct(images)
  <2>1. r \notin ToSet(pending_images_) /\ Distinct(pending_images_)
    BY <1>1, StepTypes DEF IInv, TypeInv
  <2> QED BY <2>1, StepTypes, AppendToSet, AppendDistinct
<1>4. Bound(st.pending)
  BY DEF OnImage
<1> HIDE DEF images, tried
<1>5. st \in States(stamps) /\ Outcome(stamps, nearest, tried, st)
  BY <1>3, StepTypes, TryAllOutcome
<1>6. PICK gone \in SUBSET tried :
           /\ dropped' = dropped \cup gone
           /\ pending_images_' \in Seq(Readings) /\ Distinct(pending_images_')
           /\ ToSet(pending_images_') = {o \in tried : Waiting(o)} \ gone
           /\ \A o \in gone : Waiting(o) /\ \E l \in tried : TooOld(o, l)
  BY <1>3, <1>4, StepTypes, QueueAfter DEF IInv, Waiting
<1> HIDE DEF st, unwritten, done
<1>7. st.near \in [DOMAIN stamps -> Row] /\ st.new \in SUBSET ((DOMAIN stamps) \X Slots)
  BY <1>5 DEF States
<1>8. /\ tried \subseteq received' /\ tried \subseteq Readings
      /\ (\A o \in tried : o.slot \in Cameras)
      /\ \A o \in tried : o # r => Waiting(o) /\ o \in received \ dropped
  BY <1>1, StepTypes DEF tried
<1>9. st.new \in SUBSET ((DOMAIN stamps) \X Cameras)
  BY <1>5, <1>7, <1>8 DEF Outcome
<1>10. \A e \in written : nearest'[e[1]][e[2]] = nearest[e[1]][e[2]]
  <2> SUFFICES ASSUME NEW k \in DOMAIN stamps, NEW s \in Cameras, <<k, s>> \in written
               PROVE  st.near[k][s] = nearest[k][s]
    BY <1>1 DEF IInv, TypeInv
  <2>1. IsOvertaken(k, s) /\ nearest[k][s] # None /\ s \in Slots
    BY <1>1 DEF IInv, ImagesTracked, Slots
  <2>2. PICK q \in received :
           /\ q.slot = s /\ q.t >= stamps[k]
           /\ abs_time_diff(stamps[k], q.t) > abs_time_diff(stamps[k], nearest[k][s])
    BY <2>1 DEF IsOvertaken
  <2>3. stamps[k] \in Int /\ nearest[k][s] \in Int /\ q.t \in Int /\ r.t \in Int
    <3>1. nearest[k][s] \in Times \cup {None}
      BY <2>1, StepTypes DEF Row
    <3>2. stamps[k] \in Times
      BY StepTypes, LastOf DEF Increasing
    <3>3. q \in Readings
      BY StepTypes
    <3> QED BY <3>1, <3>2, <3>3, ReadingTypes, TimesAssumption DEF Times, None
  <2>4. r.slot = s => abs_time_diff(stamps[k], r.t) > abs_time_diff(stamps[k], nearest[k][s])
    <3> SUFFICES ASSUME r.slot = s
                 PROVE  abs_time_diff(stamps[k], r.t) > abs_time_diff(stamps[k], nearest[k][s])
      OBVIOUS
    <3>1. q.t < r.t
      BY <1>1, <2>2
    <3>2. stamps[k] <= q.t /\ stamps[k] <= r.t
      BY <2>2, <2>3, <3>1
    <3>3. abs_time_diff(stamps[k], q.t) = q.t - stamps[k] /\ abs_time_diff(stamps[k], r.t) = r.t - stamps[k]
      BY <2>3, <3>2, Distances
    <3>4. abs_time_diff(stamps[k], nearest[k][s]) \in Nat
      BY <2>3, Distances
    <3> QED BY <2>2, <2>3, <3>1, <3>3, <3>4
  <2>5. abs_time_diff(stamps[k], nearest[k][s]) \in Nat /\ abs_time_diff(stamps[k], r.t) \in Nat
    BY <2>3, Distances
  <2>6. NoneCloser(stamps, nearest, k, s, tried)
    <3> SUFFICES ASSUME NEW o \in Candidates(stamps, k, s, tried)
                 PROVE  ~(abs_time_diff(stamps[k], o.t) < abs_time_diff(stamps[k], nearest[k][s]))
      BY <2>1 DEF NoneCloser
    <3>1. o = r /\ r.slot = s
      BY <1>8 DEF Candidates, IsNear, Waiting
    <3> QED BY <2>4, <2>5, <3>1
  <2> QED BY <1>5, <2>1, <2>6 DEF Outcome
<1>11. TypeInv'
  <2>1. done \subseteq unwritten /\ unwritten \subseteq (DOMAIN stamps) \X Cameras
    BY <1>9 DEF done, unwritten, IInv, TypeInv
  <2>2. dropped' \subseteq received' /\ received' \subseteq Readings
    BY <1>1, <1>6, <1>8, StepTypes
  <2>3. Increasing(stamps)' /\ nearest' \in [DOMAIN stamps' -> Row]
    BY <1>1, <1>7, StepTypes DEF Increasing
  <2>4. unwritten_images_' \subseteq (DOMAIN stamps') \X Cameras /\ written' \subseteq (DOMAIN stamps') \X Cameras
    BY <1>1, <1>2, <2>1 DEF IInv, TypeInv
  <2>5. Distinct(pending_images_)'
    BY <1>6 DEF Distinct
  <2> QED BY <1>1, <1>6, <2>2, <2>3, <2>4, <2>5 DEF IInv, TypeInv
<1>12. GnssWaits'
  <2>1. {o \in received' : o.slot = Gnss /\ Waiting(o)'} = {o \in received : o.slot = Gnss /\ Waiting(o)}
    BY <1>1, StepTypes DEF Waiting
  <2> QED BY <1>1, <2>1 DEF IInv, GnssWaits
<1>13. ImagesWait'
  <2>1. {o \in received' \ dropped' : o.slot \in Cameras /\ Waiting(o)'} = {o \in tried : Waiting(o)} \ gone
    BY <1>1, <1>6, <1>8, StepTypes DEF Waiting, tried
  <2>2. \A o \in dropped' : o.slot \in Cameras
    BY <1>6, <1>8 DEF IInv, ImagesWait
  <2>3. ToSet(pending_images_)' = ToSet(pending_images_')
    BY DEF ToSet
  <2> QED BY <1>6, <2>1, <2>2, <2>3 DEF ImagesWait
<1>14. DroppedAreOld'
  BY <1>1, <1>6, <1>8 DEF IInv, DroppedAreOld, IsOutdatedBy, TooOld
<1>15. DroppedMissNoNewKeyframe'
  <2>1. \A o \in gone, k \in DOMAIN stamps : ~(stamps[k] >= o.t)
    <3> TAKE o \in gone, k \in DOMAIN stamps
    <3>1. o \in Readings /\ IsPending(stamps, o.t) /\ o.t \in Times
      BY <1>6, <1>8, ReadingTypes DEF Waiting
    <3>2. stamps[k] < o.t /\ stamps[k] \in Int /\ o.t \in Int
      BY <3>1, StepTypes, StampsBefore, LastOf, ReadingTypes DEF Increasing
    <3> QED BY <3>2
  <2> QED BY <1>1, <1>6, <2>1 DEF IInv, DroppedMissNoNewKeyframe
<1>16. HasClosest(stamps, nearest, received \ dropped)'
  <2>1. HasClosest(stamps, st.near, (received \ dropped) \cup tried)
    BY <1>5, StepTypes DEF Outcome, IInv
  <2>2. \A o : ~IsPending(stamps, o.t) => (o \in (received \ dropped) \cup tried <=> o \in received' \ dropped')
    <3> TAKE o
    <3> HAVE ~IsPending(stamps, o.t)
    <3>1. o \notin gone /\ dropped' = dropped \cup gone
      BY <1>6 DEF Waiting
    <3>2. o \in tried => o = r \/ o \in received \ dropped
      BY <1>8
    <3>3. r \notin dropped /\ r \in tried /\ received' = received \cup {r}
      BY <1>1, StepTypes DEF tried
    <3> QED BY <3>1, <3>2, <3>3
  <2>3. HasClosest(stamps, st.near, received' \ dropped')
    BY <2>1, <2>2, SameClosest
  <2>4. HasClosest(stamps', nearest', received' \ dropped')
    BY <1>1, <2>3
  <2> QED BY <2>4 DEF HasClosest, IsClosest, Candidates, IsNear, NearestIn, IsPending
<1>17. ImagesTracked'
  <2>1. \A k \in DOMAIN stamps, s \in Cameras :
          st.near[k][s] # None <=> <<k, s>> \in unwritten_images_' \cup written'
    <3> TAKE k \in DOMAIN stamps, s \in Cameras
    <3>1. nearest[k][s] # None <=> <<k, s>> \in unwritten_images_ \cup written
      BY DEF IInv, ImagesTracked
    <3>2. /\ st.near[k][s] # nearest[k][s] => <<k, s>> \in st.new
          /\ <<k, s>> \in st.new => st.near[k][s] # None
          /\ nearest[k][s] # None => st.near[k][s] # None
      BY <1>5 DEF Outcome, Slots
    <3>3. unwritten_images_' \cup written' = unwritten_images_ \cup st.new \cup written
      BY <1>2 DEF done, unwritten
    <3> QED BY <3>1, <3>2, <3>3
  <2>2. ASSUME NEW k \in DOMAIN stamps, NEW s \in Cameras, <<k, s>> \in written'
        PROVE  /\ s \notin KeptCameras =>
                    [slot |-> s, t |-> st.near[k][s]] \in image_writes_' \cup files
               /\ IsOvertaken(k, s)'
    <3>1. CASE <<k, s>> \in written
      <4>1. st.near[k][s] = nearest[k][s]
        BY <1>1, <1>10, <3>1
      <4>2. IsOvertaken(k, s)'
        <5>1. IsOvertaken(k, s)
          BY <1>1, <3>1 DEF IInv, ImagesTracked
        <5> QED BY <1>1, <4>1, <5>1 DEF IsOvertaken
      <4> QED BY <1>2, <3>1, <4>1, <4>2 DEF IInv, ImagesTracked
    <3>2. CASE <<k, s>> \in done
      <4>1. ~MayBeReplaced(stamps, st.near, k, s, r)
        BY <3>2 DEF done
      <4>2. k # Len(stamps) /\ s = r.slot /\ ~(r.t < stamps[k])
            /\ ~(abs_time_diff(stamps[k], r.t) <= abs_time_diff(stamps[k], st.near[k][s]))
        BY <4>1 DEF MayBeReplaced, IsNewest
      <4>3. k < Len(stamps) /\ stamps[k] \in Int /\ r.t \in Int /\ st.near[k][s] \in Int
        <5>1. st.near[k][s] \in Times \cup {None}
          BY <1>7 DEF Row, Slots
        <5>2. k \in 1..Len(stamps) /\ Len(stamps) \in Nat /\ stamps[k] \in Int
          BY StepTypes, LastOf DEF Increasing
        <5> QED BY <4>2, <5>1, <5>2, ReadingTypes, TimesAssumption DEF Times, None
      <4>4. abs_time_diff(stamps[k], r.t) \in Nat /\ abs_time_diff(stamps[k], st.near[k][s]) \in Nat
        BY <4>3, Distances
      <4>5. r.t >= stamps[k]
            /\ abs_time_diff(stamps[k], r.t) > abs_time_diff(stamps[k], st.near[k][s])
        BY <4>2, <4>3, <4>4
      <4>6. IsOvertaken(k, s)'
        BY <1>1, <4>2, <4>3, <4>5 DEF IsOvertaken
      <4>7. s \notin KeptCameras => [slot |-> s, t |-> st.near[k][s]] \in image_writes_'
        <5> SUFFICES ASSUME s \notin KeptCameras
                     PROVE  [slot |-> s, t |-> st.near[k][s]] \in image_writes_'
          OBVIOUS
        <5> DEFINE e == <<k, s>>
        <5>1. e \in {d \in done : d[2] \notin KeptCameras} /\ e[1] = k /\ e[2] = s
          BY <3>2
        <5> HIDE DEF e
        <5> QED BY <1>2, <5>1
      <4> QED BY <4>6, <4>7
    <3> QED BY <1>2, <2>2, <3>1, <3>2
  <2>3. \A k \in DOMAIN stamps, s \in Cameras : <<k, s>> \in written' => IsOvertaken(k, s)'
    BY <2>2
  <2>4. \A k \in DOMAIN stamps, s \in Cameras : <<k, s>> \in written' /\ s \notin KeptCameras =>
            [slot |-> s, t |-> st.near[k][s]] \in image_writes_' \cup files
    BY <2>2
  <2> QED BY <1>1, <2>1, <2>3, <2>4 DEF ImagesTracked
<1>18. PhaseInv'
  BY <1>1 DEF PhaseInv
<1> QED BY <1>10, <1>11, <1>12, <1>13, <1>14, <1>15, <1>16, <1>17, <1>18 DEF IInv

-----------------------------------------------------------------------------
(***************************************************************************)
(* insert_keyframe_impl() keeps it.                                        *)
(***************************************************************************)
LEMMA InsertKeyframeInv ==
  ASSUME IInv, NEW t \in Times, InsertKeyframe(t)
  PROVE  IInv' /\ \A e \in written : nearest'[e[1]][e[2]] = nearest[e[1]][e[2]]
<1> DEFINE kfs == Append(stamps, t)
           n == Len(stamps)
           base == Append(nearest, NoReadings)
           gnss == TryAll(kfs, base, pending_gnss_)
           images == TryAll(kfs, gnss.near, pending_images_)
           Old == {r \in received \ dropped : ~IsPending(stamps, r.t)}
           GnssQ == ToSet(pending_gnss_)
           ImageQ == ToSet(pending_images_)
<1>1. /\ stamps' = kfs /\ nearest' = images.near /\ pending_gnss_' = gnss.pending
      /\ Bound(images.pending)
      /\ unwritten_images_' = unwritten_images_ \cup images.new
      /\ image_writes_' = image_writes_ /\ files' = files /\ written' = written
      /\ phase' = phase /\ received' = received
  BY DEF InsertKeyframe, RetriedWith, Left, NoReadings
<1>2. /\ phase = "running" /\ (stamps = <<>> \/ Last(stamps) < t)
      /\ \A r \in received : r.slot \in Cameras => t >= r.t - FrontEndLag
  <2>1. ~(stamps # <<>> /\ t <= Last(stamps))
    BY DEF InsertKeyframe, IsOlder
  <2>2. stamps # <<>> => Last(stamps) \in Int /\ t \in Int
    <3>1. Increasing(stamps)
      BY StepTypes
    <3> QED BY <3>1, LastOf, TimesAssumption DEF Increasing, Times
  <2> QED BY <2>1, <2>2 DEF InsertKeyframe
<1>3. /\ Increasing(kfs) /\ DOMAIN kfs = 1..(n + 1) /\ DOMAIN stamps = 1..n /\ n \in Nat
      /\ \A k \in 1..n : kfs[k] = stamps[k] /\ stamps[k] < t /\ stamps[k] \in Int
      /\ kfs[n + 1] = t /\ t \in Int /\ Last(kfs) = t /\ kfs \in Seq(Times)
  BY <1>2, StepTypes, AppendedStamps
<1>4. Len(kfs) = n + 1
  BY <1>3
<1>5. /\ base \in [DOMAIN kfs -> Row] /\ base[n + 1] = NoReadings
      /\ (\A k \in 1..n : base[k] = nearest[k])
      /\ HasClosest(kfs, base, Old)
  <2>1. (received \ dropped) \in SUBSET Readings /\ HasClosest(stamps, nearest, received \ dropped)
    BY StepTypes DEF IInv
  <2>2. Increasing(stamps) /\ nearest \in [DOMAIN stamps -> Row]
    BY StepTypes
  <2> DEFINE R == received \ dropped
  <2> HIDE DEF R, kfs, base, n
  <2>3. HasClosest(stamps, nearest, R) /\ R \in SUBSET Readings /\ Old = {r \in R : ~IsPending(stamps, r.t)}
    BY <2>1 DEF R
  <2>4. /\ Append(nearest, NoReadings) \in [DOMAIN Append(stamps, t) -> Row]
        /\ \A k \in DOMAIN stamps : Append(nearest, NoReadings)[k] = nearest[k]
        /\ Append(nearest, NoReadings)[Len(stamps) + 1] = NoReadings
        /\ HasClosest(Append(stamps, t), Append(nearest, NoReadings), {r \in R : ~IsPending(stamps, r.t)})
    BY <1>2, <2>2, <2>3, InsertedClosest
  <2>5. DOMAIN stamps = 1..n
    BY <1>3
  <2> QED BY <2>3, <2>4, <2>5 DEF kfs, base, n
<1> HIDE DEF kfs, n, base
<1>6. gnss \in States(kfs) /\ Outcome(kfs, base, GnssQ, gnss)
  BY <1>3, <1>5, StepTypes, TryAllOutcome
<1>7. gnss.near \in [DOMAIN kfs -> Row] /\ gnss.pending \in Seq(Readings)
  BY <1>6 DEF States
<1> HIDE DEF gnss
<1>8. images \in States(kfs) /\ Outcome(kfs, gnss.near, ImageQ, images)
  BY <1>3, <1>7, StepTypes, TryAllOutcome
<1>9. PICK gone \in SUBSET ImageQ :
           /\ dropped' = dropped \cup gone
           /\ pending_images_' \in Seq(Readings) /\ Distinct(pending_images_')
           /\ ToSet(pending_images_') = {r \in ImageQ : IsPending(kfs, r.t)} \ gone
           /\ \A r \in gone : IsPending(kfs, r.t) /\ \E l \in ImageQ : TooOld(r, l)
  BY <1>1, <1>3, <1>7, StepTypes, QueueAfter DEF IInv, TypeInv
<1> HIDE DEF images
<1>10. images.near \in [DOMAIN kfs -> Row] /\ images.new \in SUBSET ((DOMAIN kfs) \X Slots)
  BY <1>8 DEF States
<1>11. /\ GnssQ = {r \in received : r.slot = Gnss /\ Waiting(r)}
       /\ ImageQ = {r \in received \ dropped : r.slot \in Cameras /\ Waiting(r)}
  BY StepTypes
<1> HIDE DEF GnssQ, ImageQ
<1>12. \A k \in 1..(n + 1), s \in Cameras : gnss.near[k][s] = base[k][s]
  <2> TAKE k \in 1..(n + 1), s \in Cameras
  <2>1. s \in Slots /\ s # Gnss
    BY CamerasAssumption DEF Slots
  <2>2. /\ gnss.near[k][s] # base[k][s] => <<k, s>> \in gnss.new
        /\ <<k, s>> \in gnss.new => \E r \in GnssQ : r.slot = s
    BY <1>3, <1>6, <2>1 DEF Outcome
  <2> QED BY <1>11, <2>1, <2>2
<1>13. images.new \in SUBSET ((DOMAIN kfs) \X Cameras)
  <2> SUFFICES ASSUME NEW k \in DOMAIN kfs, NEW s \in Slots, <<k, s>> \in images.new
               PROVE  s \in Cameras
    BY <1>10
  <2>1. \E r \in ImageQ : r.slot = s
    BY <1>8 DEF Outcome
  <2> QED BY <1>11, <2>1
<1>14. ASSUME NEW k \in 1..n, NEW s \in Cameras, <<k, s>> \in written
       PROVE  images.near[k][s] = nearest[k][s]
  <2>1. IsOvertaken(k, s) /\ nearest[k][s] # None /\ s \in Slots /\ k \in 1..(n + 1)
    <3>1. ImagesTracked /\ k \in DOMAIN stamps /\ k \in 1..(n + 1)
      BY <1>3 DEF IInv
    <3> QED BY <1>2, <1>14, <3>1 DEF ImagesTracked, Slots
  <2>2. gnss.near[k][s] = nearest[k][s]
    BY <1>5, <1>12, <2>1
  <2>3. k + 1 \in 1..n /\ k + 1 \in 1..(n + 1)
    BY <1>3, <2>1 DEF IsOvertaken, n
  <2>4. \A r \in ImageQ : ~IsNear(kfs, k, r)
    <3> TAKE r \in ImageQ
    <3>1. r \in Readings /\ IsPending(stamps, r.t) /\ r.t \in Times
      BY <1>11, StepTypes, ReadingTypes DEF Waiting
    <3>2. kfs[k + 1] < r.t
      BY <1>3, <2>3, <3>1, StepTypes, StampsBefore
    <3> QED BY <1>3, <2>1, <2>3, <3>1, <3>2, OldIsNotNear
  <2>5. NoneCloser(kfs, gnss.near, k, s, ImageQ)
    BY <2>1, <2>2, <2>4 DEF NoneCloser, Candidates
  <2> QED BY <1>3, <1>8, <2>1, <2>2, <2>5 DEF Outcome
<1>15. \A e \in written : nearest'[e[1]][e[2]] = nearest[e[1]][e[2]]
  BY <1>1, <1>3, <1>14 DEF IInv, TypeInv
<1>16. TypeInv'
  <2>1. dropped' \subseteq received' /\ received' \subseteq Readings
    BY <1>1, <1>9, <1>11, StepTypes
  <2>2. Increasing(stamps)' /\ nearest' \in [DOMAIN stamps' -> Row]
    BY <1>1, <1>3, <1>10 DEF Increasing
  <2>3. (DOMAIN stamps) \X Cameras \subseteq (DOMAIN kfs) \X Cameras
    BY <1>3
  <2>4. unwritten_images_' \subseteq (DOMAIN stamps') \X Cameras /\ written' \subseteq (DOMAIN stamps') \X Cameras
    BY <1>1, <1>13, <2>3 DEF IInv, TypeInv
  <2>5. Distinct(pending_images_)'
    BY <1>9 DEF Distinct
  <2> QED BY <1>1, <1>2, <1>7, <1>9, <2>1, <2>2, <2>4, <2>5 DEF TypeInv
<1>17. \A r \in Readings : IsPending(kfs, r.t) => Waiting(r)
  <2> TAKE r \in Readings
  <2> HAVE IsPending(kfs, r.t)
  <2>1. t < r.t
    BY <1>3, <1>4 DEF IsPending
  <2>2. stamps = <<>> \/ (Last(stamps) < t /\ Last(stamps) \in Int)
    <3>1. Increasing(stamps)
      BY StepTypes
    <3> QED BY <1>2, <3>1, LastOf DEF Increasing
  <2>3. stamps = <<>> \/ Last(stamps) < r.t
    BY <1>3, <2>1, <2>2, ReadingTypes
  <2> QED BY <2>3 DEF Waiting, IsPending
<1>18. GnssWaits'
  <2>1. ToSet(gnss.pending) = {r \in GnssQ : IsPending(kfs, r.t)}
    BY <1>6 DEF Outcome
  <2>2. {r \in received' : r.slot = Gnss /\ Waiting(r)'} = {r \in GnssQ : IsPending(kfs, r.t)}
    <3>1. \A r \in received : r \in Readings
      BY StepTypes
    <3> QED BY <1>1, <1>11, <1>17, <3>1 DEF Waiting
  <2>3. {pending_gnss_[i] : i \in DOMAIN pending_gnss_}' = ToSet(gnss.pending)
    BY <1>1 DEF ToSet
  <2> QED BY <2>1, <2>2, <2>3 DEF GnssWaits
<1>19. ImagesWait'
  <2>1. {r \in received' \ dropped' : r.slot \in Cameras /\ Waiting(r)'} =
          {r \in ImageQ : IsPending(kfs, r.t)} \ gone
    <3>1. \A r \in received : r \in Readings
      BY StepTypes
    <3> QED BY <1>1, <1>9, <1>11, <1>17, <3>1 DEF Waiting
  <2>2. \A r \in dropped' : r.slot \in Cameras
    BY <1>9, <1>11 DEF IInv, ImagesWait
  <2>3. ToSet(pending_images_)' = ToSet(pending_images_')
    BY DEF ToSet
  <2> QED BY <1>9, <2>1, <2>2, <2>3 DEF ImagesWait
<1>20. DroppedAreOld'
  BY <1>1, <1>9, <1>11 DEF IInv, DroppedAreOld, IsOutdatedBy, TooOld
<1>21. DroppedMissNoNewKeyframe'
  <2> SUFFICES ASSUME NEW r \in dropped', NEW k \in 1..(n + 1), kfs[k] >= r.t
               PROVE  abs_time_diff(kfs[k], r.t) > image_max_time_offset
    BY <1>1, <1>3 DEF DroppedMissNoNewKeyframe
  <2>1. r \in Readings /\ r.t \in Int /\ kfs[k] \in Int /\ r.t \in Times
    <3>1. r \in Readings
      BY <1>9, <1>11, StepTypes
    <3> QED BY <1>3, <3>1, ReadingTypes, LastOf
  <2>2. r \in dropped
    <3> SUFFICES ASSUME r \in gone PROVE FALSE
      BY <1>9
    <3>1. IsPending(kfs, r.t) /\ k \in DOMAIN kfs
      BY <1>3, <1>9
    <3>2. kfs[k] < r.t
      BY <1>3, <2>1, <3>1, StampsBefore
    <3> QED BY <2>1, <3>2
  <2>3. CASE k \in 1..n
    BY <1>3, <2>2, <2>3 DEF IInv, DroppedMissNoNewKeyframe
  <2>4. CASE k = n + 1
    <3>1. PICK l \in received : IsOutdatedBy(r, l)
      BY <2>2 DEF IInv, DroppedAreOld
    <3>2. /\ l.slot \in Cameras /\ l.t \in Int
          /\ l.t - r.t > image_max_time_offset + FRONT_END_LAG_MARGIN
      BY <3>1, StepTypes, ReadingTypes DEF IsOutdatedBy
    <3>3. t >= l.t - FrontEndLag
      BY <1>2, <3>2
    <3>4. FrontEndLag \in Nat /\ FrontEndLag <= FRONT_END_LAG_MARGIN
          /\ FRONT_END_LAG_MARGIN \in Nat /\ image_max_time_offset \in Nat
      BY TimesAssumption
    <3>5. t - r.t > image_max_time_offset /\ t >= r.t
      BY <1>3, <2>1, <3>2, <3>3, <3>4
    <3>6. abs_time_diff(t, r.t) = t - r.t
      BY <1>3, <2>1, <3>5, Distances
    <3> QED BY <1>3, <2>4, <3>5, <3>6
  <2> QED BY <1>3, <2>3, <2>4
<1>22. HasClosest(stamps, nearest, received \ dropped)'
  <2>1. GnssQ \subseteq Readings /\ ImageQ \subseteq Readings /\ Old \subseteq Readings
    BY <1>11, StepTypes
  <2>2. HasClosest(kfs, gnss.near, Old \cup GnssQ)
    BY <1>5, <1>6, <2>1 DEF Outcome
  <2>3. HasClosest(kfs, images.near, (Old \cup GnssQ) \cup ImageQ)
    BY <1>8, <2>1, <2>2 DEF Outcome
  <2>4. \A r : ~IsPending(kfs, r.t) =>
          (r \in (Old \cup GnssQ) \cup ImageQ <=> r \in received' \ dropped')
    <3> TAKE r
    <3> HAVE ~IsPending(kfs, r.t)
    <3>1. r \notin gone /\ dropped' = dropped \cup gone /\ received' = received
      BY <1>1, <1>9
    <3>2. r \in Old <=> r \in received \ dropped /\ ~Waiting(r)
      BY DEF Waiting
    <3>3. r \in GnssQ => r \notin dropped
      BY <1>11, StepTypes DEF IInv, ImagesWait
    <3>4. r \in received => r.slot \in Cameras \/ r.slot = Gnss
      BY StepTypes
    <3> HIDE DEF Old
    <3> QED BY <1>11, <3>1, <3>2, <3>3, <3>4
  <2>5. HasClosest(kfs, images.near, received' \ dropped')
    BY <2>3, <2>4, SameClosest
  <2>6. HasClosest(stamps', nearest', received' \ dropped')
    BY <1>1, <2>5
  <2> QED BY <2>6 DEF HasClosest, IsClosest, Candidates, IsNear, NearestIn, IsPending
<1>23. ImagesTracked'
  <2>1. \A k \in 1..(n + 1), s \in Cameras :
          base[k][s] # None <=> <<k, s>> \in unwritten_images_ \cup written
    <3> TAKE k \in 1..(n + 1), s \in Cameras
    <3>1. CASE k \in 1..n
      BY <1>3, <1>5, <3>1 DEF IInv, ImagesTracked
    <3>2. CASE k = n + 1
      <4>1. k \notin DOMAIN stamps
        BY <1>3, <3>2
      <4>2. base[k][s] = None
        BY <1>5, <3>2 DEF NoReadings, Slots
      <4> QED BY <4>1, <4>2 DEF IInv, TypeInv
    <3> QED BY <1>3, <3>1, <3>2
  <2>2. \A k \in 1..(n + 1), s \in Cameras :
          images.near[k][s] # None <=> <<k, s>> \in unwritten_images_' \cup written'
    <3> TAKE k \in 1..(n + 1), s \in Cameras
    <3>1. /\ images.near[k][s] # gnss.near[k][s] => <<k, s>> \in images.new
          /\ <<k, s>> \in images.new => images.near[k][s] # None
          /\ gnss.near[k][s] # None => images.near[k][s] # None
      BY <1>3, <1>8 DEF Outcome, Slots
    <3> QED BY <1>1, <1>12, <2>1, <3>1
  <2>3. ASSUME NEW k \in 1..(n + 1), NEW s \in Cameras, <<k, s>> \in written'
        PROVE  /\ s \notin KeptCameras =>
                    [slot |-> s, t |-> images.near[k][s]] \in image_writes_' \cup files'
               /\ IsOvertaken(k, s)'
    <3>1. k \in 1..n /\ <<k, s>> \in written
      BY <1>1, <1>3, <2>3 DEF IInv, TypeInv
    <3>2. images.near[k][s] = nearest[k][s] /\ kfs[k] = stamps[k]
      BY <1>3, <1>14, <3>1
    <3>3. IsOvertaken(k, s)
      BY <1>2, <1>3, <3>1 DEF IInv, ImagesTracked
    <3>4. k < Len(kfs)
      BY <1>3, <1>4, <3>1
    <3>5. IsOvertaken(k, s)'
      BY <1>1, <3>2, <3>3, <3>4 DEF IsOvertaken
    <3> QED BY <1>1, <1>3, <3>1, <3>2, <3>5 DEF IInv, ImagesTracked
  <2>4. \A k \in DOMAIN stamps', s \in Cameras : <<k, s>> \in written' => IsOvertaken(k, s)'
    BY <1>1, <1>3, <2>3
  <2>5. \A k \in DOMAIN stamps', s \in Cameras : <<k, s>> \in written' /\ s \notin KeptCameras =>
            [slot |-> s, t |-> images.near[k][s]] \in image_writes_' \cup files'
    BY <1>1, <1>3, <2>3
  <2>6. \A k \in DOMAIN stamps', s \in Cameras :
          nearest'[k][s] # None <=> <<k, s>> \in unwritten_images_' \cup written'
    BY <1>1, <1>3, <2>2
  <2> QED BY <1>1, <2>4, <2>5, <2>6 DEF ImagesTracked
<1>24. PhaseInv'
  BY <1>1, <1>2 DEF PhaseInv
<1> QED BY <1>15, <1>16, <1>18, <1>19, <1>20, <1>21, <1>22, <1>23, <1>24 DEF IInv

-----------------------------------------------------------------------------
(***************************************************************************)
(* The background writer and finalize() keep it.                           *)
(***************************************************************************)
LEMMA EndInv ==
  ASSUME IInv, DiskWrite \/ Finalize \/ FinishImages \/ SaveOutputs \/ UNCHANGED vars
  PROVE  IInv' /\ UNCHANGED nearest
<1>1. UNCHANGED inputVars
  BY DEF DiskWrite, Finalize, FinishImages, SaveOutputs, vars
<1>2. /\ GnssWaits' /\ ImagesWait' /\ DroppedAreOld' /\ DroppedMissNoNewKeyframe'
      /\ \/ TypeInv'
         \/ ~ /\ unwritten_images_' \subseteq (DOMAIN stamps) \X Cameras
              /\ written' \subseteq (DOMAIN stamps) \X Cameras
              /\ phase' \in {"running", "finalized", "waiting", "saved"}
  BY <1>1 DEF IInv, inputVars, TypeInv, Increasing, Distinct, GnssWaits, ImagesWait, Waiting, ToSet,
              DroppedAreOld, IsOutdatedBy, DroppedMissNoNewKeyframe
<1>3. HasClosest(stamps, nearest, received \ dropped)'
  <2>1. HasClosest(stamps', nearest', received' \ dropped')
    BY <1>1 DEF IInv, inputVars
  <2> QED BY <2>1 DEF HasClosest, IsClosest, Candidates, IsNear, NearestIn, IsPending
<1>4. \A k, s : IsOvertaken(k, s) <=> IsOvertaken(k, s)'
  BY <1>1 DEF IsOvertaken, inputVars
<1>5. stamps' = stamps /\ nearest' = nearest
  BY <1>1 DEF inputVars
<1>6. TypeInv /\ ImagesTracked /\ PhaseInv
  BY DEF IInv
<1> SUFFICES TypeInv' /\ ImagesTracked' /\ PhaseInv'
  BY <1>2, <1>3, <1>5 DEF IInv
<1> HIDE DEF IsOvertaken, IInv
<1>7. CASE DiskWrite
  <2>1. PICK r \in image_writes_ : image_writes_' = image_writes_ \ {r} /\ files' = files \cup {r}
    BY <1>7 DEF DiskWrite
  <2>2. unwritten_images_' = unwritten_images_ /\ written' = written /\ phase' = phase
    BY <1>7 DEF DiskWrite
  <2>3. \A x : x \in image_writes_ \cup files => x \in image_writes_' \cup files'
    BY <2>1
  <2>4. TypeInv'
    BY <1>2, <1>6, <2>2 DEF TypeInv
  <2>5. ImagesTracked'
    BY <1>4, <1>5, <1>6, <2>2, <2>3 DEF ImagesTracked
  <2>6. PhaseInv'
    BY <1>6, <2>1, <2>2 DEF PhaseInv
  <2> QED BY <2>4, <2>5, <2>6
<1>8. CASE Finalize \/ SaveOutputs \/ UNCHANGED vars
  <2>1. /\ unwritten_images_' = unwritten_images_ /\ written' = written
        /\ image_writes_' = image_writes_ /\ files' = files
        /\ \/ phase' = "finalized"
           \/ phase = "waiting" /\ phase' = "saved" /\ image_writes_ = {}
           \/ phase' = phase
    BY <1>8 DEF Finalize, SaveOutputs, AllWritten, vars, imageVars
  <2>2. TypeInv'
    BY <1>2, <1>6, <2>1 DEF TypeInv
  <2>3. phase' = "running" => phase = "running"
    BY <2>1
  <2>4. ImagesTracked'
    BY <1>4, <1>5, <1>6, <2>1, <2>3 DEF ImagesTracked
  <2>5. PhaseInv'
    BY <1>6, <2>1 DEF PhaseInv
  <2> QED BY <2>2, <2>4, <2>5
<1>9. CASE FinishImages
  <2> DEFINE saved == {[slot |-> e[2], t |-> nearest[e[1]][e[2]]] :
                         e \in {d \in unwritten_images_ : d[2] \notin KeptCameras}}
  <2>1. /\ unwritten_images_' = {} /\ written' = written \cup unwritten_images_
        /\ image_writes_' = image_writes_ \cup saved
        /\ files' = files /\ phase' = "waiting"
    BY <1>9 DEF FinishImages, Finish
  <2>2. TypeInv'
    BY <1>2, <1>6, <2>1 DEF TypeInv
  <2>3. ASSUME NEW k \in DOMAIN stamps, NEW s \in Cameras, <<k, s>> \in written', s \notin KeptCameras
        PROVE  [slot |-> s, t |-> nearest[k][s]] \in image_writes_' \cup files'
    <3>1. CASE <<k, s>> \in written
      BY <1>6, <2>1, <2>3, <3>1 DEF ImagesTracked
    <3>2. CASE <<k, s>> \in unwritten_images_
      <4> DEFINE e == <<k, s>>
      <4>1. e \in {d \in unwritten_images_ : d[2] \notin KeptCameras} /\ e[1] = k /\ e[2] = s
        BY <2>3, <3>2
      <4> HIDE DEF e
      <4> QED BY <2>1, <4>1
    <3> QED BY <2>1, <2>3, <3>1, <3>2
  <2> HIDE DEF saved
  <2>4. ImagesTracked'
    BY <1>5, <1>6, <2>1, <2>3 DEF ImagesTracked
  <2>5. PhaseInv'
    BY <2>1 DEF PhaseInv
  <2> QED BY <2>2, <2>4, <2>5
<1> QED BY <1>7, <1>8, <1>9

-----------------------------------------------------------------------------
LEMMA NextInv ==
  ASSUME IInv, [Next]_vars
  PROVE  IInv' /\ \A e \in written : nearest'[e[1]][e[2]] = nearest[e[1]][e[2]]
<1>1. ASSUME NEW r \in Readings, OnGnss(r) PROVE IInv' /\ \A e \in written : nearest'[e[1]][e[2]] = nearest[e[1]][e[2]]
  BY <1>1, OnGnssInv
<1>2. ASSUME NEW r \in Readings, OnImage(r) PROVE IInv' /\ \A e \in written : nearest'[e[1]][e[2]] = nearest[e[1]][e[2]]
  BY <1>2, OnImageInv
<1>3. ASSUME NEW t \in Times, InsertKeyframe(t)
      PROVE IInv' /\ \A e \in written : nearest'[e[1]][e[2]] = nearest[e[1]][e[2]]
  BY <1>3, InsertKeyframeInv
<1>4. ASSUME DiskWrite \/ Finalize \/ FinishImages \/ SaveOutputs \/ UNCHANGED vars
      PROVE IInv' /\ \A e \in written : nearest'[e[1]][e[2]] = nearest[e[1]][e[2]]
  BY <1>4, EndInv
<1> QED BY <1>1, <1>2, <1>3, <1>4 DEF Next

(* The invariant holds at every step of every behavior.                     *)
THEOREM Invariant == Spec => []IInv
<1>1. Init => IInv
  BY InitInv
<1>2. IInv /\ [Next]_vars => IInv'
  BY NextInv
<1> QED BY <1>1, <1>2, PTL DEF Spec

(* Each keyframe has, in each slot, the closest of the readings whose       *)
(* nearest keyframe it is (Mapper.cpp:307-346, 348-403, 453-460).           *)
THEOREM ClosestAttached == Spec => []NearestAttached
<1>1. IInv => NearestAttached
  <2> SUFFICES ASSUME IInv PROVE NearestAttached
    OBVIOUS
  <2>1. \A k \in DOMAIN stamps, s \in Slots : Eligible(k, s) = Candidates(stamps, k, s, received \ dropped)
    BY DEF Eligible, Candidates, IsNear, NearestOfAll, NearestIn, Waiting
  <2> QED BY <2>1 DEF IInv, HasClosest, IsClosest, NearestAttached
<1> QED BY <1>1, Invariant, PTL

(* The GNSS readings that wait are those newer than the newest keyframe     *)
(* (Mapper.cpp:348-360, 453-460).                                           *)
THEOREM NoGnssLost == Spec => []GnssWaits
<1>1. IInv => GnssWaits
  BY DEF IInv
<1> QED BY <1>1, Invariant, PTL

(* An image given up as too old is too far from every keyframe that comes   *)
(* after it (Mapper.cpp:393-402).                                           *)
THEOREM DroppedTooFar == Spec => []DroppedMissNoNewKeyframe
<1>1. IInv => DroppedMissNoNewKeyframe
  BY DEF IInv
<1> QED BY <1>1, Invariant, PTL

(* When the outputs are saved every image in them has been written, except  *)
(* those that are kept as they are (Mapper.cpp:972-988).                    *)
THEOREM SavedAfterFiles == Spec => []OutputsHaveFiles
<1>1. IInv => OutputsHaveFiles
  <2> SUFFICES ASSUME IInv, phase = "saved", NEW k \in DOMAIN stamps,
                      NEW s \in Cameras \ KeptCameras, nearest[k][s] # None
               PROVE  [slot |-> s, t |-> nearest[k][s]] \in files
    BY DEF OutputsHaveFiles
  <2>1. unwritten_images_ = {} /\ image_writes_ = {}
    BY DEF IInv, PhaseInv
  <2>2. <<k, s>> \in written
    BY <2>1 DEF IInv, ImagesTracked
  <2> QED BY <2>1, <2>2 DEF IInv, ImagesTracked
<1> QED BY <1>1, Invariant, PTL

(* An image that has been swapped for its file stays that of the keyframe   *)
(* (Mapper.cpp:405-445).                                                    *)
THEOREM FilesAreFinal == Spec => WrittenIsFinal
<1>1. IInv /\ [Next]_vars => [\A e \in written : nearest'[e[1]][e[2]] = nearest[e[1]][e[2]]]_vars
  BY NextInv
<1>2. Spec => []IInv
  BY Invariant
<1> QED BY <1>1, <1>2, PTL DEF Spec, WrittenIsFinal
=============================================================================

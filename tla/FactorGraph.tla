----------------------------- MODULE FactorGraph -----------------------------
(***************************************************************************)
(* The factors that optimize_global_graph() builds (GlobalGraph.cpp), and  *)
(* the initial guesses that mola-mapper-reoptimize chains for it.          *)
(*                                                                         *)
(* An input has keyframes, loops, a datum and a guess of the transform to  *)
(* ENU.  A keyframe has its source frame, its pose in it, the initial      *)
(* guess, and whether it has a gyroscope rotation, a GNSS reading and      *)
(* gravity.  A loop has its two ends and the pose of one seen from the     *)
(* other.  Noise models and the optimization itself, which are             *)
(* real-valued, are left to GTSAM.                                         *)
(***************************************************************************)
EXTENDS Sequences, FiniteSets, LinePoses

CONSTANTS use_gyro, use_gnss, use_imu_gravity, georef_min_gnss_factors

ASSUME ParametersAssumption ==
  /\ {use_gyro, use_gnss, use_imu_gravity} \subseteq BOOLEAN
  /\ georef_min_gnss_factors \in Nat

None == "none"
T == 0                                    \* T_enu_to_map; P(i) is i

Poses(in) == DOMAIN in.keyframes
Variables(in) == Poses(in) \cup {T}

-----------------------------------------------------------------------------
(* A factor has its kind, its variables and, for relative poses, what was   *)
(* measured.                                                                *)
Between(kind, i, j, rel) == [kind |-> kind, of |-> {i, j}, rel |-> rel]
Unary(kind, v) == [kind |-> kind, of |-> {v}, rel |-> Origin]

SameSource(in, i) == in.keyframes[i - 1].source_frame = in.keyframes[i].source_frame

SourceStep(in, i) == Minus(in.keyframes[i].pose, in.keyframes[i - 1].pose)
GuessStep(in, i) == Minus(in.keyframes[i].guess, in.keyframes[i - 1].guess)

OdometryFactors(in) ==
  {IF SameSource(in, i)
   THEN Between("odometry", i - 1, i, SourceStep(in, i))
   ELSE Between("weak", i - 1, i, GuessStep(in, i)) : i \in Poses(in) \ {1}}

GyroFactors(in) ==
  {Between("gyro", i - 1, i, Origin) :
     i \in {k \in Poses(in) \ {1} : use_gyro /\ in.keyframes[k].gyro}}

(* Fault: the ends of a loop are taken as they come.                        *)
IsUsedUnchecked(in, lc) == TRUE

IsUsed(in, lc) == {lc.from, lc.to} \subseteq Poses(in) /\ lc.from # lc.to

LoopFactors(in) ==
  {Between("loop", lc.from, lc.to, lc.rel) :
     lc \in {in.loops[n] : n \in {m \in DOMAIN in.loops : IsUsed(in, in.loops[m])}}}

GnssFactors(in, degenerate) ==
  {[kind |-> "gnss", of |-> {T, i}, rel |-> Origin] :
     i \in {k \in Poses(in) : use_gnss /\ ~degenerate /\ in.keyframes[k].gnss}}

GravityFactors(in) ==
  {[kind |-> "gravity", of |-> {T, i}, rel |-> Origin] :
     i \in {k \in Poses(in) : use_imu_gravity /\ in.keyframes[k].gravity}}

Factors(in, degenerate) ==
  {Unary("prior", 1), Unary("prior", T)} \cup OdometryFactors(in) \cup
    LoopFactors(in) \cup GyroFactors(in) \cup GnssFactors(in, degenerate) \cup
    GravityFactors(in)

(* May the result have a geo-reference, if the azimuth is observable?       *)
MayBeGeoreferenced(in, degenerate) ==
  /\ Poses(in) # {}
  /\ Cardinality(GnssFactors(in, degenerate)) >= georef_min_gnss_factors
  /\ \/ in.datum # None
     \/ use_gnss /\ \E i \in Poses(in) : in.keyframes[i].gnss

-----------------------------------------------------------------------------
(* Fault: across sources, the guess itself and not its step is kept.        *)
ChainStepFromChained(in, i, previous) == Minus(in.keyframes[i].guess, previous)

ChainStep(in, i, previous) ==
  IF SameSource(in, i) THEN SourceStep(in, i) ELSE GuessStep(in, i)

(* The initial guesses, chained from the first one.                         *)
Chained(in) ==
  LET guess[i \in Poses(in)] ==
        IF i = 1 THEN in.keyframes[1].guess
        ELSE Plus(guess[i - 1], ChainStep(in, i, guess[i - 1]))
  IN  [in EXCEPT !.keyframes =
         [i \in Poses(in) |-> [in.keyframes[i] EXCEPT !.guess = guess[i]]]]

-----------------------------------------------------------------------------
(* What a solve needs of its factors: they refer to variables that exist,   *)
(* and every pose is tied to the first one, which has a prior, by relative  *)
(* poses (a gyroscope rotation leaves the translation free).                *)
Ties(factors) == {f.of : f \in {g \in factors : g.kind \in {"odometry", "weak", "loop"}}}

Reached(in, ties) ==
  LET reach[n \in 0..Len(in.keyframes)] ==
        IF n = 0 THEN {1}
        ELSE reach[n - 1] \cup UNION {e \in ties : e \cap reach[n - 1] # {}}
  IN  reach[Len(in.keyframes)]

IsWellPosed(in, factors) ==
  /\ \A f \in factors : f.of \subseteq Variables(in)
  /\ Poses(in) \subseteq Reached(in, Ties(factors))
=============================================================================

------------------------------ MODULE LinePoses ------------------------------
(***************************************************************************)
(* Poses on a line, for the poses of the code (mrpt::poses::CPose3D): a    *)
(* place and the direction one faces.  Like those they compose, but not in *)
(* any order, so that a wrong order or direction shows.                    *)
(***************************************************************************)
EXTENDS Integers

LinePose(x, dir) == [x |-> x, dir |-> dir]                \* dir is 1 or -1
PosesOnLine == [x : Int, dir : {1, -1}]
Origin == LinePose(0, 1)

(* p + q: q seen from p, in the frame of p.                                 *)
Plus(p, q) == LinePose(p.x + p.dir * q.x, p.dir * q.dir)

(* p - q: p as seen from q.                                                 *)
Minus(p, q) == LinePose(q.dir * (p.x - q.x), q.dir * p.dir)

Opposite(p) == Minus(Origin, p)

Norm(p) == IF p.x < 0 THEN -p.x ELSE p.x
AngleDeg(p) == IF p.dir = 1 THEN 0 ELSE 180
=============================================================================

------------------------------ MODULE LogEntries ------------------------------
(***************************************************************************)
(* A keyframe request as an entry of the input log (MapperInputLog.cpp:    *)
(* encode(), decode()): a sensory frame of its observations and a comment  *)
(* with the rest of the request in lines.                                  *)
(*                                                                         *)
(* A request has its stamp, source frame, pose, gyroscope bias and         *)
(* observations.  A point cloud is shared with its owner, who may change   *)
(* or unload it: until it is copied, its points are those that `memory'    *)
(* has for it.  Numbers are written so that they read back as they were.   *)
(***************************************************************************)
EXTENDS Sequences, SequencesExt

CONSTANT Clouds             \* the point clouds in memory

KEYFRAME_LABEL == "mapper_keyframe_request"
LineKeys == {"source_frame_id", "quality", "pose", "cov", "gyro_bias"}

Cloud(points) == [type |-> "cloud", label |-> "lidar", points |-> points]
Comment(label, stamp, text) ==
  [type |-> "comment", label |-> label, timestamp |-> stamp, text |-> text]

PointsIn(memory, o) ==
  IF o.type = "cloud" /\ o.points \in Clouds
  THEN [o EXCEPT !.points = memory[o.points]]
  ELSE o

(* Fault: the log shares the point clouds with their owners.                *)
SelfContainedShared(memory, o) == o

(* An observation as stored in the log: point clouds deep-copied.           *)
SelfContained(memory, o) == PointsIn(memory, o)

RequestLines(kf) ==
  [source_frame_id |-> kf.source_frame_id, quality |-> kf.quality,
   pose |-> kf.pose, cov |-> kf.cov, gyro_bias |-> kf.gyro_bias]

Encoded(memory, kf) ==
  Append([i \in DOMAIN kf.observations |-> SelfContained(memory, kf.observations[i])],
         Comment(KEYFRAME_LABEL, kf.timestamp, RequestLines(kf)))

(* A sensory frame as it is written, with the points that memory has then.  *)
Written(memory, sf) == [i \in DOMAIN sf |-> PointsIn(memory, sf[i])]

IsRequest(o) == o.type = "comment" /\ o.label = KEYFRAME_LABEL

(* Of a frame that is decoded: when a comment has a request, its lines are  *)
(* added to those of earlier ones, of which it replaces the ones of the     *)
(* same keys.                                                               *)
DecodeStep(kf, o) ==
  IF IsRequest(o)
  THEN [kf EXCEPT !.timestamp = o.timestamp,
                  !.lines = [k \in DOMAIN kf.lines \cup DOMAIN o.text |->
                               IF k \in DOMAIN o.text THEN o.text[k] ELSE kf.lines[k]]]
  ELSE [kf EXCEPT !.observations = Append(kf.observations, o)]

DecodedFrame(sf) ==
  FoldLeft(DecodeStep, [timestamp |-> 0, lines |-> <<>>, observations |-> <<>>], sf)

IsComplete(sf) == DOMAIN DecodedFrame(sf).lines = LineKeys

Decoded(sf) ==
  LET kf == DecodedFrame(sf)
  IN  [type |-> "keyframe", timestamp |-> kf.timestamp,
       source_frame_id |-> kf.lines["source_frame_id"], quality |-> kf.lines["quality"],
       pose |-> kf.lines["pose"], cov |-> kf.lines["cov"],
       gyro_bias |-> kf.lines["gyro_bias"], observations |-> kf.observations]
=============================================================================

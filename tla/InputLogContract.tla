--------------------------- MODULE InputLogContract ---------------------------
(***************************************************************************)
(* What a recording of the mapper input promises (MapperInputLog.h): the   *)
(* file has the accepted entries in the order in which they were accepted, *)
(* all of them if the recording was closed without a write error, and      *)
(* otherwise those before some point.                                      *)
(***************************************************************************)
EXTENDS Naturals, Sequences

CONSTANT Entries    \* what can be recorded

VARIABLES
  accepted,   \* the entries accepted so far, in order
  phase,      \* "open", "closing", "failed", "stored" or "cut"
  stored      \* the complete entries in the file, once nothing writes it

vars == <<accepted, phase, stored>>

Init == accepted = <<>> /\ phase = "open" /\ stored = <<>>

Accept ==
  /\ phase = "open"
  /\ \E e \in Entries : accepted' = Append(accepted, e)
  /\ UNCHANGED <<phase, stored>>

Close ==
  /\ phase = "open"
  /\ phase' = "closing"
  /\ UNCHANGED <<accepted, stored>>

(* A write error: the run goes on without its recording.                    *)
Fail ==
  /\ phase \in {"open", "closing"}
  /\ phase' = "failed"
  /\ UNCHANGED <<accepted, stored>>

Store ==
  /\ phase = "closing"
  /\ phase' = "stored"
  /\ stored' = accepted
  /\ UNCHANGED accepted

(* The process is killed, or closes a recording that had failed.            *)
Cut ==
  /\ phase \in {"open", "closing", "failed"}
  /\ phase' = "cut"
  /\ \E n \in 0..Len(accepted) : stored' = SubSeq(accepted, 1, n)
  /\ UNCHANGED accepted

Next == Accept \/ Close \/ Fail \/ Store \/ Cut

Spec == Init /\ [][Next]_vars
=============================================================================

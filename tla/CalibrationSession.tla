------------------------- MODULE CalibrationSession -------------------------
(***************************************************************************)
(* What a locked flow calibration promises its user: the requested         *)
(* iterations run one after the other, each is queued once and only after  *)
(* the one before it was counted, and an ended session never changes.      *)
(*                                                                         *)
(* The promise is void once two handlers worked on one delivery, which a   *)
(* broker connection lost under a running handler brings about: the        *)
(* session row has no lock (see exclusive).                                *)
(***************************************************************************)
EXTENDS Naturals

CONSTANT Iterations

VARIABLES
  status,     \* "none" before the user starts the session
  done,       \* iterations counted in the session
  launched,   \* iterations queued for simulation
  exclusive   \* no two handlers ever worked on one delivery

vars == <<status, done, launched, exclusive>>

Init ==
  /\ status = "none"
  /\ done = 0
  /\ launched = 0
  /\ exclusive = TRUE

Start ==
  /\ status = "none"
  /\ status' = "running"
  /\ UNCHANGED <<done, launched>>

\* The next iteration is queued when every earlier one is counted.
Launch ==
  /\ status = "running"
  /\ launched = done
  /\ launched < Iterations
  /\ launched' = launched + 1
  /\ UNCHANGED <<status, done>>

Count ==
  /\ status = "running"
  /\ done < launched
  /\ done' = done + 1
  /\ status' = IF done' = Iterations THEN "completed" ELSE "running"
  /\ UNCHANGED launched

\* A session fails with or without counting the iteration that ended it.
Fail ==
  /\ status = "running"
  /\ status' = "failed"
  /\ done' \in {done, done + 1}
  /\ done' <= launched
  /\ UNCHANGED launched

Next ==
  \/ exclusive /\ exclusive' = exclusive /\ (Start \/ Launch \/ Count \/ Fail)
  \/ exclusive' = FALSE

Spec == Init /\ [][Next]_vars

=============================================================================

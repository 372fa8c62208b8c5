------------------------------ MODULE JobQueue ------------------------------
(***************************************************************************)
(* What the durable work queues promise a publisher: a submitted job is    *)
(* attempted until it is done or, after a second attempt, set aside in the *)
(* dead queue.  It is done only if a handler processed it, and its fate    *)
(* never changes again.  Nothing is said of brokers, connections, workers  *)
(* or crashes: module WorkerRuntime implements this specification.         *)
(***************************************************************************)
CONSTANTS
  Messages,   \* the jobs
  Malformed   \* jobs no handler is ever given: their body does not decode

VARIABLES
  fate,       \* where each job is in its life
  processed   \* jobs that a handler ran to a normal end

vars == <<fate, processed>>

Fates == {"unsent", "fresh", "retry", "done", "dead"}

Init ==
  /\ fate = [m \in Messages |-> "unsent"]
  /\ processed = {}

Submit(m) ==
  /\ fate[m] = "unsent"
  /\ fate' = [fate EXCEPT ![m] = "fresh"]
  /\ UNCHANGED processed

\* A handler of a submitted job ends normally.  The job may be settled
\* already: a worker that lost its connection still ends what it started.
Process(m) ==
  /\ fate[m] # "unsent"
  /\ m \notin Malformed
  /\ processed' = processed \cup {m}
  /\ UNCHANGED fate

Retry(m) ==
  /\ fate[m] = "fresh"
  /\ fate' = [fate EXCEPT ![m] = "retry"]
  /\ UNCHANGED processed

Complete(m) ==
  /\ fate[m] \in {"fresh", "retry"}
  /\ m \in processed
  /\ fate' = [fate EXCEPT ![m] = "done"]
  /\ UNCHANGED processed

Bury(m) ==
  /\ \/ fate[m] = "retry"
     \/ fate[m] = "fresh" /\ m \in Malformed
  /\ fate' = [fate EXCEPT ![m] = "dead"]
  /\ UNCHANGED processed

Next ==
  \E m \in Messages :
    \/ Submit(m)
    \/ Process(m)
    \/ Retry(m)
    \/ Complete(m)
    \/ Bury(m)

Spec == Init /\ [][Next]_vars

=============================================================================

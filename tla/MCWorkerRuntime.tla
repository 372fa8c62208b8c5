--------------------------- MODULE MCWorkerRuntime ---------------------------
(***************************************************************************)
(* Two workers and three messages, one of them malformed: enough for one   *)
(* message to be held by one worker while another worker, or the same one  *)
(* after a lost connection, takes it again.                                *)
(***************************************************************************)
EXTENDS WorkerRuntime

CONSTANTS w1, w2, m1, m2, bad

MCWorkers == {w1, w2}
MCMessages == {m1, m2, bad}
MCMalformed == {bad}

=============================================================================

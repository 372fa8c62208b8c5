--------------------------- MODULE MCRunLifecycle ---------------------------
EXTENDS RunLifecycle, TLC

CONSTANTS w1, w2, r1

MCWorkers == {w1, w2}
MCRuns == {r1}

\* Workers are interchangeable: sound for the safety runs.
MCSymmetry == Permutations(MCWorkers)

\* Bound: what NoAbandonedRun excludes is not explored further.
MCLossesAlone == faults.loss = 0 \/ HandlersEnd

=============================================================================

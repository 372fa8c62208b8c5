------------------------- MODULE MCFlowCalibration -------------------------
EXTENDS FlowCalibration

CONSTANTS a1, a2

MCWorkers == {a1, a2}

=============================================================================

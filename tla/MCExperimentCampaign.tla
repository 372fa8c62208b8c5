------------------------ MODULE MCExperimentCampaign ------------------------
EXTENDS ExperimentCampaign

MCBudget == [volume_routing |-> 1, shape |-> 3, joint |-> 1]
MCDesign == [volume_routing |-> 1, shape |-> 1, joint |-> 1]

=============================================================================

------------------------ MODULE MCOrchestrateWorkflow ------------------------
EXTENDS OrchestrateWorkflow, TLC

JobSymmetry == Permutations(Job)
=============================================================================

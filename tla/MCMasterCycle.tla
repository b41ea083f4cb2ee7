---------------------------- MODULE MCMasterCycle ----------------------------
EXTENDS MasterCycle
=============================================================================

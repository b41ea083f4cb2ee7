---------------------------- MODULE MCWorkerLoop ----------------------------
EXTENDS WorkerLoop
=============================================================================

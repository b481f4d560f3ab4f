--------------------------- MODULE MCRunExecution ---------------------------
\* Small instances of RunExecution for TLC.
EXTENDS RunExecution, TLC

CONSTANTS w1, w2, j1

MCWorkers == {w1, w2}
MCOneWorker == {w1}
MCJobs == {j1}

\* Workers differ in nothing but their id.
WorkerSymmetry == Permutations(MCWorkers)
=============================================================================

---------------------------- MODULE MCWorkerPool ----------------------------
\* Small instances of the worker pool.
EXTENDS WorkerPool

CONSTANTS w1, w2, c1, c2

TwoWorkers == {w1, w2}
TwoClients == {c1, c2}
============================================================================

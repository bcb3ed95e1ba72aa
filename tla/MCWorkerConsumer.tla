-------------------------- MODULE MCWorkerConsumer --------------------------
\* Instances of WorkerConsumer for TLC: the bounds are in the configuration.
EXTENDS WorkerConsumer
=============================================================================

-------------------------- MODULE MCWorkerService --------------------------
EXTENDS WorkerService, TLC

CONSTANTS n1, n2, s1

\* The stream is moved from the first node to the second one.
Moved == (n1 :> <<{s1}, {}>>) @@ (n2 :> <<{}, {s1}>>)
=============================================================================

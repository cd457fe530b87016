------------------------------- MODULE Queues -------------------------------
(* The order of the requests in the queue of a resource (simpy/__init__.py, *)
(* Resource): its users first, then those that wait.                        *)
EXTENDS Integers, Sequences, SequencesExt

\* Request a is ahead of b in queue q.
Before(q, a, b) == \E i, j \in DOMAIN q : i < j /\ q[i] = a /\ q[j] = b
=============================================================================

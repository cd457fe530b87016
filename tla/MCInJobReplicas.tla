-------------------------- MODULE MCInJobReplicas --------------------------
(* InJobReplicas for TLC: pieces on the disk of a neighbour, and racks.    *)
EXTENDS InJobReplicas

MCDark == {[strategy |-> "injob_ssd", ranks |-> 2, peers |-> 1, store |-> 0, racks |-> TRUE,
            intact |-> FALSE]}
=============================================================================

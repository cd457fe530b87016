---------------------------- MODULE MCLargeScale ----------------------------
(* LargeScale for TLC: an aggregate job that fails beside a chunked one.    *)
EXTENDS LargeScale

CONSTANTS a, b

Job(chunked) == [chunked |-> chunked, tiered |-> TRUE, synchronous |-> FALSE,
                 fails |-> ~chunked, every |-> 1]

MCSettings == {[j \in {a, b} |-> Job(j = b)]}
=============================================================================

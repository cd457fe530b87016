-------------------------- MODULE MCCrossJobStitch --------------------------
(* CrossJob for TLC: pieces that wait in DRAM for their demotion to be drained. *)
EXTENDS CrossJob, TLC

DramDrained == {<<"dram", "donor_drain", 2>>}

DonorSymmetry == Permutations(Donor)
=============================================================================

\* Pieces that wait in the donors' DRAM for their demotion.
SPECIFICATION Spec
CONSTANTS
    None = None
    d1 = d1
    d2 = d2
    Donor = {d1, d2}
    K = 2
    DramSlots = 2
    MaxIteration = 2
    MaxFailures = 2
    Settings <- DramDrained
SYMMETRY DonorSymmetry
CHECK_DEADLOCK FALSE
INVARIANT
    StitchIsWhole

----------------------------- MODULE MCCrossJob -----------------------------
(***************************************************************************)
(* CrossJob for TLC and, in behaviours of its own, the board on which the  *)
(* jobs of a run reserve their donors (DonorRegistry): "machine" names     *)
(* what runs.                                                              *)
(***************************************************************************)
EXTENDS CrossJob, DonorRegistry, TLC

\* A parity piece needs a third donor. Pieces in DRAM are also drained, but one donor
\* is enough to see that here: what of it reaches L3 is the question of crossjob_stitch.
AllSettings == {<<"ssd", "donor_drain", 2>>, <<"ssd", "parity_cutoff", 3>>,
                <<"dram", "parity", 3>>, <<"dram", "donor_drain", 1>>}

DonorSymmetry == Permutations(Donor)

CONSTANTS alpha, bravo, charlie,  \* jobs
          a1, a2, b1, b2, c1      \* their slots

VARIABLE machine

allVars == <<machine, vars, registryVars>>

\* Three jobs with five slots, one of them a cohort of two nodes that spans two racks.
Slots == {a1, a2, b1, b2, c1}
MCRegistered == <<a1, b1, a2, c1, b2>>
MCJob == <<alpha, bravo, charlie>>
MCHomeJob == (a1 :> alpha) @@ (a2 :> alpha) @@ (b1 :> bravo) @@ (b2 :> bravo) @@ (c1 :> charlie)
MCRepresents == [s \in Slots |-> IF s = c1 THEN 2 ELSE 1]
MCRacks == (a1 :> {1}) @@ (a2 :> {2}) @@ (b1 :> {2}) @@ (b2 :> {3}) @@ (c1 :> {3, 4})
MCAllowed == (alpha :> {}) @@ (bravo :> {alpha}) @@ (charlie :> {alpha, bravo})

Of(matching, t, parity, k, grouped) ==
    [matching |-> matching, tier |-> t, parity |-> parity, k |-> k, grouped |-> grouped]

Matchings == {Of("least", "ssd", TRUE, 2, FALSE), Of("least", "dram", FALSE, 2, FALSE),
              Of("spread", "ssd", FALSE, 2, FALSE), Of("spread", "dram", FALSE, 2, TRUE),
              Of("rack", "ssd", TRUE, 2, FALSE), Of("probe", "ssd", FALSE, 2, FALSE),
              Of("probe", "dram", FALSE, 1, FALSE)}

-----------------------------------------------------------------------------
InOwner == machine = "owner"
InBoard == machine = "board"
OwnerOnly == UNCHANGED <<machine, registryVars>>
BoardOnly == UNCHANGED <<machine, vars>>

\* The machine that does not run is in one of its initial states.
MCInit ==
  /\ machine \in {"owner", "board"} /\ Init /\ RegistryInit
  /\ IF InOwner THEN setting = Of("least", "ssd", TRUE, 2, FALSE)
     ELSE backstop = "donor_drain" /\ placement = "ssd"

MCNext ==
  \/ InOwner /\ Next /\ OwnerOnly
  \/ InBoard /\ RegistryNext /\ BoardOnly

MCSpec == MCInit /\ [][MCNext]_allVars
=============================================================================

------------------------------- MODULE Outage -------------------------------
(***************************************************************************)
(* What failure handling promises to everything else in the simulator, in  *)
(* abstract terms.  A worker is up, waiting out a restart delay, or        *)
(* restoring its state.  Each failure signal starts a new generation and   *)
(* puts the worker back at the beginning of its outage, so a worker comes  *)
(* up only through a restart and a restore that no later signal overtook.  *)
(*                                                                         *)
(* FailureController (with clocks, coalescing and batches) and             *)
(* TieredCheckpoint (with the copies that recovery reads) both implement   *)
(* this specification.                                                     *)
(***************************************************************************)
EXTENDS Naturals

CONSTANTS
  Worker,     \* the workers whose failures are sampled
  MaxSignals  \* bound: failure signals each worker may receive

VARIABLES
  phase,      \* phase[w]: where w is in its outage
  generation  \* generation[w]: number of signals w has received

vars == <<phase, generation>>

Phase == {"up", "restart", "restore"}

Init ==
  /\ phase = [w \in Worker |-> "up"]
  /\ generation = [w \in Worker |-> 0]

\* One sampling instant may hit several workers at once.
Signal(batch) ==
  /\ \A w \in batch : generation[w] < MaxSignals[w]
  /\ phase' = [w \in Worker |-> IF w \in batch THEN "restart" ELSE phase[w]]
  /\ generation' =
       [w \in Worker |-> generation[w] + (IF w \in batch THEN 1 ELSE 0)]

Restarted(w) ==
  /\ phase[w] = "restart"
  /\ phase' = [phase EXCEPT ![w] = "restore"]
  /\ UNCHANGED generation

Restored(w) ==
  /\ phase[w] = "restore"
  /\ phase' = [phase EXCEPT ![w] = "up"]
  /\ UNCHANGED generation

Next ==
  \/ \E batch \in (SUBSET Worker) \ {{}} : Signal(batch)
  \/ \E w \in Worker : Restarted(w) \/ Restored(w)

Safe == Init /\ [][Next]_vars

Fairness == \A w \in Worker : WF_vars(Restarted(w)) /\ WF_vars(Restored(w))

Spec == Safe /\ Fairness
=============================================================================

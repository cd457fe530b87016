---------------------------- MODULE MCResources ----------------------------
(***************************************************************************)
(* WorkerResources for TLC and, in behaviours of its own, the queue of one *)
(* of its resources in detail (ResourceQueues): "machine" names what runs. *)
(***************************************************************************)
EXTENDS WorkerResources

\* Nothing but Partner tells the workers of a pair apart, and it is the same map
\* either way.
WorkerSymmetry == Permutations(Rank)

VARIABLES machine, prioritized, users, waiting, made, over, withdrawn

queues == <<prioritized, users, waiting, made, over, withdrawn>>
allVars == <<machine, vars, queues>>

\* The priorities of a flush chunk, of training and of recovery, as in tiered.py.
UsedPriorities == {-10, 0, 10}

\* No caller withdraws a request that waits in a priority queue.
AsUsed == [priority \in BOOLEAN |-> IF priority THEN 0 ELSE 2]

Q == INSTANCE ResourceQueues WITH
       Requests <- 7, Priorities <- UsedPriorities, Capacity <- 2, Withdrawals <- AsUsed,
       queue <- waiting

ASSUME Q!QueueAssumption

-----------------------------------------------------------------------------
InPair == machine = "pair"
InQueue == machine = "queue"
PairOnly == UNCHANGED <<machine, queues>>
QueueOnly == UNCHANGED <<machine, vars>>

\* The machine that does not run is in one of its initial states.
MCInit ==
  /\ machine \in {"pair", "queue"} /\ Init /\ Q!Init
  /\ IF InPair THEN prioritized ELSE nonblocking

MCNext ==
  \/ InPair /\ Next /\ PairOnly
  \/ \E r \in 0..6 :
       \/ InQueue /\ UNCHANGED prioritized /\ Q!Ask(r) /\ QueueOnly
       \/ InQueue /\ UNCHANGED prioritized /\ Q!Release(r) /\ QueueOnly
       \/ InQueue /\ UNCHANGED prioritized /\ Q!Withdraw(r) /\ QueueOnly
  \/ InQueue /\ Q!AllOver /\ QueueOnly

MCSpec == MCInit /\ [][MCNext]_allVars

-----------------------------------------------------------------------------
\* Every queue holds exactly the requests that are out, none of them waits while there
\* is room, and the first by priority and age is served first (WorkerResources.TypeOK,
\* ResourceQueues).
QueuesExact == [](TypeOK /\ Q!TypeOK /\ Q!WorkConserving) /\ Q!ServedInOrder
=============================================================================

----------------------- MODULE WorkerResourcesProofs -----------------------
(***************************************************************************)
(* Theorems about WorkerResources: the queues hold exactly the requests    *)
(* that are out, no circle of processes waits for each other but through a *)
(* capture that holds its GPU, and a recovery is served next; for any      *)
(* transfers, collectives and failures.                                    *)
(***************************************************************************)
EXTENDS WorkerResources, DataLemmas

-----------------------------------------------------------------------------
(* Processes, resources and requests. *)

\* A process is of one kind, and names its worker if it has just one.
LEMMA Kinds ==
  ASSUME NEW t \in Task
  PROVE  \/ t[1] = "work" /\ t[2] \in Rank /\ t \in Training /\ t \notin Shared
         \/ t[1] = "transfer" /\ t \in Shared /\ t \in Training
         \/ t[1] = "collective" /\ t \in Shared /\ t \in Training
         \/ t[1] = "checkpoint" /\ t[2] \in Rank /\ t \notin Training /\ t \notin Shared
         \/ t[1] = "recovery" /\ t[2] \in Rank /\ t = Recovery(t[2]) /\ t \notin Training /\ t \notin Shared
  BY DEF Task, Training, Shared, Work, Checkpoint, Recovery

\* What uses both workers is a transfer or a collective.
LEMMA SharedKinds ==
  Shared \subseteq Task /\ \A t \in Shared : t[1] \in {"transfer", "collective"}
  BY DEF Task, Training, Shared

\* The recovery of a worker.
LEMMA Recoveries ==
  ASSUME NEW r \in Rank
  PROVE  Recovery(r) \in Task /\ Recovery(r)[1] = "recovery" /\ Recovery(r)[2] = r
         /\ Recovery(r) \notin Shared /\ Recovery(r) \notin Training
  BY DEF Task, Recovery, Shared, Training, Work

\* A resource is of one kind, and names its worker if it has one.
LEMMA ResourceKinds ==
  /\ \A r : Gpu(r)[1] = "gpu" /\ Gpu(r)[2] = r /\ Cpu(r)[1] = "cpu" /\ Cpu(r)[2] = r
  /\ Link[1] = "link" /\ Slot[1] = "slot"
  /\ \A r \in Rank : Gpu(r) \in Resource /\ Cpu(r) \in Resource
  /\ Link \in Resource /\ Slot \in Resource
  /\ \A res \in Resource : \/ res[1] = "gpu" /\ res[2] \in Rank /\ res = Gpu(res[2])
                           \/ res[1] = "cpu" /\ res[2] \in Rank /\ res = Cpu(res[2])
                           \/ res = Link
                           \/ res = Slot
  BY DEF Gpu, Cpu, Link, Slot, Resource

\* Places, by kind.
LEMMA PlacesOf ==
  ASSUME NEW t \in Task
  PROVE  /\ t[1] \in {"work", "collective"} => Places(t) = {"new", "wait", "gpu", "run", "done"}
         /\ t[1] = "transfer" => Places(t) = {"new", "wait", "cpu", "launch", "gpu", "run", "done"}
         /\ t[1] = "checkpoint" => Places(t) = {"new", "wait", "cpu", "copy", "done"} \cup Flushing
                                                   \cup (IF nonblocking THEN {} ELSE {"gpu"})
         /\ t[1] = "recovery" =>
              Places(t) = {"idle", "restart", "fetch", "fetching", "restore", "restoring"}
  BY DEF Places

\* What a process has requested, kind by kind.
LEMMA UsesOfWork ==
  ASSUME NEW t \in Task, t[1] = "work", NEW at \in Places(t)
  PROVE  Uses(t, at) = IF at \in {"gpu", "run"} THEN {Gpu(t[2])} ELSE {}
  <1>1. at \in {"new", "wait", "gpu", "run", "done"}
    BY PlacesOf
  <1>2. CASE at \in {"gpu", "run"}
    BY <1>2 DEF Uses
  <1>3. CASE at \in {"new", "wait", "done"}
    BY <1>3 DEF Uses
  <1> QED
    BY <1>1, <1>2, <1>3

\* The same for a collective.
LEMMA UsesOfCollective ==
  ASSUME NEW t \in Task, t[1] = "collective", NEW at \in Places(t)
  PROVE  Uses(t, at) = IF at \in {"gpu", "run"} THEN {Gpu(r) : r \in Rank} ELSE {}
  <1>1. at \in {"new", "wait", "gpu", "run", "done"}
    BY PlacesOf
  <1>2. CASE at \in {"gpu", "run"}
    BY <1>2 DEF Uses
  <1>3. CASE at \in {"new", "wait", "done"}
    BY <1>3 DEF Uses
  <1> QED
    BY <1>1, <1>2, <1>3

\* The same for a pipeline transfer.
LEMMA UsesOfTransfer ==
  ASSUME NEW t \in Task, t[1] = "transfer", NEW at \in Places(t)
  PROVE  Uses(t, at) = IF at \in {"cpu", "launch"} THEN {Cpu(r) : r \in Rank}
                       ELSE IF at \in {"gpu", "run"} THEN {Link} \cup {Gpu(r) : r \in Rank}
                       ELSE {}
  <1>1. at \in {"new", "wait", "cpu", "launch", "gpu", "run", "done"}
    BY PlacesOf
  <1>2. CASE at \in {"cpu", "launch"}
    BY <1>2 DEF Uses, TransferUses
  <1>3. CASE at \in {"gpu", "run"}
    BY <1>3 DEF Uses, TransferUses
  <1>4. CASE at \in {"new", "wait", "done"}
    BY <1>4 DEF Uses, TransferUses
  <1> QED
    BY <1>1, <1>2, <1>3, <1>4

\* The same for a checkpoint, place by place.
LEMMA UsesOfCheckpoint ==
  ASSUME NEW t \in Task, t[1] = "checkpoint", NEW at \in Places(t)
  PROVE  /\ at \in {"new", "wait", "done"} => Uses(t, at) = {}
         /\ at = "gpu" => ~nonblocking /\ Uses(t, at) = {Gpu(t[2])}
         /\ at \in {"cpu", "copy"} /\ nonblocking => Uses(t, at) = {Cpu(t[2])}
         /\ at \in {"cpu", "copy"} /\ ~nonblocking => Uses(t, at) = {Cpu(t[2]), Gpu(t[2])}
         /\ at \in {"ssd", "ssd write"} => Uses(t, at) = {Cpu(t[2])}
         /\ at = "peer slot" => Uses(t, at) = {Slot}
         /\ at \in {"peer", "peer write"} => Uses(t, at) = {Slot, Cpu(t[2])}
         /\ at \in {"peer ssd", "peer ssd write"} => Uses(t, at) = {Cpu(Partner(t[2]))}
         /\ at \in {"new", "wait", "gpu", "cpu", "copy", "done", "ssd", "ssd write",
                    "peer slot", "peer", "peer write", "peer ssd", "peer ssd write"}
  <1>1. at \in {"new", "wait", "done"} => Uses(t, at) = {}
    BY DEF Uses
  <1>2. at = "gpu" => ~nonblocking /\ Uses(t, at) = {Gpu(t[2])}
    <2>1. at = "gpu" => ~nonblocking
      BY PlacesOf DEF Flushing
    <2>2. at = "gpu" => Uses(t, at) = {Gpu(t[2])}
      BY DEF Uses
    <2> QED
      BY <2>1, <2>2
  <1>3. /\ at \in {"cpu", "copy"} /\ nonblocking => Uses(t, at) = {Cpu(t[2])}
        /\ at \in {"cpu", "copy"} /\ ~nonblocking => Uses(t, at) = {Cpu(t[2]), Gpu(t[2])}
    BY DEF Uses
  <1>4. at \in {"ssd", "ssd write"} => Uses(t, at) = {Cpu(t[2])}
    BY DEF Uses
  <1>5. at = "peer slot" => Uses(t, at) = {Slot}
    BY DEF Uses
  <1>6. at \in {"peer", "peer write"} => Uses(t, at) = {Slot, Cpu(t[2])}
    BY DEF Uses
  <1>7. at \in {"peer ssd", "peer ssd write"} => Uses(t, at) = {Cpu(Partner(t[2]))}
    BY DEF Uses
  <1>8. at \in {"new", "wait", "gpu", "cpu", "copy", "done", "ssd", "ssd write",
                "peer slot", "peer", "peer write", "peer ssd", "peer ssd write"}
    BY PlacesOf DEF Flushing
  <1> QED
    BY <1>1, <1>2, <1>3, <1>4, <1>5, <1>6, <1>7, <1>8

\* The same for a recovery.
LEMMA UsesOfRecovery ==
  ASSUME NEW t \in Task, t[1] = "recovery", NEW at \in Places(t)
  PROVE  Uses(t, at) = IF at \in {"fetch", "fetching"} THEN {Cpu(t[2])}
                       ELSE IF at \in {"restore", "restoring"} THEN {Cpu(t[2]), Gpu(t[2])}
                       ELSE {}
  <1>1. at \in {"idle", "restart", "fetch", "fetching", "restore", "restoring"}
    BY PlacesOf
  <1>2. CASE at \in {"fetch", "fetching"}
    BY <1>2 DEF Uses
  <1>3. CASE at \in {"restore", "restoring"}
    BY <1>3 DEF Uses
  <1>4. CASE at \in {"idle", "restart"}
    BY <1>4 DEF Uses
  <1> QED
    BY <1>1, <1>2, <1>3, <1>4

\* Who may have requested a GPU, and where in its code.
LEMMA UsesOfGpu ==
  ASSUME NEW t \in Task, NEW at \in Places(t), NEW r \in Rank, Gpu(r) \in Uses(t, at)
  PROVE  \/ t[1] = "work" /\ t[2] = r /\ at \in {"gpu", "run"}
         \/ t \in Shared /\ at \in {"gpu", "run"}
         \/ t[1] = "checkpoint" /\ t[2] = r /\ ~nonblocking /\ at \in {"gpu", "cpu", "copy"}
         \/ t = Recovery(r) /\ at \in {"restore", "restoring"}
  <1> USE ResourceKinds
  <1>1. CASE t[1] = "work"
    BY <1>1, UsesOfWork
  <1>2. CASE t[1] = "transfer"
    BY <1>2, Kinds, UsesOfTransfer
  <1>3. CASE t[1] = "collective"
    BY <1>3, Kinds, UsesOfCollective
  <1>4. CASE t[1] = "checkpoint"
    <2>1. CASE at \in {"new", "wait", "done"}
      BY <1>4, <2>1, UsesOfCheckpoint, Zenon
    <2>2. CASE at = "gpu"
      <3>1. ~nonblocking /\ Gpu(r) \in {Gpu(t[2])}
        BY <1>4, <2>2, UsesOfCheckpoint, Zenon
      <3> QED
        BY <1>4, <2>2, <3>1
    <2>3. CASE at \in {"cpu", "copy"}
      <3>a. nonblocking => Gpu(r) \in {Cpu(t[2])}
        BY <1>4, <2>3, UsesOfCheckpoint, Zenon
      <3>b. ~nonblocking => Gpu(r) \in {Cpu(t[2]), Gpu(t[2])}
        BY <1>4, <2>3, UsesOfCheckpoint, Zenon
      <3>1. Gpu(r) = Cpu(t[2]) \/ (~nonblocking /\ Gpu(r) = Gpu(t[2]))
        BY <3>a, <3>b
      <3> QED
        BY <1>4, <2>3, <3>1
    <2>4. CASE at \in {"ssd", "ssd write"}
      <3>1. Gpu(r) \in {Cpu(t[2])}
        BY <1>4, <2>4, UsesOfCheckpoint, Zenon
      <3> QED
        BY <1>4, <2>4, <3>1 DEF Flushing
    <2>5. CASE at = "peer slot"
      <3>1. Gpu(r) \in {Slot}
        BY <1>4, <2>5, UsesOfCheckpoint, Zenon
      <3> QED
        BY <1>4, <2>5, <3>1
    <2>6. CASE at \in {"peer", "peer write"}
      <3>1. Gpu(r) \in {Slot, Cpu(t[2])}
        BY <1>4, <2>6, UsesOfCheckpoint, Zenon
      <3> QED
        BY <1>4, <2>6, <3>1 DEF Flushing
    <2>7. CASE at \in {"peer ssd", "peer ssd write"}
      <3>1. Gpu(r) \in {Cpu(Partner(t[2]))}
        BY <1>4, <2>7, UsesOfCheckpoint, Zenon
      <3> QED
        BY <1>4, <2>7, <3>1 DEF Flushing
    <2>8. at \in {"new", "wait", "gpu", "cpu", "copy", "done", "ssd", "ssd write",
                  "peer slot", "peer", "peer write", "peer ssd", "peer ssd write"}
      BY <1>4, UsesOfCheckpoint, Zenon
    <2> QED
      BY <2>1, <2>2, <2>3, <2>4, <2>5, <2>6, <2>7, <2>8
  <1>5. CASE t[1] = "recovery"
    BY <1>5, Kinds, UsesOfRecovery
  <1> QED
    BY <1>1, <1>2, <1>3, <1>4, <1>5, Kinds

\* Who may have requested a CPU.
LEMMA UsesOfCpu ==
  ASSUME NEW t \in Task, NEW at \in Places(t), NEW r \in Rank, Cpu(r) \in Uses(t, at)
  PROVE  \/ t[1] = "transfer" /\ t \in Shared /\ at \in {"cpu", "launch"}
         \/ t[1] = "checkpoint" /\ at \in {"cpu", "copy"} \cup (Flushing \ {"peer slot"})
         \/ t = Recovery(r) /\ at \in {"fetch", "fetching", "restore", "restoring"}
  <1> USE ResourceKinds
  <1>1. CASE t[1] = "work"
    BY <1>1, UsesOfWork
  <1>2. CASE t[1] = "transfer"
    BY <1>2, Kinds, UsesOfTransfer
  <1>3. CASE t[1] = "collective"
    BY <1>3, UsesOfCollective
  <1>4. CASE t[1] = "checkpoint"
    <2>1. CASE at \in {"new", "wait", "done"}
      BY <1>4, <2>1, UsesOfCheckpoint, Zenon
    <2>2. CASE at = "gpu"
      <3>1. ~nonblocking /\ Cpu(r) \in {Gpu(t[2])}
        BY <1>4, <2>2, UsesOfCheckpoint, Zenon
      <3> QED
        BY <1>4, <2>2, <3>1
    <2>3. CASE at \in {"cpu", "copy"}
      <3>a. nonblocking => Cpu(r) \in {Cpu(t[2])}
        BY <1>4, <2>3, UsesOfCheckpoint, Zenon
      <3>b. ~nonblocking => Cpu(r) \in {Cpu(t[2]), Gpu(t[2])}
        BY <1>4, <2>3, UsesOfCheckpoint, Zenon
      <3>1. Cpu(r) = Cpu(t[2]) \/ (~nonblocking /\ Cpu(r) = Gpu(t[2]))
        BY <3>a, <3>b
      <3> QED
        BY <1>4, <2>3, <3>1
    <2>4. CASE at \in {"ssd", "ssd write"}
      <3>1. Cpu(r) \in {Cpu(t[2])}
        BY <1>4, <2>4, UsesOfCheckpoint, Zenon
      <3> QED
        BY <1>4, <2>4, <3>1 DEF Flushing
    <2>5. CASE at = "peer slot"
      <3>1. Cpu(r) \in {Slot}
        BY <1>4, <2>5, UsesOfCheckpoint, Zenon
      <3> QED
        BY <1>4, <2>5, <3>1
    <2>6. CASE at \in {"peer", "peer write"}
      <3>1. Cpu(r) \in {Slot, Cpu(t[2])}
        BY <1>4, <2>6, UsesOfCheckpoint, Zenon
      <3> QED
        BY <1>4, <2>6, <3>1 DEF Flushing
    <2>7. CASE at \in {"peer ssd", "peer ssd write"}
      <3>1. Cpu(r) \in {Cpu(Partner(t[2]))}
        BY <1>4, <2>7, UsesOfCheckpoint, Zenon
      <3> QED
        BY <1>4, <2>7, <3>1 DEF Flushing
    <2>8. at \in {"new", "wait", "gpu", "cpu", "copy", "done", "ssd", "ssd write",
                  "peer slot", "peer", "peer write", "peer ssd", "peer ssd write"}
      BY <1>4, UsesOfCheckpoint, Zenon
    <2> QED
      BY <2>1, <2>2, <2>3, <2>4, <2>5, <2>6, <2>7, <2>8
  <1>5. CASE t[1] = "recovery"
    BY <1>5, Kinds, UsesOfRecovery
  <1> QED
    BY <1>1, <1>2, <1>3, <1>4, <1>5, Kinds

\* Who may have requested the link.
LEMMA UsesOfLink ==
  ASSUME NEW t \in Task, NEW at \in Places(t), Link \in Uses(t, at)
  PROVE  t[1] = "transfer" /\ t \in Shared /\ at \in {"gpu", "run"}
  <1> USE ResourceKinds
  <1>1. CASE t[1] = "work"
    BY <1>1, UsesOfWork
  <1>2. CASE t[1] = "transfer"
    BY <1>2, Kinds, UsesOfTransfer
  <1>3. CASE t[1] = "collective"
    BY <1>3, UsesOfCollective
  <1>4. CASE t[1] = "checkpoint"
    <2>1. CASE at \in {"new", "wait", "done"}
      BY <1>4, <2>1, UsesOfCheckpoint, Zenon
    <2>2. CASE at = "gpu"
      <3>1. ~nonblocking /\ Link \in {Gpu(t[2])}
        BY <1>4, <2>2, UsesOfCheckpoint, Zenon
      <3> QED
        BY <1>4, <2>2, <3>1
    <2>3. CASE at \in {"cpu", "copy"}
      <3>a. nonblocking => Link \in {Cpu(t[2])}
        BY <1>4, <2>3, UsesOfCheckpoint, Zenon
      <3>b. ~nonblocking => Link \in {Cpu(t[2]), Gpu(t[2])}
        BY <1>4, <2>3, UsesOfCheckpoint, Zenon
      <3>1. Link = Cpu(t[2]) \/ (~nonblocking /\ Link = Gpu(t[2]))
        BY <3>a, <3>b
      <3> QED
        BY <1>4, <2>3, <3>1
    <2>4. CASE at \in {"ssd", "ssd write"}
      <3>1. Link \in {Cpu(t[2])}
        BY <1>4, <2>4, UsesOfCheckpoint, Zenon
      <3> QED
        BY <1>4, <2>4, <3>1 DEF Flushing
    <2>5. CASE at = "peer slot"
      <3>1. Link \in {Slot}
        BY <1>4, <2>5, UsesOfCheckpoint, Zenon
      <3> QED
        BY <1>4, <2>5, <3>1
    <2>6. CASE at \in {"peer", "peer write"}
      <3>1. Link \in {Slot, Cpu(t[2])}
        BY <1>4, <2>6, UsesOfCheckpoint, Zenon
      <3> QED
        BY <1>4, <2>6, <3>1 DEF Flushing
    <2>7. CASE at \in {"peer ssd", "peer ssd write"}
      <3>1. Link \in {Cpu(Partner(t[2]))}
        BY <1>4, <2>7, UsesOfCheckpoint, Zenon
      <3> QED
        BY <1>4, <2>7, <3>1 DEF Flushing
    <2>8. at \in {"new", "wait", "gpu", "cpu", "copy", "done", "ssd", "ssd write",
                  "peer slot", "peer", "peer write", "peer ssd", "peer ssd write"}
      BY <1>4, UsesOfCheckpoint, Zenon
    <2> QED
      BY <2>1, <2>2, <2>3, <2>4, <2>5, <2>6, <2>7, <2>8
  <1>5. CASE t[1] = "recovery"
    BY <1>5, UsesOfRecovery
  <1> QED
    BY <1>1, <1>2, <1>3, <1>4, <1>5, Kinds

\* Who may have requested the slot of the peer.
LEMMA UsesOfSlot ==
  ASSUME NEW t \in Task, NEW at \in Places(t), Slot \in Uses(t, at)
  PROVE  t[1] = "checkpoint" /\ at \in {"peer slot", "peer", "peer write"}
  <1> USE ResourceKinds
  <1>1. CASE t[1] = "work"
    BY <1>1, UsesOfWork
  <1>2. CASE t[1] = "transfer"
    BY <1>2, UsesOfTransfer
  <1>3. CASE t[1] = "collective"
    BY <1>3, UsesOfCollective
  <1>4. CASE t[1] = "checkpoint"
    <2>1. CASE at \in {"new", "wait", "done"}
      BY <1>4, <2>1, UsesOfCheckpoint, Zenon
    <2>2. CASE at = "gpu"
      <3>1. ~nonblocking /\ Slot \in {Gpu(t[2])}
        BY <1>4, <2>2, UsesOfCheckpoint, Zenon
      <3> QED
        BY <1>4, <2>2, <3>1
    <2>3. CASE at \in {"cpu", "copy"}
      <3>a. nonblocking => Slot \in {Cpu(t[2])}
        BY <1>4, <2>3, UsesOfCheckpoint, Zenon
      <3>b. ~nonblocking => Slot \in {Cpu(t[2]), Gpu(t[2])}
        BY <1>4, <2>3, UsesOfCheckpoint, Zenon
      <3>1. Slot = Cpu(t[2]) \/ (~nonblocking /\ Slot = Gpu(t[2]))
        BY <3>a, <3>b
      <3> QED
        BY <1>4, <2>3, <3>1
    <2>4. CASE at \in {"ssd", "ssd write"}
      <3>1. Slot \in {Cpu(t[2])}
        BY <1>4, <2>4, UsesOfCheckpoint, Zenon
      <3> QED
        BY <1>4, <2>4, <3>1 DEF Flushing
    <2>5. CASE at = "peer slot"
      <3>1. Slot \in {Slot}
        BY <1>4, <2>5, UsesOfCheckpoint, Zenon
      <3> QED
        BY <1>4, <2>5, <3>1
    <2>6. CASE at \in {"peer", "peer write"}
      <3>1. Slot \in {Slot, Cpu(t[2])}
        BY <1>4, <2>6, UsesOfCheckpoint, Zenon
      <3> QED
        BY <1>4, <2>6, <3>1 DEF Flushing
    <2>7. CASE at \in {"peer ssd", "peer ssd write"}
      <3>1. Slot \in {Cpu(Partner(t[2]))}
        BY <1>4, <2>7, UsesOfCheckpoint, Zenon
      <3> QED
        BY <1>4, <2>7, <3>1 DEF Flushing
    <2>8. at \in {"new", "wait", "gpu", "cpu", "copy", "done", "ssd", "ssd write",
                  "peer slot", "peer", "peer write", "peer ssd", "peer ssd write"}
      BY <1>4, UsesOfCheckpoint, Zenon
    <2> QED
      BY <2>1, <2>2, <2>3, <2>4, <2>5, <2>6, <2>7, <2>8
  <1>5. CASE t[1] = "recovery"
    BY <1>5, UsesOfRecovery
  <1> QED
    BY <1>1, <1>2, <1>3, <1>4, <1>5, Kinds

\* What is requested at a place depends on the mode of captures alone.
LEMMA SameUses ==
  ASSUME nonblocking' = nonblocking
  PROVE  \A t, at : /\ Uses(t, at)' = Uses(t, at)
                    /\ Places(t)' = Places(t)
                    /\ Secured(t, at)' = Secured(t, at)
  BY DEF Uses, Places, Secured

-----------------------------------------------------------------------------
(* No circle of processes waits for each other. *)

\* A queue is that of the requests which are out, each once.
LEMMA QueueFacts ==
  ASSUME Inductive, NEW res \in Resource
  PROVE  /\ queue[res] \in Seq(Task) /\ IsInjective(queue[res])
         /\ ToSet(queue[res]) = {t \in Task : res \in Uses(t, pc[t])}
  BY DEF Inductive, TypeOK, QueuesOfTasks

\* One who waits is behind the head of a queue, whose resource it has not got.
LEMMA Waits ==
  ASSUME Inductive, NEW t \in Task, NEW u \in Task, WaitsFor(t, u)
  PROVE  \E res \in Resource :
            /\ queue[res] # <<>> /\ Head(queue[res]) = u /\ t # u /\ Before(queue[res], u, t)
            /\ res \in Uses(t, pc[t]) /\ res \in Uses(u, pc[u]) /\ res \notin Secured(t, pc[t])
  <1>1. PICK res \in Resource : queue[res] # <<>> /\ Head(queue[res]) = u /\ t \in ToSet(Tail(queue[res]))
    BY DEF WaitsFor
  <1>2. /\ queue[res] \in Seq(Task) /\ IsInjective(queue[res])
        /\ ToSet(queue[res]) = {x \in Task : res \in Uses(x, pc[x])}
    BY QueueFacts
  <1>3. /\ u \in ToSet(queue[res])
        /\ \A a \in ToSet(queue[res]) : a # u => Before(queue[res], u, a)
        /\ ToSet(Tail(queue[res])) = ToSet(queue[res]) \ {u}
    BY <1>1, <1>2, HeadFirst
  <1>4. t \in ToSet(queue[res]) /\ t # u /\ Before(queue[res], u, t)
    BY <1>1, <1>3
  <1>5. res \notin Secured(t, pc[t])
    BY <1>1, <1>4 DEF Inductive, SecuredIsHeld
  <1> QED
    BY <1>1, <1>2, <1>3, <1>4, <1>5

\* The order in which processes that wait and hold something get on: none
\* waits for one of a lower class.
Class(t) ==
    CASE t \in Shared /\ pc[t] = "gpu" -> 5
      [] t[1] = "recovery" /\ pc[t] = "restore" /\ Head(queue[Cpu(t[2])]) = t -> 4
      [] t[1] = "transfer" /\ pc[t] = "cpu" -> 3
      [] t[1] = "recovery" /\ pc[t] = "restore" /\ Head(queue[Cpu(t[2])]) # t -> 2
      [] t[1] = "checkpoint" /\ pc[t] = "peer" -> 1
      [] OTHER -> 0

\* The classes, each by who is in it.
LEMMA Classes ==
  ASSUME Inductive, NEW t \in Task
  PROVE  /\ Class(t) \in 0 .. 5
         /\ Class(t) = 5 <=> t \in Shared /\ pc[t] = "gpu"
         /\ Class(t) = 4 <=> t[1] = "recovery" /\ pc[t] = "restore" /\ Head(queue[Cpu(t[2])]) = t
         /\ Class(t) = 3 <=> t[1] = "transfer" /\ pc[t] = "cpu"
         /\ Class(t) = 2 <=> t[1] = "recovery" /\ pc[t] = "restore" /\ Head(queue[Cpu(t[2])]) # t
         /\ Class(t) = 1 <=> t[1] = "checkpoint" /\ pc[t] = "peer"
  <1>1. CASE t \in Shared
    <2>1. t[1] \in {"transfer", "collective"}
      BY <1>1, SharedKinds
    <2> QED
      BY <1>1, <2>1 DEF Class
  <1>2. CASE t \notin Shared
    <2>1. t[1] # "transfer"
      BY <1>2, Kinds
    <2> QED
      BY <1>2, <2>1 DEF Class
  <1> QED
    BY <1>1, <1>2

\* Secured resources, by place.
LEMMA SecuredPlaces ==
  ASSUME NEW t \in Task, NEW at
  PROVE  /\ at \notin Waiting => Secured(t, at) = Uses(t, at)
         /\ at = "peer" => Secured(t, at) = {Slot}
         /\ t[1] = "checkpoint" /\ at = "cpu" /\ ~nonblocking => Secured(t, at) = {Gpu(t[2])}
  BY DEF Secured, Waiting

\* Who is the head of a queue that another waits in, and waits itself.
LEMMA HeadsThatWait ==
  ASSUME Inductive, NEW u \in Blocked \ SerializedCaptures, NEW res \in Resource,
         queue[res] # <<>>, Head(queue[res]) = u, res \in Uses(u, pc[u]),
         NEW t \in Task, Before(queue[res], u, t)
  PROVE  \/ res[1] \in {"gpu", "link"} /\ Class(u) = 5
         \/ res[1] = "cpu" /\ Class(u) \in {3, 4}
         \/ res[1] = "slot" /\ Class(u) = 1
  <1>1. u \in Task /\ pc[u] \in Places(u)
    BY DEF Blocked, Inductive, Located
  <1>2. PICK other \in Resource :
          /\ Head(queue[other]) # u /\ other \in Uses(u, pc[u]) /\ other \notin Secured(u, pc[u])
    BY Waits DEF Blocked
  <1>3. other # res /\ pc[u] \in Waiting
    BY <1>1, <1>2, SecuredPlaces
  <1>4. CASE res[1] = "gpu"
    <2>1. PICK r \in Rank : res = Gpu(r)
      BY <1>4, ResourceKinds
    <2>2. CASE u[1] = "work" /\ pc[u] \in {"gpu", "run"}
      <3>1. Uses(u, pc[u]) = {Gpu(u[2])}
        BY <1>1, <2>2, UsesOfWork
      <3> QED
        BY <1>2, <1>3, <3>1
    <2>3. CASE u \in Shared /\ pc[u] \in {"gpu", "run"}
      BY <1>1, <1>3, <1>4, <2>3, Classes DEF Waiting
    <2>4. CASE u[1] = "checkpoint" /\ ~nonblocking /\ pc[u] \in {"gpu", "cpu", "copy"}
      <3>1. pc[u] # "copy"
        BY <1>3 DEF Waiting
      <3>2. pc[u] # "cpu"
        BY <1>1, <2>4 DEF SerializedCaptures
      <3>3. Uses(u, pc[u]) = {Gpu(u[2])}
        BY <1>1, <2>4, <3>1, <3>2, UsesOfCheckpoint
      <3> QED
        BY <1>2, <1>3, <3>3
    <2>5. CASE u = Recovery(r)
      BY <2>1, <2>5 DEF Inductive, RecoveryIsLast
    <2> QED
      BY <1>1, <2>1, <2>2, <2>3, <2>4, <2>5, UsesOfGpu
  <1>5. CASE res[1] = "cpu"
    <2>1. PICK r \in Rank : res = Cpu(r)
      BY <1>5, ResourceKinds
    <2>2. CASE u[1] = "transfer" /\ pc[u] \in {"cpu", "launch"}
      BY <1>1, <1>3, <1>5, <2>2, Classes DEF Waiting
    <2>3. CASE u[1] = "checkpoint"
      <3>1. pc[u] \in {"gpu", "cpu", "ssd", "peer slot", "peer", "peer ssd"}
        BY <1>1, <1>3, <2>3, UsesOfCheckpoint DEF Waiting
      <3>2. CASE pc[u] = "cpu"
        <4>1. nonblocking
          BY <1>1, <2>3, <3>2 DEF SerializedCaptures
        <4>2. Uses(u, pc[u]) = {Cpu(u[2])}
          BY <1>1, <2>3, <3>2, <4>1, UsesOfCheckpoint
        <4> QED
          BY <1>2, <1>3, <4>2
      <3>3. CASE pc[u] = "peer"
        <4>a. Uses(u, pc[u]) = {Slot, Cpu(u[2])}
          BY <1>1, <2>3, <3>3, UsesOfCheckpoint
        <4>b. Secured(u, pc[u]) = {Slot}
          BY <1>1, <3>3, SecuredPlaces
        <4>1. Uses(u, pc[u]) = {Slot, Cpu(u[2])} /\ Secured(u, pc[u]) = {Slot}
          BY <4>a, <4>b
        <4>2. Slot[1] = "slot"
          BY ResourceKinds
        <4> QED
          BY <1>2, <1>3, <1>5, <4>1, <4>2
      <3>4. CASE pc[u] \in {"gpu", "ssd", "peer slot", "peer ssd"}
        <4>a. pc[u] = "gpu" => Uses(u, pc[u]) = {Gpu(u[2])}
          BY <1>1, <2>3, UsesOfCheckpoint
        <4>b. pc[u] = "ssd" => Uses(u, pc[u]) = {Cpu(u[2])}
          BY <1>1, <2>3, UsesOfCheckpoint
        <4>c. pc[u] = "peer slot" => Uses(u, pc[u]) = {Slot}
          BY <1>1, <2>3, UsesOfCheckpoint
        <4>d. pc[u] = "peer ssd" => Uses(u, pc[u]) = {Cpu(Partner(u[2]))}
          BY <1>1, <2>3, UsesOfCheckpoint
        <4>1. \E x : Uses(u, pc[u]) = {x}
          BY <3>4, <4>a, <4>b, <4>c, <4>d
        <4> QED
          BY <1>2, <1>3, <4>1
      <3> QED
        BY <3>1, <3>2, <3>3, <3>4
    <2>4. CASE u = Recovery(r)
      <3>1. u[1] = "recovery" /\ u[2] = r
        BY <2>4, Recoveries
      <3>2. pc[u] \in {"fetch", "restore"}
        BY <1>1, <1>3, <3>1, PlacesOf DEF Waiting
      <3>3. pc[u] # "fetch"
        <4>1. pc[u] = "fetch" => Uses(u, pc[u]) = {Cpu(u[2])}
          BY <1>1, <3>1, UsesOfRecovery
        <4> QED
          BY <1>2, <1>3, <4>1
      <3> QED
        BY <1>1, <1>5, <2>1, <3>1, <3>2, <3>3, Classes
    <2> QED
      BY <1>1, <2>1, <2>2, <2>3, <2>4, UsesOfCpu
  <1>6. CASE res = Link
    <2>1. u[1] = "transfer" /\ u \in Shared /\ pc[u] \in {"gpu", "run"}
      BY <1>1, <1>6, UsesOfLink
    <2> QED
      BY <1>1, <1>3, <1>6, <2>1, Classes, ResourceKinds DEF Waiting
  <1>7. CASE res = Slot
    <2>1. u[1] = "checkpoint" /\ pc[u] \in {"peer slot", "peer", "peer write"}
      BY <1>1, <1>7, UsesOfSlot
    <2>2. pc[u] # "peer slot"
      <3>1. pc[u] = "peer slot" => Uses(u, pc[u]) = {Slot}
        BY <1>1, <2>1, UsesOfCheckpoint
      <3> QED
        BY <1>2, <1>3, <1>7, <3>1
    <2>3. pc[u] # "peer write"
      BY <1>3 DEF Waiting
    <2> QED
      BY <1>1, <1>7, <2>1, <2>2, <2>3, Classes, ResourceKinds
  <1> QED
    BY <1>4, <1>5, <1>6, <1>7, ResourceKinds

\* One waits for a higher class, or among transfers and collectives, which
\* are in the same order in every queue, for one that is ahead.
LEMMA Climb ==
  ASSUME Inductive, NEW t \in Blocked \ SerializedCaptures, NEW u \in Blocked \ SerializedCaptures,
         WaitsFor(t, u)
  PROVE  \/ Class(t) < Class(u)
         \/ /\ Class(t) = Class(u) /\ Class(t) \in {3, 5} /\ t \in Shared /\ u \in Shared
            /\ \A other \in Resource :
                  other \in Uses(t, pc[t]) \cap Uses(u, pc[u]) => Before(queue[other], u, t)
  <1>1. t \in Task /\ u \in Task /\ pc[t] \in Places(t) /\ pc[u] \in Places(u)
    BY DEF Blocked, Inductive, Located
  <1>2. PICK res \in Resource :
            /\ queue[res] # <<>> /\ Head(queue[res]) = u /\ t # u /\ Before(queue[res], u, t)
            /\ res \in Uses(t, pc[t]) /\ res \in Uses(u, pc[u]) /\ res \notin Secured(t, pc[t])
    BY <1>1, Waits
  <1>3. \/ res[1] \in {"gpu", "link"} /\ Class(u) = 5
        \/ res[1] = "cpu" /\ Class(u) \in {3, 4}
        \/ res[1] = "slot" /\ Class(u) = 1
    BY <1>1, <1>2, HeadsThatWait
  <1>4. ASSUME t \in Shared, u \in Shared, NEW other \in Resource,
               other \in Uses(t, pc[t]) \cap Uses(u, pc[u])
        PROVE  Before(queue[other], u, t)
    <2>1. {res, other} \subseteq Uses(u, pc[u]) \cap Uses(t, pc[t])
      BY <1>2, <1>4
    <2> QED
      BY <1>2, <1>4, <2>1 DEF Inductive, SameOrder
  <1>5. CASE Class(u) = 5
    <2>1. Class(t) \in 0 .. 5 /\ u \in Shared /\ (Class(t) = 5 => t \in Shared)
      BY <1>1, <1>5, Classes
    <2>2. CASE Class(t) = 5
      BY <1>4, <1>5, <2>1, <2>2
    <2>3. CASE Class(t) # 5
      BY <1>5, <2>1, <2>3
    <2> QED
      BY <2>2, <2>3
  <1>6. CASE res[1] = "cpu" /\ Class(u) \in {3, 4}
    <2>1. PICK r \in Rank : res = Cpu(r)
      BY <1>6, ResourceKinds
    <2>2. CASE t[1] = "transfer" /\ t \in Shared /\ pc[t] \in {"cpu", "launch"}
      <3>1. pc[t] \in Waiting
        BY <1>1, <1>2, SecuredPlaces
      <3>2. Class(t) = 3
        BY <1>1, <2>2, <3>1, Classes DEF Waiting
      <3>3. CASE Class(u) = 3
        <4>1. u \in Shared
          BY <1>1, <3>3, Classes, Kinds
        <4> QED
          BY <1>4, <2>2, <3>2, <3>3, <4>1
      <3>4. CASE Class(u) = 4
        BY <3>2, <3>4
      <3> QED
        BY <1>6, <3>3, <3>4
    <2>3. CASE t[1] = "checkpoint"
      <3>1. t \notin Shared
        BY <2>3, SharedKinds
      <3>2. Class(t) \in {0, 1}
        BY <1>1, <2>3, <3>1, Classes
      <3> QED
        BY <1>6, <3>2
    <2>4. CASE t = Recovery(r)
      <3>1. t[1] = "recovery" /\ t[2] = r /\ t \notin Shared
        BY <2>4, Recoveries
      <3>2. Class(t) \in {0, 2}
        BY <1>1, <1>2, <2>1, <3>1, Classes
      <3> QED
        BY <1>6, <3>2
    <2> QED
      BY <1>1, <1>2, <2>1, <2>2, <2>3, <2>4, UsesOfCpu
  <1>7. CASE res[1] = "slot" /\ Class(u) = 1
    <2>1. res = Slot
      BY <1>7, ResourceKinds
    <2>2. t[1] = "checkpoint" /\ pc[t] \in {"peer slot", "peer", "peer write"}
      BY <1>1, <1>2, <2>1, UsesOfSlot
    <2>3. pc[t] # "peer"
      BY <1>1, <1>2, <2>1, SecuredPlaces
    <2>4. t \notin Shared
      BY <2>2, SharedKinds
    <2>5. Class(t) = 0
      <3>1. Class(t) \in 0 .. 5 /\ Class(t) # 5 /\ Class(t) # 1
        BY <1>1, <2>3, <2>4, Classes
      <3>2. Class(t) # 4 /\ Class(t) # 3 /\ Class(t) # 2
        BY <1>1, <2>2, Classes
      <3> QED
        BY <3>1, <3>2
    <2> QED
      BY <1>7, <2>5
  <1> QED
    BY <1>3, <1>5, <1>6, <1>7

\* Any two that share a queue by class share that of the CPU, or GPU, of every rank.
LEMMA CommonQueue ==
  ASSUME Inductive, NEW r \in Rank
  PROVE  /\ \A t \in Shared : Class(t) = 3 => Cpu(r) \in Uses(t, pc[t])
         /\ \A t \in Shared : Class(t) = 5 => Gpu(r) \in Uses(t, pc[t])
  <1> SUFFICES ASSUME NEW t \in Shared
               PROVE  /\ Class(t) = 3 => Cpu(r) \in Uses(t, pc[t])
                      /\ Class(t) = 5 => Gpu(r) \in Uses(t, pc[t])
    OBVIOUS
  <1>1. t \in Task /\ t[1] \in {"transfer", "collective"} /\ pc[t] \in Places(t)
    BY SharedKinds DEF Inductive, Located
  <1>2. ASSUME Class(t) = 3 PROVE Cpu(r) \in Uses(t, pc[t])
    <2>1. t[1] = "transfer" /\ pc[t] = "cpu"
      BY <1>1, <1>2, Classes
    <2>2. Uses(t, pc[t]) = {Cpu(q) : q \in Rank}
      BY <1>1, <2>1, UsesOfTransfer
    <2> QED
      BY <2>2
  <1>3. ASSUME Class(t) = 5 PROVE Gpu(r) \in Uses(t, pc[t])
    <2>1. pc[t] = "gpu"
      BY <1>1, <1>3, Classes
    <2>2. t[1] = "transfer" => Uses(t, pc[t]) = {Link} \cup {Gpu(q) : q \in Rank}
      BY <1>1, <2>1, UsesOfTransfer
    <2>3. t[1] = "collective" => Uses(t, pc[t]) = {Gpu(q) : q \in Rank}
      BY <1>1, <2>1, UsesOfCollective
    <2> QED
      BY <1>1, <2>2, <2>3
  <1> QED
    BY <1>2, <1>3

\* There are workers.
LEMMA RanksExist == Rank # {}
  BY ResourcesAssumption, FS_EmptySet

\* In a circle the foremost of the highest class would wait for nobody.
LEMMA InductiveFree ==
  ASSUME Inductive
  PROVE  NoDeadlock
  <1> SUFFICES ASSUME NEW S \in (SUBSET (Blocked \ SerializedCaptures)) \ {{}}, Deadlocked(S)
               PROVE  FALSE
    BY DEF NoDeadlock
  <1>1. S # {} /\ S \subseteq Blocked \ SerializedCaptures /\ S \subseteq Task
    BY DEF Blocked
  <1> DEFINE C == {Class(t) : t \in S}
  <1>2. C # {} /\ C \subseteq Int /\ 5 \in Int /\ \A y \in C : y <= 5
    <2>1. \A t \in S : Class(t) \in 0 .. 5
      BY <1>1, Classes
    <2> QED
      BY <1>1, <2>1
  <1>3. PICK m \in C : \A y \in C : m >= y
    BY <1>2, MaxOfBounded
  <1> DEFINE A == {t \in S : Class(t) = m}
  <1>4. A # {} /\ A \subseteq S
    BY <1>3
  <1>5. \A t \in A : \E u \in A :
          /\ t \in Shared /\ u \in Shared /\ m \in {3, 5}
          /\ \A other \in Resource :
               other \in Uses(t, pc[t]) \cap Uses(u, pc[u]) => Before(queue[other], u, t)
    <2> TAKE t \in A
    <2>1. PICK u \in S : WaitsFor(t, u)
      BY <1>4 DEF Deadlocked
    <2>2. Class(t) = m /\ m \in Int /\ Class(u) \in C /\ Class(u) \in Int /\ m >= Class(u)
      BY <1>2, <1>3
    <2>3. ~(Class(t) < Class(u))
      BY <2>2
    <2>4. /\ Class(t) = Class(u) /\ Class(t) \in {3, 5} /\ t \in Shared /\ u \in Shared
          /\ \A other \in Resource :
                other \in Uses(t, pc[t]) \cap Uses(u, pc[u]) => Before(queue[other], u, t)
      BY <1>1, <1>4, <2>1, <2>3, Climb
    <2>5. u \in A
      BY <2>2, <2>4
    <2> QED
      BY <2>2, <2>4, <2>5
  <1>6. m \in {3, 5} /\ A \subseteq Shared
    BY <1>4, <1>5
  <1>7. PICK r \in Rank : TRUE
    BY RanksExist
  <1>8. PICK res \in Resource : \A t \in A : res \in Uses(t, pc[t])
    <2>1. CASE m = 3
      <3>1. \A t \in A : Cpu(r) \in Uses(t, pc[t])
        BY <1>6, <2>1, CommonQueue
      <3> QED
        BY <3>1, ResourceKinds
    <2>2. CASE m = 5
      <3>1. \A t \in A : Gpu(r) \in Uses(t, pc[t])
        BY <1>6, <2>2, CommonQueue
      <3> QED
        BY <3>1, ResourceKinds
    <2> QED
      BY <1>6, <2>1, <2>2
  <1>9. /\ queue[res] \in Seq(Task) /\ IsInjective(queue[res])
        /\ A \in SUBSET ToSet(queue[res])
    BY <1>1, <1>4, <1>8, QueueFacts
  <1>10. PICK a \in A : \A b \in A : ~Before(queue[res], b, a)
    BY <1>4, <1>9, Foremost
  <1> QED
    BY <1>5, <1>8, <1>10

-----------------------------------------------------------------------------
(* What a move does to the queues. *)

\* Priorities are numbers.
LEMMA Priorities ==
  \A t, at : Priority(t, at) \in Int
  BY DEF Priority

\* A new request goes behind those of its priority, and never before a user.
LEMMA EnqueueOrder ==
  ASSUME NEW q \in Seq(Task), IsInjective(q), NEW t \in Task, t \notin ToSet(q), NEW res, NEW at,
         res[1] = "cpu" => \A i, j \in 2 .. Len(q) :
                              i < j => Priority(q[i], pc[q[i]]) <= Priority(q[j], pc[q[j]])
  PROVE  /\ Enqueue(q, res, t, at) \in Seq(Task)
         /\ IsInjective(Enqueue(q, res, t, at))
         /\ ToSet(Enqueue(q, res, t, at)) = ToSet(q) \cup {t}
         /\ \A a, b : a # t /\ b # t => (Before(Enqueue(q, res, t, at), a, b) <=> Before(q, a, b))
         /\ q # <<>> => /\ Enqueue(q, res, t, at) # <<>>
                        /\ Head(Enqueue(q, res, t, at)) = Head(q)
         /\ res[1] # "cpu" => \A a : ~Before(Enqueue(q, res, t, at), t, a)
         /\ \A a : Before(Enqueue(q, res, t, at), t, a) => Priority(t, at) < Priority(a, pc[a])
         /\ res[1] = "cpu" =>
              \A a : Before(Enqueue(q, res, t, at), a, t) /\ Head(Enqueue(q, res, t, at)) # a
                        => Priority(a, pc[a]) <= Priority(t, at)
  <1> DEFINE ahead == {i \in 1 .. Len(q) : \/ i = 1
                                           \/ res[1] # "cpu"
                                           \/ Priority(q[i], pc[q[i]]) <= Priority(t, at)}
             k == Cardinality(ahead) + 1
             n == InsertAt(q, k, t)
  <1>1. n = Enqueue(q, res, t, at)
    BY DEF Enqueue
  <1>2. Len(q) \in Nat /\ ahead \in SUBSET (1 .. Len(q)) /\ DOMAIN q = 1 .. Len(q)
    OBVIOUS
  <1>3. ASSUME NEW i \in ahead, NEW j \in 1 .. i PROVE j \in ahead
    <2>1. i \in 1 .. Len(q) /\ j \in 1 .. Len(q)
      BY <1>2
    <2>2. CASE j = 1 \/ res[1] # "cpu"
      BY <2>1, <2>2
    <2>3. CASE j = i
      BY <2>3
    <2>4. CASE j # 1 /\ res[1] = "cpu" /\ j < i
      <3>1. Priority(q[i], pc[q[i]]) <= Priority(t, at)
        BY <2>1, <2>4
      <3>2. Priority(q[j], pc[q[j]]) <= Priority(q[i], pc[q[i]])
        BY <2>1, <2>4
      <3>3. /\ Priority(q[i], pc[q[i]]) \in Int /\ Priority(q[j], pc[q[j]]) \in Int
            /\ Priority(t, at) \in Int
        BY Priorities
      <3>4. Priority(q[j], pc[q[j]]) <= Priority(t, at)
        BY <3>1, <3>2, <3>3
      <3> QED
        BY <2>1, <3>4
    <2> QED
      BY <2>1, <2>2, <2>3, <2>4
  <1>4. Cardinality(ahead) \in 0 .. Len(q) /\ ahead = 1 .. Cardinality(ahead)
    <2> HIDE DEF ahead
    <2> QED
      BY <1>2, <1>3, PrefixCount
  <1>5. k \in 1 .. Len(q) + 1 /\ ahead = 1 .. k - 1
    <2> HIDE DEF ahead
    <2>1. Cardinality(ahead) \in Int
      BY <1>4
    <2> QED
      BY <1>2, <1>4, <2>1
  <1>6. \A i \in 1 .. Len(q) :
          /\ i < k => i = 1 \/ res[1] # "cpu" \/ Priority(q[i], pc[q[i]]) <= Priority(t, at)
          /\ i >= k => res[1] = "cpu" /\ ~(Priority(q[i], pc[q[i]]) <= Priority(t, at))
    <2> DEFINE low(i) == Priority(q[i], pc[q[i]]) <= Priority(t, at)
    <2> SUFFICES ASSUME NEW i \in 1 .. Len(q)
                 PROVE  /\ i < k => i = 1 \/ res[1] # "cpu" \/ low(i)
                        /\ i >= k => res[1] = "cpu" /\ ~low(i)
      OBVIOUS
    <2>1. i \in ahead <=> i = 1 \/ res[1] # "cpu" \/ low(i)
      OBVIOUS
    <2> HIDE DEF ahead, k
    <2>2. i \in ahead <=> i < k
      BY <1>5
    <2>3. k \in Int /\ i \in Int
      BY <1>5
    <2> QED
      BY <2>1, <2>2, <2>3
  <1>7. q # <<>> => k >= 2
    <2>1. q # <<>> => 1 \in ahead
      BY <1>2
    <2> HIDE DEF ahead, k
    <2> QED
      BY <1>5, <2>1
  <1> HIDE DEF ahead, k
  <1>8. /\ n \in Seq(Task) /\ IsInjective(n) /\ ToSet(n) = ToSet(q) \cup {t}
        /\ \A a, b : a # t /\ b # t => (Before(n, a, b) <=> Before(q, a, b))
        /\ \A i \in 1 .. k - 1 : Before(n, q[i], t)
        /\ \A i \in k .. Len(q) : Before(n, t, q[i])
        /\ k >= 2 => Head(n) = Head(q)
    BY <1>5, InsertOrder
  <1> HIDE DEF n
  <1>9. ASSUME NEW a, Before(n, t, a)
        PROVE  \E i \in 1 .. Len(q) : q[i] = a /\ i >= k
    <2>1. a \in ToSet(n) /\ a # t /\ ~Before(n, a, t)
      BY <1>8, <1>9, Order
    <2>2. PICK i \in 1 .. Len(q) : q[i] = a
      BY <1>2, <1>8, <2>1 DEF ToSet
    <2>3. ~(i \in 1 .. k - 1)
      BY <1>8, <2>1, <2>2
    <2> QED
      BY <1>5, <2>2, <2>3
  <1>10. ASSUME NEW a, Before(n, a, t)
         PROVE  \E i \in 1 .. Len(q) : q[i] = a /\ i < k
    <2>1. a \in ToSet(n) /\ a # t /\ ~Before(n, t, a)
      BY <1>8, <1>10, Order
    <2>2. PICK i \in 1 .. Len(q) : q[i] = a
      BY <1>2, <1>8, <2>1 DEF ToSet
    <2>3. ~(i \in k .. Len(q))
      BY <1>8, <2>1, <2>2
    <2> QED
      BY <1>5, <2>2, <2>3
  <1>11. q # <<>> => n # <<>> /\ Head(n) = Head(q)
    <2> HAVE q # <<>>
    <2>1. Head(q) \in ToSet(n)
      BY <1>8, HeadFirst
    <2>2. n # <<>>
      BY <2>1 DEF ToSet
    <2> QED
      BY <1>7, <1>8, <2>2
  <1>12. ASSUME res[1] # "cpu", NEW a PROVE ~Before(n, t, a)
    BY <1>6, <1>9, <1>12
  <1>13. ASSUME NEW a, Before(n, t, a) PROVE Priority(t, at) < Priority(a, pc[a])
    <2>1. ~(Priority(a, pc[a]) <= Priority(t, at))
      BY <1>6, <1>9, <1>13
    <2>2. Priority(a, pc[a]) \in Int /\ Priority(t, at) \in Int
      BY Priorities
    <2> QED
      BY <2>1, <2>2
  <1>14. ASSUME res[1] = "cpu", NEW a, Before(n, a, t), Head(n) # a
         PROVE  Priority(a, pc[a]) <= Priority(t, at)
    <2>1. PICK i \in 1 .. Len(q) : q[i] = a /\ i < k
      BY <1>10, <1>14
    <2>2. q # <<>> /\ Head(q) = q[1]
      BY <2>1
    <2>3. i # 1
      BY <1>11, <1>14, <2>1, <2>2
    <2> QED
      BY <1>6, <1>14, <2>1, <2>3
  <1> QED
    BY <1>1, <1>8, <1>11, <1>12, <1>13, <1>14

\* A move leaves the order of the others as it is, puts the one that moves
\* behind all of its priority, and takes no resource from its user.
LEMMA MoveOrder ==
  ASSUME Inductive, NEW t \in Task, NEW at, NEW kept, Move(t, at, kept), NEW res \in Resource
  PROVE  /\ queue'[res] \in Seq(Task) /\ IsInjective(queue'[res])
         /\ res \in kept => queue'[res] = queue[res]
         /\ res \notin kept => ToSet(queue'[res]) =
              (ToSet(queue[res]) \ {t}) \cup (IF res \in Uses(t, at) THEN {t} ELSE {})
         /\ \A a, b : a # t /\ b # t => (Before(queue'[res], a, b) <=> Before(queue[res], a, b))
         /\ queue[res] # <<>> /\ Head(queue[res]) # t =>
              queue'[res] # <<>> /\ Head(queue'[res]) = Head(queue[res])
         /\ res \notin kept /\ res[1] # "cpu" => \A a : ~Before(queue'[res], t, a)
         /\ res \notin kept => \A a : Before(queue'[res], t, a) => Priority(t, at) < Priority(a, pc[a])
         /\ res \notin kept /\ res[1] = "cpu" =>
              \A a : Before(queue'[res], a, t) /\ Head(queue'[res]) # a
                        => Priority(a, pc[a]) <= Priority(t, at)
  <1> DEFINE q == queue[res]
             n == RemoveFirst(q, t)
  <1>1. q \in Seq(Task) /\ IsInjective(q)
    BY QueueFacts
  <1>2. /\ n \in Seq(Task) /\ IsInjective(n) /\ ToSet(n) = ToSet(q) \ {t}
        /\ \A a, b : Before(n, a, b) <=> a # t /\ b # t /\ Before(q, a, b)
        /\ q # <<>> /\ Head(q) # t => n # <<>> /\ Head(n) = Head(q)
    BY <1>1, RemoveOrder
  <1>3. queue'[res] = IF res \in kept THEN q
                      ELSE IF res \in Uses(t, at) THEN Enqueue(n, res, t, at)
                      ELSE n
    BY DEF Move
  <1> HIDE DEF q, n
  <1>4. CASE res \in kept
    BY <1>1, <1>3, <1>4 DEF q
  <1>5. CASE res \notin kept /\ res \notin Uses(t, at)
    <2>1. queue'[res] = n
      BY <1>3, <1>5
    <2>2. (ToSet(queue[res]) \ {t}) \cup (IF res \in Uses(t, at) THEN {t} ELSE {}) = ToSet(q) \ {t}
      BY <1>5 DEF q
    <2>3. \A a : ~Before(n, t, a) /\ ~Before(n, a, t)
      BY <1>2
    <2> QED
      BY <1>2, <1>5, <2>1, <2>2, <2>3 DEF q
  <1>6. CASE res \notin kept /\ res \in Uses(t, at)
    <2>1. queue'[res] = Enqueue(n, res, t, at)
      BY <1>3, <1>6
    <2>2. ASSUME res[1] = "cpu", NEW i \in 2 .. Len(n), NEW j \in 2 .. Len(n), i < j
          PROVE  Priority(n[i], pc[n[i]]) <= Priority(n[j], pc[n[j]])
      <3>1. PICK r \in Rank : res = Cpu(r)
        BY <2>2, ResourceKinds
      <3>2. Before(n, n[i], n[j])
        BY <1>2, <2>2 DEF Before
      <3>3. Before(q, n[i], n[j]) /\ n[i] # t
        BY <1>2, <3>2
      <3>4. n # <<>> /\ Head(n) = n[1] /\ n[1] # n[i]
        BY <1>2, <2>2 DEF IsInjective
      <3>5. q # <<>>
        BY <1>1, <3>3 DEF Before
      <3>6. Head(q) # n[i]
        BY <1>2, <3>3, <3>4, <3>5
      <3>7. n[i] \in Task /\ n[j] \in Task
        BY <1>2, <2>2
      <3> QED
        BY <3>1, <3>3, <3>6, <3>7 DEF Inductive, ByPriority, q
    <2>3. t \notin ToSet(n)
      BY <1>2
    <2>4. (ToSet(queue[res]) \ {t}) \cup (IF res \in Uses(t, at) THEN {t} ELSE {}) = ToSet(n) \cup {t}
      BY <1>2, <1>6 DEF q
    <2> DEFINE e == Enqueue(n, res, t, at)
    <2>5. /\ e \in Seq(Task) /\ IsInjective(e) /\ ToSet(e) = ToSet(n) \cup {t}
          /\ \A a, b : a # t /\ b # t => (Before(e, a, b) <=> Before(n, a, b))
          /\ n # <<>> => e # <<>> /\ Head(e) = Head(n)
          /\ res[1] # "cpu" => \A a : ~Before(e, t, a)
          /\ \A a : Before(e, t, a) => Priority(t, at) < Priority(a, pc[a])
          /\ res[1] = "cpu" => \A a : Before(e, a, t) /\ Head(e) # a
                                         => Priority(a, pc[a]) <= Priority(t, at)
      BY <1>2, <2>2, <2>3, EnqueueOrder
    <2> HIDE DEF e
    <2>6. \A a, b : a # t /\ b # t => (Before(e, a, b) <=> Before(q, a, b))
      BY <1>2, <2>5
    <2>7. q # <<>> /\ Head(q) # t => e # <<>> /\ Head(e) = Head(q)
      BY <1>2, <2>5
    <2> QED
      BY <1>6, <2>1, <2>4, <2>5, <2>6, <2>7 DEF q, e
  <1> QED
    BY <1>4, <1>5, <1>6

-----------------------------------------------------------------------------
(* Every step of a process is a move of one of two kinds: it keeps all that   *)
(* it was granted, or releases all that it had; and it asks for no GPU of a   *)
(* failed worker.                                                             *)

Goes(t, at, kept) ==
    /\ Move(t, at, kept) /\ at \in Places(t)
    /\ \/ kept = {}
       \/ kept = Uses(t, pc[t]) /\ Granted(t) /\ kept \subseteq Uses(t, at)
    /\ Secured(t, at) \subseteq kept
    /\ t \in Shared => kept = {} \/ kept = Uses(t, at)
    /\ \A r \in Rank : Gpu(r) \in Uses(t, at) \ kept /\ t # Recovery(r) => ~failed[r]

\* Whoever is granted all it asked for is at the head of those queues.
LEMMA HeldInQueue ==
  ASSUME Inductive, NEW t \in Task, Granted(t), NEW res \in Resource, res \in Uses(t, pc[t])
  PROVE  queue[res] # <<>> /\ Head(queue[res]) = t
  <1>1. t \in ToSet(queue[res])
    BY QueueFacts
  <1>2. queue[res] # <<>>
    BY <1>1 DEF ToSet
  <1> QED
    BY <1>2 DEF Granted

\* Such a move keeps what the invariant says about the queues.
LEMMA QueuesStep ==
  ASSUME Inductive, NEW t \in Task, NEW at, NEW kept, Goes(t, at, kept), nonblocking' = nonblocking
  PROVE  /\ QueuesOfTasks' /\ Located' /\ SecuredIsHeld' /\ ByPriority' /\ SameOrder' /\ RecoveryIsLast'
         /\ \A res \in Resource : /\ IsInjective(queue[res])'
                                  /\ ToSet(queue[res])' = {u \in Task : res \in Uses(u, pc[u])}'
  <1>1. /\ pc \in [Task -> Place] /\ Located /\ SecuredIsHeld /\ ByPriority /\ SameOrder
        /\ RecoveryIsLast /\ DownIsRecovered
    BY DEF Inductive, TypeOK
  <1>2. /\ Move(t, at, kept) /\ at \in Places(t) /\ Secured(t, at) \subseteq kept
        /\ \/ kept = {}
           \/ kept = Uses(t, pc[t]) /\ Granted(t) /\ kept \subseteq Uses(t, at)
        /\ t \in Shared => kept = {} \/ kept = Uses(t, at)
        /\ \A r \in Rank : Gpu(r) \in Uses(t, at) \ kept /\ t # Recovery(r) => ~failed[r]
    BY DEF Goes
  <1>3. /\ pc'[t] = at /\ \A u \in Task : u # t => pc'[u] = pc[u]
        /\ DOMAIN queue' = Resource /\ queue' = [res \in Resource |-> queue'[res]]
    BY <1>1, <1>2 DEF Move
  <1>4. \A x, y : /\ Uses(x, y)' = Uses(x, y) /\ Places(x)' = Places(x)
                  /\ Secured(x, y)' = Secured(x, y)
    BY SameUses
  <1>5. ASSUME NEW res \in Resource
        PROVE  /\ queue'[res] \in Seq(Task) /\ IsInjective(queue'[res])
               /\ res \in kept => queue'[res] = queue[res] /\ queue[res] # <<>> /\ Head(queue[res]) = t
               /\ ToSet(queue'[res]) = {u \in Task : res \in Uses(u, pc'[u])}
               /\ \A a, b : a # t /\ b # t => (Before(queue'[res], a, b) <=> Before(queue[res], a, b))
               /\ queue[res] # <<>> /\ Head(queue[res]) # t =>
                    queue'[res] # <<>> /\ Head(queue'[res]) = Head(queue[res])
    <2>1. /\ queue[res] \in Seq(Task) /\ IsInjective(queue[res])
          /\ ToSet(queue[res]) = {u \in Task : res \in Uses(u, pc[u])}
      BY QueueFacts
    <2>2. /\ queue'[res] \in Seq(Task) /\ IsInjective(queue'[res])
          /\ res \in kept => queue'[res] = queue[res]
          /\ res \notin kept => ToSet(queue'[res]) =
               (ToSet(queue[res]) \ {t}) \cup (IF res \in Uses(t, at) THEN {t} ELSE {})
          /\ \A a, b : a # t /\ b # t => (Before(queue'[res], a, b) <=> Before(queue[res], a, b))
          /\ queue[res] # <<>> /\ Head(queue[res]) # t =>
               queue'[res] # <<>> /\ Head(queue'[res]) = Head(queue[res])
      BY <1>2, MoveOrder
    <2>3. CASE res \in kept
      <3>1. res \in Uses(t, pc[t]) /\ res \in Uses(t, at) /\ Granted(t)
        BY <1>2, <2>3
      <3>2. queue[res] # <<>> /\ Head(queue[res]) = t
        BY <3>1, HeldInQueue
      <3>3. {u \in Task : res \in Uses(u, pc'[u])} = {u \in Task : res \in Uses(u, pc[u])}
        BY <1>3, <3>1
      <3> QED
        BY <2>1, <2>2, <2>3, <3>2, <3>3
    <2>4. CASE res \notin kept
      <3>1. \A u \in Task : u \in ToSet(queue'[res]) <=> res \in Uses(u, pc'[u])
        <4> SUFFICES ASSUME NEW u \in Task
                     PROVE  u \in ToSet(queue'[res]) <=> res \in Uses(u, pc'[u])
          OBVIOUS
        <4>1. CASE u = t
          BY <1>3, <2>2, <2>4, <4>1
        <4>2. CASE u # t
          BY <1>3, <2>1, <2>2, <2>4, <4>2
        <4> QED
          BY <4>1, <4>2
      <3>2. ToSet(queue'[res]) \subseteq Task
        BY <2>2 DEF ToSet
      <3>3. ToSet(queue'[res]) = {u \in Task : res \in Uses(u, pc'[u])}
        BY <3>1, <3>2
      <3> QED
        BY <2>2, <2>4, <3>3
    <2> QED
      BY <2>3, <2>4
  <1>6. QueuesOfTasks'
    BY <1>3, <1>5 DEF QueuesOfTasks
  <1>7. Located'
    BY <1>1, <1>2, <1>3, <1>4 DEF Located
  <1>8. SecuredIsHeld'
    <2> SUFFICES ASSUME NEW u \in Task, NEW res \in Resource, res \in Secured(u, pc'[u])
                 PROVE  queue'[res] # <<>> /\ Head(queue'[res]) = u
      BY <1>4 DEF SecuredIsHeld
    <2>1. CASE u = t
      BY <1>2, <1>3, <1>5, <2>1
    <2>2. CASE u # t
      <3>1. queue[res] # <<>> /\ Head(queue[res]) = u
        BY <1>1, <1>3, <2>2 DEF SecuredIsHeld
      <3> QED
        BY <1>5, <2>2, <3>1
    <2> QED
      BY <2>1, <2>2
  <1>9. ByPriority'
    <2> SUFFICES ASSUME NEW r \in Rank, NEW a \in Task, NEW b \in Task,
                        Before(queue'[Cpu(r)], a, b), Head(queue'[Cpu(r)]) # a
                 PROVE  Priority(a, pc'[a]) <= Priority(b, pc'[b])
      BY DEF ByPriority, Priority
    <2> DEFINE res == Cpu(r)
    <2>1. res \in Resource /\ res[1] = "cpu"
      BY ResourceKinds
    <2>2. /\ queue'[res] \in Seq(Task) /\ IsInjective(queue'[res]) /\ a # b
      BY <1>5, <2>1, Order
    <2>3. CASE a # t /\ b # t
      <3>1. Before(queue[res], a, b)
        BY <1>5, <2>1, <2>3
      <3>2. queue[res] # <<>>
        BY <3>1 DEF Before
      <3>3. Head(queue[res]) # a
        BY <1>5, <2>1, <2>3, <3>2
      <3> QED
        BY <1>1, <1>3, <2>3, <3>1, <3>3 DEF ByPriority
    <2>4. CASE res \in kept /\ (a = t \/ b = t)
      <3>1. queue'[res] # <<>> /\ Head(queue'[res]) = t
        BY <1>5, <2>1, <2>4
      <3>2. ~Before(queue'[res], a, t)
        BY <2>2, <3>1, HeadFirst
      <3> QED
        BY <2>4, <3>1, <3>2
    <2>5. CASE res \notin kept /\ (a = t \/ b = t)
      <3>1. /\ \A x : Before(queue'[res], t, x) => Priority(t, at) < Priority(x, pc[x])
            /\ \A x : Before(queue'[res], x, t) /\ Head(queue'[res]) # x
                        => Priority(x, pc[x]) <= Priority(t, at)
        BY <1>2, <2>1, <2>5, MoveOrder
      <3>2. Priority(a, pc'[a]) \in Int /\ Priority(b, pc'[b]) \in Int
        BY Priorities
      <3>3. CASE a = t
        <4>1. b # t /\ Priority(a, pc'[a]) < Priority(b, pc'[b])
          BY <1>3, <2>2, <3>1, <3>3
        <4> QED
          BY <3>2, <4>1
      <3>4. CASE b = t
        BY <1>3, <2>2, <3>1, <3>4
      <3> QED
        BY <2>5, <3>3, <3>4
    <2> QED
      BY <2>3, <2>4, <2>5
  <1>10. ASSUME NEW x \in Shared, NEW y \in Shared, NEW res \in Resource,
                x = t \/ y = t, x # y, kept = {},
                res \in Uses(x, pc'[x]), res \in Uses(y, pc'[y])
         PROVE  x = t => ~Before(queue'[res], x, y)
    <2> SUFFICES ASSUME x = t PROVE ~Before(queue'[res], x, y)
      OBVIOUS
    <2>1. CASE res[1] # "cpu"
      BY <1>2, <1>10, <2>1, MoveOrder
    <2>2. CASE res[1] = "cpu"
      <3>1. PICK r \in Rank : res = Cpu(r)
        BY <2>2, ResourceKinds
      <3>2. x \in Task /\ y \in Task /\ x[1] \in {"transfer", "collective"} /\ y[1] \in {"transfer", "collective"}
        BY SharedKinds
      <3>3. pc[y] \in Places(y) /\ at \in Places(x)
        BY <1>1, <1>2, <3>2 DEF Located
      <3>4. pc[y] \notin Flushing /\ at \notin Flushing
        BY <3>2, <3>3, PlacesOf DEF Flushing
      <3>5. Priority(x, at) = 0 /\ Priority(y, pc[y]) = 0
        BY <3>2, <3>4 DEF Priority
      <3> QED
        BY <1>2, <1>10, <3>5, MoveOrder
    <2> QED
      BY <2>1, <2>2
  <1>11. SameOrder'
    <2> SUFFICES ASSUME NEW x \in Shared, NEW y \in Shared, NEW res \in Resource, NEW other \in Resource,
                        {res, other} \subseteq Uses(x, pc'[x]) \cap Uses(y, pc'[y]),
                        Before(queue'[res], x, y)
                 PROVE  Before(queue'[other], x, y)
      BY <1>4 DEF SameOrder
    <2>1. x \in Task /\ y \in Task
      BY SharedKinds
    <2>2. x # y
      BY <1>5, Order
    <2>3. CASE x # t /\ y # t
      BY <1>1, <1>3, <1>5, <2>1, <2>3 DEF SameOrder
    <2>4. CASE (x = t \/ y = t) /\ kept # {}
      <3>1. kept = Uses(t, at) /\ kept = Uses(t, pc[t])
        BY <1>2, <2>4
      <3>2. {res, other} \subseteq kept
        BY <1>3, <2>4, <3>1
      <3>3. queue'[res] = queue[res] /\ queue'[other] = queue[other]
        BY <1>5, <3>2
      <3>4. {res, other} \subseteq Uses(x, pc[x]) \cap Uses(y, pc[y])
        BY <1>3, <2>1, <3>1
      <3> QED
        BY <1>1, <3>3, <3>4 DEF SameOrder
    <2>5. CASE x = t /\ kept = {}
      BY <1>10, <2>2, <2>5
    <2>6. CASE y = t /\ kept = {}
      <3>1. ~Before(queue'[other], y, x)
        BY <1>10, <2>2, <2>6
      <3>2. x \in ToSet(queue'[other]) /\ y \in ToSet(queue'[other])
        BY <1>5, <2>1
      <3> QED
        BY <1>5, <2>2, <3>1, <3>2, Order
    <2> QED
      BY <2>3, <2>4, <2>5, <2>6
  <1>12. RecoveryIsLast'
    <2> SUFFICES ASSUME NEW r \in Rank, NEW u \in Task, Before(queue'[Gpu(r)], Recovery(r), u)
                 PROVE  FALSE
      BY DEF RecoveryIsLast
    <2> DEFINE res == Gpu(r)
    <2>1. res \in Resource /\ res[1] # "cpu" /\ Recovery(r) \in Task
      BY ResourceKinds, Recoveries
    <2>2. u # Recovery(r) /\ Recovery(r) \in ToSet(queue'[res]) /\ u \in ToSet(queue'[res])
      BY <1>5, <2>1, Order
    <2>3. ~Before(queue[res], Recovery(r), u)
      BY <1>1 DEF RecoveryIsLast
    <2>4. CASE res \in kept \/ (Recovery(r) # t /\ u # t)
      BY <1>5, <2>1, <2>3, <2>4
    <2>5. CASE res \notin kept /\ Recovery(r) = t
      BY <1>2, <2>1, <2>5, MoveOrder
    <2>6. CASE res \notin kept /\ u = t
      <3>1. res \in Uses(t, at)
        BY <1>3, <1>5, <2>1, <2>2, <2>6
      <3>2. ~failed[r]
        BY <1>2, <2>2, <2>6, <3>1
      <3>3. pc[Recovery(r)] = "idle" /\ pc'[Recovery(r)] = "idle"
        BY <1>1, <1>3, <2>1, <2>2, <2>6, <3>2 DEF DownIsRecovered
      <3>4. Uses(Recovery(r), "idle") = {}
        BY <1>1, <2>1, <3>3, Recoveries, UsesOfRecovery DEF Located
      <3> QED
        BY <1>5, <2>1, <2>2, <3>3, <3>4
    <2> QED
      BY <2>4, <2>5, <2>6
  <1>13. \A res \in Resource : /\ IsInjective(queue[res])'
                               /\ ToSet(queue[res])' = {u \in Task : res \in Uses(u, pc[u])}'
    BY <1>4, <1>5
  <1> QED
    BY <1>6, <1>7, <1>8, <1>9, <1>11, <1>12, <1>13


-----------------------------------------------------------------------------
(* The steps of every process but a recovery. *)

Proceeds(t) ==
    /\ \E at, kept : Goes(t, at, kept)
    /\ UNCHANGED <<nonblocking, failed, failures>>
    /\ stale' \subseteq stale

\* A process that starts a round asks for nothing of a failed worker.
LEMMA AttemptGoes ==
  ASSUME Inductive, NEW t \in Task, t[1] # "recovery", Attempt(t),
         UNCHANGED <<nonblocking, failed, failures>>
  PROVE  Proceeds(t)
  <1>1. CASE Down(t, "wait")
    <2>1. Release(t, "wait")
      BY <1>1 DEF Attempt
    <2>2. "wait" \in Places(t)
      BY Kinds, PlacesOf
    <2>3. Uses(t, "wait") = {}
      BY <2>2, Kinds, UsesOfWork, UsesOfTransfer, UsesOfCollective, UsesOfCheckpoint
    <2>4. Secured(t, "wait") = {}
      BY <2>3, SecuredPlaces DEF Waiting
    <2> QED
      BY <2>1, <2>2, <2>3, <2>4 DEF Goes, Release, Proceeds, Attempt
  <1>2. CASE ~Down(t, "wait")
    <2> DEFINE at == First(t)
    <2>1. Release(t, at)
      BY <1>2 DEF Attempt
    <2>2. \/ t[1] \in {"work", "collective"} /\ at = "gpu"
          \/ t[1] = "transfer" /\ at = "cpu"
          \/ t[1] = "checkpoint" /\ nonblocking /\ at = "cpu"
          \/ t[1] = "checkpoint" /\ ~nonblocking /\ at = "gpu"
      BY Kinds DEF First
    <2> HIDE DEF at
    <2>3. at \in Places(t)
      BY <2>2, Kinds, PlacesOf
    <2>4. Secured(t, at) = {}
      BY <2>2 DEF Secured, Waiting
    <2>5. ASSUME NEW r \in Rank, Gpu(r) \in Uses(t, at) PROVE ~failed[r]
      <3>1. r \in Watched(t, "wait")
        <4>1. CASE t \in Shared
          <5>1. t[1] \in {"transfer", "collective"}
            BY <4>1, SharedKinds
          <5> QED
            BY <5>1 DEF Watched
        <4>2. CASE t[1] = "work" /\ t[2] = r
          BY <4>2 DEF Watched
        <4>3. CASE t[1] = "checkpoint" /\ t[2] = r
          BY <4>3 DEF Watched, Flushing
        <4>4. t # Recovery(r)
          BY Recoveries
        <4> QED
          BY <2>3, <2>5, <4>1, <4>2, <4>3, <4>4, UsesOfGpu
      <3> QED
        BY <1>2, <3>1 DEF Down
    <2> QED
      BY <2>1, <2>3, <2>4, <2>5 DEF Goes, Release, Proceeds, Attempt
  <1> QED
    BY <1>1, <1>2

\* Work that starts keeps what was granted for it.
LEMMA StartGoes ==
  ASSUME Inductive, NEW t \in Task, t[1] # "recovery", NEW from, NEW to \in Places(t),
         to \notin Waiting, Uses(t, from) = Uses(t, to), Start(t, from, to),
         UNCHANGED nonblocking
  PROVE  Proceeds(t)
  <1>1. CASE Attempt(t)
    BY <1>1, AttemptGoes DEF Start
  <1>2. CASE Hold(t, to) /\ stale' = stale
    <2>1. pc[t] = from /\ Granted(t) /\ UNCHANGED <<failed, failures>>
      BY DEF Start
    <2>2. Secured(t, to) = Uses(t, to)
      BY SecuredPlaces
    <2> QED
      BY <1>2, <2>1, <2>2 DEF Hold, Goes, Proceeds
  <1> QED
    BY <1>1, <1>2 DEF Start

\* Work that ends releases everything and asks for what comes next, on workers
\* it has watched.
LEMMA EndGoes ==
  ASSUME Inductive, NEW t \in Task, t[1] # "recovery", NEW from, NEW to \in Places(t),
         Secured(t, to) = {}, \A r \in Rank : Gpu(r) \in Uses(t, to) => r \in Watched(t, from),
         End(t, from, to), UNCHANGED nonblocking
  PROVE  Proceeds(t)
  <1>1. CASE Attempt(t)
    BY <1>1, AttemptGoes DEF End
  <1>2. CASE ~Aborted(t) /\ Release(t, to) /\ stale' = stale
    <2>1. pc[t] = from /\ UNCHANGED <<failed, failures>>
      BY DEF End
    <2>2. \A r \in Rank : Gpu(r) \in Uses(t, to) => ~failed[r]
      BY <1>2, <2>1 DEF Aborted, Down
    <2> QED
      BY <1>2, <2>1, <2>2 DEF Release, Goes, Proceeds
  <1> QED
    BY <1>1, <1>2 DEF End

\* A process that was granted one resource keeps it and asks for the next.
LEMMA CollectGoes ==
  ASSUME Inductive, NEW t \in Task, t \notin Shared, NEW from, NEW to \in Places(t),
         Secured(t, to) \subseteq Uses(t, from), Uses(t, from) \subseteq Uses(t, to),
         \A r \in Rank : Gpu(r) \in Uses(t, to) => Gpu(r) \in Uses(t, from),
         Collect(t, from, to), UNCHANGED nonblocking
  PROVE  Proceeds(t)
  <1>1. Granted(t) /\ Hold(t, to) /\ pc[t] = from /\ UNCHANGED <<stale, failed, failures>>
    BY DEF Collect
  <1> QED
    BY <1>1 DEF Hold, Goes, Proceeds

\* The steps of training.
LEMMA TrainingGoes ==
  ASSUME Inductive, NEW t \in Training, TrainingStep(t), UNCHANGED nonblocking
  PROVE  Proceeds(t)
  <1>0. t \in Task /\ t[1] \in {"work", "transfer", "collective"}
    BY Kinds DEF Task
  <1>1. CASE StartGpuWork(t)
    <2>1. t[1] \in {"work", "collective"} /\ pc[t] = "gpu" /\ Granted(t)
          /\ UNCHANGED <<failed, failures>>
      BY <1>1 DEF StartGpuWork
    <2>2. CASE Attempt(t)
      BY <1>0, <2>1, <2>2, AttemptGoes
    <2>3. CASE Hold(t, "run") /\ stale' = stale \ {t}
      <3>1. "run" \in Places(t) /\ "gpu" \in Places(t)
        BY <1>0, <2>1, PlacesOf
      <3>2. Uses(t, "run") = Uses(t, "gpu")
        BY <1>0, <2>1, <3>1, UsesOfWork, UsesOfCollective
      <3>3. Secured(t, "run") = Uses(t, "run")
        BY <1>0, SecuredPlaces DEF Waiting
      <3> QED
        BY <2>1, <2>3, <3>1, <3>2, <3>3 DEF Hold, Goes, Proceeds
    <2> QED
      BY <1>1, <2>2, <2>3 DEF StartGpuWork
  <1>2. CASE PipelineTransfer(t)
    <2>1. t[1] = "transfer"
      BY <1>2 DEF PipelineTransfer
    <2>2. {"cpu", "launch", "gpu", "run"} \subseteq Places(t)
      BY <1>0, <2>1, PlacesOf
    <2>3. Uses(t, "cpu") = Uses(t, "launch") /\ Uses(t, "gpu") = Uses(t, "run")
      BY <1>0, <2>1, <2>2, UsesOfTransfer
    <2>4. CASE Start(t, "cpu", "launch")
      BY <1>0, <2>1, <2>2, <2>3, <2>4, StartGoes DEF Waiting
    <2>5. CASE End(t, "launch", "gpu")
      <3>1. Secured(t, "gpu") = {}
        BY <2>1 DEF Secured, Waiting
      <3>2. Watched(t, "launch") = Rank
        BY <2>1 DEF Watched
      <3> QED
        BY <1>0, <2>1, <2>2, <2>5, <3>1, <3>2, EndGoes
    <2>6. CASE Start(t, "gpu", "run")
      BY <1>0, <2>1, <2>2, <2>3, <2>6, StartGoes DEF Waiting
    <2> QED
      BY <1>2, <2>4, <2>5, <2>6 DEF PipelineTransfer
  <1>3. CASE FinishTraining(t)
    <2>1. "done" \in Places(t)
      BY <1>0, PlacesOf
    <2>2. Uses(t, "done") = {}
      BY <1>0, <2>1, UsesOfWork, UsesOfTransfer, UsesOfCollective
    <2>3. Secured(t, "done") = {}
      BY <1>0, <2>2, SecuredPlaces DEF Waiting
    <2> QED
      BY <1>0, <1>3, <2>1, <2>2, <2>3, EndGoes DEF FinishTraining
  <1> QED
    BY <1>1, <1>2, <1>3 DEF TrainingStep

\* Where a checkpoint can be, what it uses there and what of it was granted.
LEMMA CheckpointPlaces ==
  ASSUME NEW t \in Task, t[1] = "checkpoint"
  PROVE  /\ {"cpu", "copy", "ssd", "ssd write", "peer slot", "peer", "peer write",
             "peer ssd", "peer ssd write", "done"} \subseteq Places(t)
         /\ Uses(t, "cpu") = Uses(t, "copy")
         /\ Uses(t, "ssd") = Uses(t, "ssd write")
         /\ Uses(t, "peer") = Uses(t, "peer write")
         /\ Uses(t, "peer ssd") = Uses(t, "peer ssd write")
         /\ \A at \in {"ssd", "peer slot", "peer ssd", "done"} : Secured(t, at) = {}
         /\ \A at \in {"ssd", "peer slot", "peer", "peer ssd", "done"}, r \in Rank :
                Gpu(r) \notin Uses(t, at)
  <1>1. {"cpu", "copy", "ssd", "ssd write", "peer slot", "peer", "peer write",
         "peer ssd", "peer ssd write", "done"} \subseteq Places(t)
    BY PlacesOf DEF Flushing
  <1>a. /\ "cpu" \in Places(t) /\ "copy" \in Places(t)
        /\ "ssd" \in Places(t) /\ "ssd write" \in Places(t)
        /\ "peer" \in Places(t) /\ "peer write" \in Places(t)
        /\ "peer ssd" \in Places(t) /\ "peer ssd write" \in Places(t)
        /\ "done" \in Places(t)
    BY <1>1
  <1>2. Uses(t, "cpu") = Uses(t, "copy")
    <2>1. CASE nonblocking
      <3>1. Uses(t, "cpu") = {Cpu(t[2])}
        BY <1>a, <2>1, UsesOfCheckpoint, Zenon
      <3>2. Uses(t, "copy") = {Cpu(t[2])}
        BY <1>a, <2>1, UsesOfCheckpoint, Zenon
      <3> QED
        BY <3>1, <3>2
    <2>2. CASE ~nonblocking
      <3>1. Uses(t, "cpu") = {Cpu(t[2]), Gpu(t[2])}
        BY <1>a, <2>2, UsesOfCheckpoint, Zenon
      <3>2. Uses(t, "copy") = {Cpu(t[2]), Gpu(t[2])}
        BY <1>a, <2>2, UsesOfCheckpoint, Zenon
      <3> QED
        BY <3>1, <3>2
    <2> QED
      BY <2>1, <2>2
  <1>3. Uses(t, "ssd") = {Cpu(t[2])} /\ Uses(t, "ssd write") = {Cpu(t[2])}
    BY <1>a, UsesOfCheckpoint, Zenon
  <1>4. Uses(t, "peer") = {Slot, Cpu(t[2])} /\ Uses(t, "peer write") = {Slot, Cpu(t[2])}
    BY <1>a, UsesOfCheckpoint, Zenon
  <1>5. /\ Uses(t, "peer ssd") = {Cpu(Partner(t[2]))}
        /\ Uses(t, "peer ssd write") = {Cpu(Partner(t[2]))}
    BY <1>a, UsesOfCheckpoint, Zenon
  <1>6. \A at \in {"ssd", "peer slot", "peer ssd"} : Secured(t, at) = {}
    BY DEF Secured, Waiting
  <1>7. Secured(t, "done") = {}
    <2>1. Uses(t, "done") = {}
      BY <1>a, UsesOfCheckpoint, Zenon
    <2> QED
      BY <2>1, SecuredPlaces DEF Waiting
  <1>8. ASSUME NEW at \in {"ssd", "peer slot", "peer", "peer ssd", "done"}, NEW r \in Rank
        PROVE  Gpu(r) \notin Uses(t, at)
    <2>1. at \in Places(t) /\ t # Recovery(r) /\ t \notin Shared
      BY <1>1, Kinds, Recoveries
    <2> QED
      BY <2>1, UsesOfGpu
  <1> QED
    BY <1>1, <1>2, <1>3, <1>4, <1>5, <1>6, <1>7, <1>8

\* The steps of a checkpoint: only a capture that serializes holds a GPU on.
LEMMA CheckpointGoes ==
  ASSUME Inductive, NEW t \in Task, t[1] = "checkpoint", Capture(t) \/ Flush(t),
         UNCHANGED nonblocking
  PROVE  Proceeds(t)
  <1>0. t \notin Shared /\ t[1] # "recovery"
    BY Kinds
  <1>1. /\ {"cpu", "copy", "ssd", "ssd write", "peer slot", "peer", "peer write",
             "peer ssd", "peer ssd write", "done"} \subseteq Places(t)
        /\ Uses(t, "cpu") = Uses(t, "copy")
        /\ Uses(t, "ssd") = Uses(t, "ssd write")
        /\ Uses(t, "peer") = Uses(t, "peer write")
        /\ Uses(t, "peer ssd") = Uses(t, "peer ssd write")
        /\ \A at \in {"ssd", "peer slot", "peer ssd", "done"} : Secured(t, at) = {}
        /\ \A at \in {"ssd", "peer slot", "peer", "peer ssd", "done"}, r \in Rank :
               Gpu(r) \notin Uses(t, at)
    BY CheckpointPlaces
  <1>2. ASSUME NEW from, NEW to \in {"ssd", "peer slot", "peer ssd", "done"}, End(t, from, to)
        PROVE  Proceeds(t)
    BY <1>0, <1>1, <1>2, EndGoes
  <1>3. ASSUME NEW from, NEW to \in {"copy", "ssd write", "peer write", "peer ssd write"},
               Uses(t, from) = Uses(t, to), Start(t, from, to)
        PROVE  Proceeds(t)
    <2>1. to \in Places(t) /\ to \notin Waiting
      BY <1>1, <1>3 DEF Waiting
    <2> QED
      BY <1>0, <1>3, <2>1, StartGoes
  <1>4. CASE Collect(t, "gpu", "cpu")
    <2>1. pc[t] = "gpu" /\ pc[t] \in Places(t)
      BY <1>4 DEF Collect, Inductive, Located
    <2>2. ~nonblocking /\ Uses(t, "gpu") = {Gpu(t[2])}
      BY <2>1, UsesOfCheckpoint, Zenon
    <2>3. Uses(t, "cpu") = {Cpu(t[2]), Gpu(t[2])}
      BY <1>1, <2>2, UsesOfCheckpoint, Zenon
    <2>4. Secured(t, "cpu") = {Gpu(t[2])}
      BY <2>2, SecuredPlaces
    <2>5. \A r \in Rank : Gpu(r) \in Uses(t, "cpu") => Gpu(r) \in Uses(t, "gpu")
      BY <2>2, <2>3, ResourceKinds
    <2> QED
      BY <1>0, <1>1, <1>4, <2>2, <2>3, <2>4, <2>5, CollectGoes
  <1>5. CASE Collect(t, "peer slot", "peer")
    <2>1. Uses(t, "peer slot") = {Slot}
      BY <1>1, UsesOfCheckpoint
    <2>2. Uses(t, "peer") = {Slot, Cpu(t[2])}
      BY <1>1, UsesOfCheckpoint
    <2>3. Secured(t, "peer") = {Slot}
      BY SecuredPlaces
    <2>4. \A r \in Rank : Gpu(r) \notin Uses(t, "peer")
      BY <1>1
    <2> QED
      BY <1>0, <1>1, <1>5, <2>1, <2>2, <2>3, <2>4, CollectGoes
  <1>6. CASE Capture(t)
    <2>1. CASE Start(t, "cpu", "copy")
      BY <1>1, <1>3, <2>1
    <2>2. CASE End(t, "copy", "ssd")
      BY <1>2, <2>2
    <2> QED
      BY <1>4, <1>6, <2>1, <2>2 DEF Capture
  <1>7. CASE Flush(t)
    <2>1. CASE Start(t, "ssd", "ssd write")
      BY <1>1, <1>3, <2>1
    <2>2. CASE Start(t, "peer", "peer write")
      BY <1>1, <1>3, <2>2
    <2>3. CASE Start(t, "peer ssd", "peer ssd write")
      BY <1>1, <1>3, <2>3
    <2>4. CASE \/ End(t, "ssd write", "peer slot")
               \/ End(t, "peer write", "peer ssd")
               \/ End(t, "peer ssd write", "done")
      BY <1>2, <2>4
    <2> QED
      BY <1>5, <1>7, <2>1, <2>2, <2>3, <2>4 DEF Flush
  <1> QED
    BY <1>6, <1>7

-----------------------------------------------------------------------------
(* The invariant is inductive. *)

\* Every place of a process is one of the model's.
LEMMA AllPlaces ==
  ASSUME NEW t \in Task
  PROVE  Places(t) \subseteq Place
  <1>1. CASE t[1] \in {"work", "collective"}
    BY <1>1, PlacesOf DEF Place
  <1>2. CASE t[1] = "transfer"
    BY <1>2, PlacesOf DEF Place
  <1>3. CASE t[1] = "checkpoint"
    BY <1>3, PlacesOf DEF Place
  <1>4. CASE t[1] = "recovery"
    BY <1>4, PlacesOf DEF Place
  <1> QED
    BY <1>1, <1>2, <1>3, <1>4, Kinds

\* A move of either kind keeps the invariant, if it leaves the health of the
\* workers in step with their recoveries.
LEMMA MoveKeeps ==
  ASSUME Inductive, NEW t \in Task, NEW at, NEW kept, Goes(t, at, kept),
         UNCHANGED <<nonblocking, failures>>, stale' \subseteq stale,
         failed' \in [Rank -> BOOLEAN], DownIsRecovered'
  PROVE  Inductive'
  <1>1. pc' \in [Task -> Place]
    <2>1. at \in Place
      BY AllPlaces DEF Goes
    <2> QED
      BY <2>1 DEF Goes, Move, Inductive, TypeOK
  <1>2. /\ QueuesOfTasks' /\ Located' /\ SecuredIsHeld' /\ ByPriority' /\ SameOrder' /\ RecoveryIsLast'
        /\ \A res \in Resource : /\ IsInjective(queue[res])'
                                 /\ ToSet(queue[res])' = {u \in Task : res \in Uses(u, pc[u])}'
    BY QueuesStep
  <1>3. nonblocking' \in CaptureModes /\ stale' \subseteq Task /\ failures' \in 0 .. MaxFailures
    BY DEF Inductive, TypeOK
  <1>4. TypeOK'
    BY <1>1, <1>2, <1>3 DEF TypeOK
  <1> QED
    BY <1>2, <1>4 DEF Inductive

\* The steps of every process but a recovery keep the invariant.
LEMMA ProceedsKeeps ==
  ASSUME Inductive, NEW t \in Task, t[1] # "recovery", Proceeds(t)
  PROVE  Inductive'
  <1>1. PICK at, kept : Goes(t, at, kept)
    BY DEF Proceeds
  <1>2. UNCHANGED <<nonblocking, failed, failures>> /\ stale' \subseteq stale
    BY DEF Proceeds
  <1>3. ASSUME NEW r \in Rank
        PROVE  pc'[Recovery(r)] = pc[Recovery(r)]
    <2>1. Recovery(r) \in Task /\ Recovery(r) # t
      BY Recoveries
    <2> QED
      BY <1>1, <2>1 DEF Goes, Move, Inductive, TypeOK
  <1>4. \A x, y : Uses(x, y)' = Uses(x, y)
    BY <1>2, SameUses
  <1>5. DownIsRecovered'
    BY <1>2, <1>3, <1>4 DEF Inductive, DownIsRecovered
  <1>6. failed' \in [Rank -> BOOLEAN]
    BY <1>2 DEF Inductive, TypeOK
  <1> QED
    BY <1>1, <1>2, <1>5, <1>6, MoveKeeps

\* A step of a recovery.
LEMMA RecoveryKeeps ==
  ASSUME Inductive, NEW r \in Rank, NEW at, NEW kept, Goes(Recovery(r), at, kept),
         UNCHANGED <<nonblocking, failures>>, stale' \subseteq stale,
         failed' = [failed EXCEPT ![r] = (at # "idle")],
         Recovery(r) \in stale' => Uses(Recovery(r), at) # {}
  PROVE  Inductive'
  <1>1. failed \in [Rank -> BOOLEAN] /\ pc \in [Task -> Place]
    BY DEF Inductive, TypeOK
  <1>2. failed' \in [Rank -> BOOLEAN]
    BY <1>1
  <1>3. Recovery(r) \in Task /\ pc'[Recovery(r)] = at
    BY <1>1, Recoveries DEF Goes, Move
  <1>4. ASSUME NEW q \in Rank
        PROVE  /\ failed'[q] <=> pc'[Recovery(q)] # "idle"
               /\ Recovery(q) \in stale' => Uses(Recovery(q), pc'[Recovery(q)]) # {}
    <2>1. CASE q = r
      BY <1>1, <1>3, <2>1
    <2>2. CASE q # r
      <3>1. Recovery(q) \in Task /\ Recovery(q) # Recovery(r)
        BY <2>2, Recoveries
      <3>2. pc'[Recovery(q)] = pc[Recovery(q)] /\ failed'[q] = failed[q]
        BY <1>1, <2>2, <3>1 DEF Goes, Move
      <3> QED
        BY <3>2 DEF Inductive, DownIsRecovered
    <2> QED
      BY <2>1, <2>2
  <1>5. \A x, y : Uses(x, y)' = Uses(x, y)
    BY SameUses
  <1>6. DownIsRecovered'
    BY <1>4, <1>5 DEF DownIsRecovered
  <1> QED
    BY <1>2, <1>3, <1>6, MoveKeeps

\* The operations of recovery are such moves and keep the invariant.
LEMMA RecoverKeeps ==
  ASSUME Inductive, NEW r \in Rank, Recover(r), UNCHANGED nonblocking
  PROVE  Inductive' /\ \E at, kept : Goes(Recovery(r), at, kept)
  <1> DEFINE t == Recovery(r)
  <1>1. t \in Task /\ t[1] = "recovery" /\ t[2] = r /\ t \notin Shared
    BY Recoveries
  <1>2. pc[t] \in Places(t) /\ (failed[r] <=> pc[t] # "idle")
        /\ (t \in stale => Uses(t, pc[t]) # {}) /\ failed \in [Rank -> BOOLEAN]
    BY <1>1 DEF Inductive, Located, DownIsRecovered, TypeOK
  <1>3. Places(t) = {"idle", "restart", "fetch", "fetching", "restore", "restoring"}
    BY <1>1, PlacesOf
  <1>4. /\ Uses(t, "idle") = {} /\ Uses(t, "restart") = {}
        /\ Uses(t, "fetch") = {Cpu(r)} /\ Uses(t, "fetching") = {Cpu(r)}
        /\ Uses(t, "restore") = {Cpu(r), Gpu(r)} /\ Uses(t, "restoring") = {Cpu(r), Gpu(r)}
    <2> DEFINE use(at) == IF at \in {"fetch", "fetching"} THEN {Cpu(r)}
                          ELSE IF at \in {"restore", "restoring"} THEN {Cpu(r), Gpu(r)}
                          ELSE {}
    <2>1. \A at \in Places(t) : Uses(t, at) = use(at)
      BY <1>1, UsesOfRecovery
    <2> QED
      BY <1>3, <2>1
  <1> HIDE DEF t
  <1>5. /\ \A at \in {"fetch", "restore"} : Secured(t, at) = {}
        /\ \A at \in {"idle", "restart", "fetching", "restoring"} : Secured(t, at) = Uses(t, at)
    <2>1. \A at \in {"fetch", "restore"} : Secured(t, at) = {}
      BY <1>1 DEF Secured, Waiting
    <2>2. \A at \in {"idle", "restart", "fetching", "restoring"} : Secured(t, at) = Uses(t, at)
      BY <1>1, SecuredPlaces DEF Waiting
    <2> QED
      BY <2>1, <2>2
  <1>6. ASSUME NEW q \in Rank, NEW at \in Places(t), Gpu(q) \in Uses(t, at)
        PROVE  t = Recovery(q)
    BY <1>1, <1>6, UsesOfGpu
  <1>7. ASSUME NEW at \in {"idle", "restart", "fetch", "restore"}, Release(t, at)
        PROVE  Goes(t, at, {})
    <2>1. at \in Places(t) /\ Secured(t, at) = {}
      BY <1>3, <1>4, <1>5
    <2> QED
      BY <1>1, <1>6, <1>7, <2>1 DEF Release, Goes
  <1>8. CASE EndRestart(r)
    <2>1. pc[t] = "restart" /\ UNCHANGED <<failed, stale, failures>>
      BY <1>8 DEF EndRestart, t
    <2>2. PICK at \in {"fetch", "restore"} : Release(t, at)
      BY <1>8 DEF EndRestart, t
    <2>3. Goes(t, at, {})
      BY <1>7, <2>2
    <2>4. failed' = [failed EXCEPT ![r] = (at # "idle")]
      BY <1>2, <2>1
    <2>5. t \notin stale
      BY <1>2, <1>4, <2>1
    <2> QED
      BY <2>1, <2>3, <2>4, <2>5, RecoveryKeeps DEF t
  <1>9. CASE GiveUp(r)
    <2>1. t \in stale /\ Release(t, "restart") /\ stale' = stale \ {t} /\ UNCHANGED <<failed, failures>>
      BY <1>9 DEF GiveUp, t
    <2>2. Goes(t, "restart", {})
      BY <1>7, <2>1
    <2>3. failed[r]
      BY <1>2, <1>4, <2>1
    <2>4. failed' = [failed EXCEPT ![r] = ("restart" # "idle")]
      BY <1>2, <2>1, <2>3
    <2> QED
      BY <2>1, <2>2, <2>4, RecoveryKeeps DEF t
  <1>10. ASSUME NEW from, NEW to \in {"fetching", "restoring"}, Uses(t, from) = Uses(t, to),
                StartCopy(r, from, to), from # "idle"
         PROVE  Inductive' /\ \E at, kept : Goes(t, at, kept)
    <2>1. /\ pc[t] = from /\ t \notin stale /\ Granted(t) /\ Hold(t, to)
          /\ UNCHANGED <<failed, stale, failures>>
      BY <1>10 DEF StartCopy, t
    <2>2. to \in Places(t) /\ Secured(t, to) = Uses(t, to)
      BY <1>3, <1>5
    <2>3. Goes(t, to, Uses(t, from))
      BY <1>1, <1>10, <2>1, <2>2 DEF Hold, Goes
    <2>4. failed' = [failed EXCEPT ![r] = (to # "idle")]
      BY <1>2, <1>10, <2>1
    <2> QED
      BY <2>1, <2>3, <2>4, RecoveryKeeps DEF t
  <1>11. CASE StartCopy(r, "fetch", "fetching") \/ StartCopy(r, "restore", "restoring")
    <2>1. Uses(t, "fetch") = Uses(t, "fetching") /\ Uses(t, "restore") = Uses(t, "restoring")
      BY <1>4
    <2>a. "fetch" # "idle" /\ "restore" # "idle"
          /\ "fetching" \in {"fetching", "restoring"} /\ "restoring" \in {"fetching", "restoring"}
      OBVIOUS
    <2>2. CASE StartCopy(r, "fetch", "fetching")
      BY <1>10, <2>1, <2>2, <2>a, Zenon DEF t
    <2>3. CASE StartCopy(r, "restore", "restoring")
      BY <1>10, <2>1, <2>3, <2>a, Zenon DEF t
    <2> QED
      BY <1>11, <2>2, <2>3
  <1>12. CASE EndFetch(r)
    <2>1. /\ pc[t] = "fetching" /\ t \notin stale /\ Release(t, "restore")
          /\ UNCHANGED <<failed, stale, failures>>
      BY <1>12 DEF EndFetch, t
    <2>2. Goes(t, "restore", {})
      BY <1>7, <2>1
    <2>3. failed' = [failed EXCEPT ![r] = ("restore" # "idle")]
      BY <1>2, <2>1
    <2> QED
      BY <2>1, <2>2, <2>3, RecoveryKeeps DEF t
  <1>13. CASE EndRestore(r)
    <2>1. /\ t \notin stale /\ Release(t, "idle") /\ failed' = [failed EXCEPT ![r] = FALSE]
          /\ UNCHANGED <<stale, failures>>
      BY <1>13 DEF EndRestore, t
    <2>2. Goes(t, "idle", {})
      BY <1>7, <2>1
    <2>3. failed' = [failed EXCEPT ![r] = ("idle" # "idle")]
      BY <2>1
    <2> QED
      BY <2>1, <2>2, <2>3, RecoveryKeeps DEF t
  <1> QED
    BY <1>8, <1>9, <1>11, <1>12, <1>13 DEF Recover, t

\* A step of a process is a move of one of the two kinds and keeps the invariant.
LEMMA TaskKeeps ==
  ASSUME Inductive, NEW t \in Task, TaskStep(t)
  PROVE  Inductive' /\ \E at, kept : Goes(t, at, kept)
  <1>1. UNCHANGED nonblocking
    BY DEF TaskStep
  <1>2. t[1] = "recovery" => pc[t] \notin {"new", "wait"}
    BY PlacesOf DEF Inductive, Located
  <1>3. CASE Begin(t) \/ Wake(t)
    <2>1. t[1] # "recovery" /\ Attempt(t) /\ UNCHANGED <<failed, failures>>
      BY <1>2, <1>3 DEF Begin, Wake
    <2>2. Proceeds(t)
      BY <1>1, <2>1, AttemptGoes
    <2> QED
      BY <2>1, <2>2, ProceedsKeeps DEF Proceeds
  <1>4. CASE t \in Training /\ TrainingStep(t)
    <2>1. Proceeds(t) /\ t[1] # "recovery"
      BY <1>1, <1>4, Kinds, TrainingGoes
    <2> QED
      BY <2>1, ProceedsKeeps DEF Proceeds
  <1>5. CASE t[1] = "checkpoint" /\ (Capture(t) \/ Flush(t))
    <2>1. Proceeds(t)
      BY <1>1, <1>5, CheckpointGoes
    <2> QED
      BY <1>5, <2>1, ProceedsKeeps DEF Proceeds
  <1>6. CASE t[1] = "recovery" /\ Recover(t[2])
    <2>1. t[2] \in Rank /\ t = Recovery(t[2])
      BY <1>6, Kinds
    <2> QED
      BY <1>1, <1>6, <2>1, RecoverKeeps
  <1> QED
    BY <1>3, <1>4, <1>5, <1>6 DEF TaskStep

\* A failure touches no queue: a recovery that sets out has asked for nothing.
LEMMA FailKeeps ==
  ASSUME Inductive, NEW r \in Rank, Fail(r)
  PROVE  Inductive'
  <1>1. /\ failures < MaxFailures /\ failures' = failures + 1
        /\ failed' = [failed EXCEPT ![r] = TRUE]
        /\ stale' = stale \cup {t \in Task : /\ r \in Watched(t, pc[t])
                                             /\ Uses(t, pc[t]) # {}}
        /\ pc' = IF failed[r] THEN pc ELSE [pc EXCEPT ![Recovery(r)] = "restart"]
        /\ UNCHANGED <<nonblocking, queue>>
    BY DEF Fail
  <1>2. pc \in [Task -> Place] /\ failed \in [Rank -> BOOLEAN] /\ failures \in 0 .. MaxFailures
        /\ stale \subseteq Task /\ nonblocking \in CaptureModes
    BY DEF Inductive, TypeOK
  <1>3. Recovery(r) \in Task /\ Recovery(r)[1] = "recovery"
    BY Recoveries
  <1>4. failed[r] <=> pc[Recovery(r)] # "idle"
    BY DEF Inductive, DownIsRecovered
  <1>5. /\ \A t \in Task : t # Recovery(r) => pc'[t] = pc[t]
        /\ pc'[Recovery(r)] = pc[Recovery(r)]
           \/ (pc[Recovery(r)] = "idle" /\ pc'[Recovery(r)] = "restart")
        /\ pc'[Recovery(r)] # "idle"
    BY <1>1, <1>2, <1>3, <1>4
  <1>6. {"idle", "restart"} \subseteq Places(Recovery(r))
    BY <1>3, PlacesOf
  <1>7. \A at \in {"idle", "restart"} : Uses(Recovery(r), at) = {} /\ Secured(Recovery(r), at) = {}
    <2>1. \A at \in {"idle", "restart"} : Uses(Recovery(r), at) = {}
      BY <1>3, <1>6, UsesOfRecovery
    <2>2. \A at \in {"idle", "restart"} : Secured(Recovery(r), at) = Uses(Recovery(r), at)
      BY <1>3, SecuredPlaces DEF Waiting
    <2> QED
      BY <2>1, <2>2
  <1>8. ASSUME NEW t \in Task
        PROVE  /\ Uses(t, pc'[t]) = Uses(t, pc[t]) /\ Secured(t, pc'[t]) = Secured(t, pc[t])
               /\ Priority(t, pc'[t]) = Priority(t, pc[t])
    <2>1. CASE t # Recovery(r) \/ pc'[t] = pc[t]
      BY <1>5, <2>1
    <2>2. CASE t = Recovery(r) /\ pc'[t] # pc[t]
      BY <1>3, <1>5, <1>7, <2>2 DEF Priority
    <2> QED
      BY <2>1, <2>2
  <1>9. \A x, y : /\ Uses(x, y)' = Uses(x, y) /\ Places(x)' = Places(x)
                  /\ Secured(x, y)' = Secured(x, y)
    BY <1>1, SameUses
  <1>10. TypeOK'
    <2>1. pc' \in [Task -> Place]
      BY <1>1, <1>2 DEF Place
    <2>2. failures' \in 0 .. MaxFailures
      BY <1>1, <1>2, ResourcesAssumption
    <2>3. nonblocking' \in CaptureModes /\ failed' \in [Rank -> BOOLEAN] /\ stale' \subseteq Task
      BY <1>1, <1>2
    <2>4. ASSUME NEW res \in Resource
          PROVE  IsInjective(queue[res])' /\ ToSet(queue[res])' = {t \in Task : res \in Uses(t, pc[t])}'
      <3>1. {t \in Task : res \in Uses(t, pc'[t])} = {t \in Task : res \in Uses(t, pc[t])}
        BY <1>8
      <3> QED
        BY <1>1, <1>9, <3>1, QueueFacts
    <2> QED
      BY <2>1, <2>2, <2>3, <2>4 DEF TypeOK
  <1>11. QueuesOfTasks'
    BY <1>1 DEF Inductive, QueuesOfTasks
  <1>12. Located'
    BY <1>5, <1>6, <1>9 DEF Inductive, Located
  <1>13. DownIsRecovered'
    <2> SUFFICES ASSUME NEW q \in Rank
                 PROVE  /\ failed'[q] <=> pc'[Recovery(q)] # "idle"
                        /\ Recovery(q) \in stale' => Uses(Recovery(q), pc'[Recovery(q)]) # {}
      BY <1>9 DEF DownIsRecovered
    <2>1. Recovery(q) \in Task /\ (q # r => Recovery(q) # Recovery(r))
      BY Recoveries
    <2>2. /\ failed[q] <=> pc[Recovery(q)] # "idle"
          /\ Recovery(q) \in stale => Uses(Recovery(q), pc[Recovery(q)]) # {}
      BY DEF Inductive, DownIsRecovered
    <2>3. Recovery(q) \in stale' => Uses(Recovery(q), pc[Recovery(q)]) # {}
      BY <1>1, <2>2
    <2>4. failed'[q] <=> pc'[Recovery(q)] # "idle"
      BY <1>1, <1>2, <1>5, <2>1, <2>2
    <2> QED
      BY <1>8, <2>1, <2>3, <2>4
  <1>14. SecuredIsHeld'
    BY <1>1, <1>8, <1>9 DEF Inductive, SecuredIsHeld
  <1>15. ByPriority'
    <2> SUFFICES ASSUME NEW p \in Rank, NEW t \in Task, NEW u \in Task,
                        Before(queue'[Cpu(p)], t, u), Head(queue'[Cpu(p)]) # t
                 PROVE  Priority(t, pc'[t]) <= Priority(u, pc'[u])
      BY DEF ByPriority, Priority
    <2> QED
      BY <1>1, <1>8 DEF Inductive, ByPriority
  <1>16. SameOrder'
    <2>1. Shared \subseteq Task
      BY SharedKinds
    <2> SUFFICES ASSUME NEW t \in Shared, NEW u \in Shared, NEW res \in Resource, NEW other \in Resource,
                        {res, other} \subseteq Uses(t, pc'[t]) \cap Uses(u, pc'[u]),
                        Before(queue'[res], t, u)
                 PROVE  Before(queue'[other], t, u)
      BY <1>9 DEF SameOrder
    <2> QED
      BY <1>1, <1>8, <2>1 DEF Inductive, SameOrder
  <1>17. RecoveryIsLast'
    BY <1>1 DEF Inductive, RecoveryIsLast
  <1> QED
    BY <1>10, <1>11, <1>12, <1>13, <1>14, <1>15, <1>16, <1>17 DEF Inductive

\* Nothing is asked for at first.
LEMMA InitInductive == Init => Inductive
  <1> SUFFICES ASSUME Init PROVE Inductive
    OBVIOUS
  <1>1. /\ nonblocking \in CaptureModes
        /\ pc = [t \in Task |-> IF t[1] = "recovery" THEN "idle" ELSE "new"]
        /\ queue = [res \in Resource |-> <<>>]
        /\ failed = [r \in Rank |-> FALSE] /\ stale = {} /\ failures = 0
    BY DEF Init
  <1>2. Located
    BY <1>1, Kinds, PlacesOf DEF Located
  <1>3. ASSUME NEW t \in Task PROVE Uses(t, pc[t]) = {}
    <2>1. CASE t[1] = "recovery"
      BY <1>1, <1>2, <2>1, UsesOfRecovery DEF Located
    <2>2. CASE t[1] # "recovery"
      <3>1. pc[t] = "new" /\ "new" \in Places(t)
        BY <1>1, <1>2, <2>2 DEF Located
      <3> QED
        <4>1. CASE t[1] = "work"
          BY <3>1, <4>1, UsesOfWork
        <4>2. CASE t[1] = "transfer"
          BY <3>1, <4>2, UsesOfTransfer
        <4>3. CASE t[1] = "collective"
          BY <3>1, <4>3, UsesOfCollective
        <4>4. CASE t[1] = "checkpoint"
          BY <3>1, <4>4, UsesOfCheckpoint, Zenon
        <4> QED
          BY <2>2, <4>1, <4>2, <4>3, <4>4, Kinds
    <2> QED
      BY <2>1, <2>2
  <1>4. QueuesOfTasks
    BY <1>1 DEF QueuesOfTasks
  <1>5. \A a, b : ~Before(<<>>, a, b)
    BY DEF Before
  <1>6. TypeOK
    <2>1. pc \in [Task -> Place] /\ failed \in [Rank -> BOOLEAN] /\ stale \subseteq Task
          /\ nonblocking \in CaptureModes /\ failures \in 0 .. MaxFailures
      BY <1>1, ResourcesAssumption DEF Place
    <2>2. ASSUME NEW res \in Resource
          PROVE  IsInjective(queue[res]) /\ ToSet(queue[res]) = {t \in Task : res \in Uses(t, pc[t])}
      <3>1. queue[res] = <<>>
        BY <1>1
      <3>2. IsInjective(<<>>) /\ ToSet(<<>>) = {}
        BY DEF IsInjective, ToSet
      <3> QED
        BY <1>3, <3>1, <3>2
    <2> QED
      BY <2>1, <2>2 DEF TypeOK
  <1>7. DownIsRecovered
    BY <1>1, Recoveries DEF DownIsRecovered
  <1>8. SecuredIsHeld
    <2> SUFFICES ASSUME NEW t \in Task PROVE Secured(t, pc[t]) = {}
      BY DEF SecuredIsHeld
    <2>1. pc[t] \notin Waiting
      BY <1>1 DEF Waiting
    <2> QED
      BY <1>3, <2>1, SecuredPlaces
  <1>9. \A res \in Resource, a, b \in Task : ~Before(queue[res], a, b)
    BY <1>1, <1>5
  <1>10. ByPriority /\ SameOrder /\ RecoveryIsLast
    BY <1>9, ResourceKinds, SharedKinds, Recoveries DEF ByPriority, SameOrder, RecoveryIsLast
  <1> QED
    BY <1>2, <1>4, <1>6, <1>7, <1>8, <1>10 DEF Inductive

-----------------------------------------------------------------------------
(* The theorems. *)

\* Every step keeps the invariant.
LEMMA NextKeeps ==
  ASSUME Inductive, [Next]_vars
  PROVE  Inductive'
  <1>1. CASE \E t \in Task : TaskStep(t)
    BY <1>1, TaskKeeps
  <1>2. CASE \E r \in Rank : Fail(r)
    BY <1>2, FailKeeps
  <1>3. CASE UNCHANGED vars
    <2>1. UNCHANGED <<nonblocking, pc, queue, failed, stale, failures>>
      BY <1>3 DEF vars
    <2>2. \A t, at : Uses(t, at)' = Uses(t, at) /\ Places(t)' = Places(t) /\ Secured(t, at)' = Secured(t, at)
      BY <2>1, SameUses
    <2>3. TypeOK'
      BY <2>1, <2>2 DEF Inductive, TypeOK
    <2>4. QueuesOfTasks' /\ Located' /\ DownIsRecovered' /\ SecuredIsHeld' /\ SameOrder' /\ RecoveryIsLast'
      BY <2>1, <2>2 DEF Inductive, QueuesOfTasks, Located, DownIsRecovered, SecuredIsHeld, SameOrder,
                        RecoveryIsLast
    <2>5. ByPriority'
      BY <2>1 DEF Inductive, ByPriority, Priority
    <2> QED
      BY <2>3, <2>4, <2>5 DEF Inductive
  <1> QED
    BY <1>1, <1>2, <1>3 DEF Next, AllDone

\* The invariant holds for any transfers, collectives and failures.
THEOREM Invariance == Spec => []Inductive
  BY InitInductive, NextKeeps, PTL DEF Spec

\* Every queue holds exactly the requests that the code of the processes has
\* out, whatever was granted, given up, aborted and retried on the way.
THEOREM TypeCorrect == Spec => []TypeOK
  <1>1. Inductive => TypeOK
    BY DEF Inductive
  <1> QED
    BY <1>1, Invariance, PTL

\* No processes wait for each other in a circle, but through a capture that
\* waits for the CPU with its GPU held (runtime.py:450-460, tiered.py:265-270).
THEOREM NoDeadlockCorrect == Spec => []NoDeadlock
  <1>1. Inductive => NoDeadlock
    BY InductiveFree
  <1> QED
    BY <1>1, Invariance, PTL

\* What takes the CPU of a worker when its recovery waits for it is the
\* recovery, unless the one that has the CPU keeps it.
LEMMA RecoveryNext ==
  ASSUME Inductive, [Next]_vars, NEW r \in Rank,
         \E i \in 2 .. Len(queue[Cpu(r)]) : queue[Cpu(r)][i] = Recovery(r)
  PROVE  Head(queue'[Cpu(r)]) \in {Head(queue[Cpu(r)]), Recovery(r)}
  <1> DEFINE res == Cpu(r)
             q == queue[res]
             h == Head(q)
  <1>0. res \in Resource /\ res[1] = "cpu"
    BY ResourceKinds
  <1>1. q \in Seq(Task) /\ IsInjective(q) /\ ToSet(q) = {t \in Task : res \in Uses(t, pc[t])}
    BY <1>0, QueueFacts
  <1>2. q # <<>> /\ Recovery(r) \in ToSet(q) /\ Recovery(r) # h
    <2>1. PICK i \in 2 .. Len(q) : q[i] = Recovery(r)
      OBVIOUS
    <2>2. q # <<>> /\ h = q[1] /\ DOMAIN q = 1 .. Len(q) /\ 1 \in DOMAIN q /\ i \in DOMAIN q /\ i # 1
      BY <1>1, <2>1
    <2> QED
      BY <1>1, <2>1, <2>2 DEF IsInjective, ToSet
  <1> SUFFICES ASSUME NEW t \in Task, TaskStep(t) PROVE Head(queue'[res]) \in {h, Recovery(r)}
    BY DEF Next, Fail, AllDone, vars
  <1>3. PICK at, kept : Goes(t, at, kept)
    BY TaskKeeps
  <1> HIDE DEF res, q, h
  <1>4. Move(t, at, kept)
    BY <1>3 DEF Goes
  <1>5. CASE h # t \/ res \in kept
    BY <1>0, <1>2, <1>4, <1>5, MoveOrder DEF q, h
  <1>6. CASE h = t /\ res \notin kept
    <2>1. /\ queue'[res] \in Seq(Task) /\ IsInjective(queue'[res])
          /\ \A a, b : a # t /\ b # t => (Before(queue'[res], a, b) <=> Before(q, a, b))
          /\ ToSet(queue'[res]) = (ToSet(q) \ {t}) \cup (IF res \in Uses(t, at) THEN {t} ELSE {})
      BY <1>0, <1>4, <1>6, MoveOrder DEF q
    <2>2. Recovery(r) \in ToSet(queue'[res])
      BY <1>2, <1>6, <2>1
    <2>3. queue'[res] # <<>>
      BY <2>2 DEF ToSet
    <2> DEFINE g == Head(queue'[res])
    <2> SUFFICES ASSUME g # t, g # Recovery(r) PROVE FALSE
      BY <1>6
    <2>4. g \in ToSet(queue'[res]) /\ Before(queue'[res], g, Recovery(r))
      BY <2>1, <2>2, <2>3, HeadFirst
    <2> HIDE DEF g
    <2>5. Before(q, g, Recovery(r)) /\ g \in ToSet(q)
      BY <1>2, <1>6, <2>1, <2>4
    <2>6. Recovery(r) \in Task /\ Recovery(r)[1] = "recovery"
      BY Recoveries
    <2>7. g \in Task /\ res \in Uses(g, pc[g])
      BY <1>1, <2>5
    <2>8. Priority(g, pc[g]) <= Priority(Recovery(r), pc[Recovery(r)])
      BY <1>6, <2>5, <2>6, <2>7 DEF Inductive, ByPriority, q, h, res
    <2>9. g[1] = "recovery"
      BY <2>6, <2>8 DEF Priority
    <2>10. pc[g] \in Places(g)
      BY <2>7 DEF Inductive, Located
    <2>11. g = Recovery(r)
      BY <2>7, <2>9, <2>10, UsesOfCpu DEF res
    <2> QED
      BY <2>11
  <1> QED
    BY <1>5, <1>6

\* A recovery that waits for its CPU gets it next, before any capture, flush
\* chunk or transfer launch that waits as well (tiered.py:703-705).
THEOREM RecoveryFirstCorrect == Spec => RecoveryServedFirst
  <1>1. Inductive /\ [Next]_vars =>
          [\A r \in Rank :
             LET q == queue[Cpu(r)]
             IN  (\E i \in 2..Len(q) : q[i] = Recovery(r))
                 => Head(queue'[Cpu(r)]) \in {Head(q), Recovery(r)}]_vars
    BY RecoveryNext
  <1> QED
    BY <1>1, Invariance, PTL DEF Spec, RecoveryServedFirst
=============================================================================

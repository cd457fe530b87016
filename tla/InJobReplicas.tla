---------------------------- MODULE InJobReplicas ----------------------------
(***************************************************************************)
(* The checkpoints that a wide job keeps on its own nodes or in the store: *)
(* the baselines of checkpointing/baselines.py and the placement injob_ssd *)
(* of the cross-job strategy, under failures of one cohort, evictions and  *)
(* rack events.                                                            *)
(*                                                                         *)
(* A cohort is one node here; CohortRuntime has wide ones, the other kinds *)
(* of failures and the books.  "copies" is what the simulator records;     *)
(* "real" is what is on nodes that have neither failed nor gone dark.      *)
(* A flight ends when the generation of a worker it watches moves on.  A   *)
(* boundary takes no time: flights go on while the job iterates, and those *)
(* of a job that recovers have been cancelled.                             *)
(***************************************************************************)
EXTENDS Integers, FiniteSets, FiniteSetsExt

CONSTANTS
    Iterations,
    Settings,   \* of an arm: strategy, ranks, peers, store, racks, intact
    MaxEvents   \* bound: failures, evictions and rack events

\* A job has a cohort, and one strategy.
ReplicaAssumption ==
    /\ Iterations \in Nat /\ MaxEvents \in Nat
    /\ Settings \subseteq
           [strategy : {"gemini", "injob_ssd", "checkfreq", "checknrun", "megascale", "jit"},
            ranks : Nat \ {0}, peers : Nat, store : Nat, racks : BOOLEAN, intact : BOOLEAN]

ASSUME ReplicaAssumption

VARIABLES
    setting,
    pc, next,   \* of the job: where it is, and where it goes on after a recovery
    it,         \* iterations done
    lastStore,  \* iteration of the last backstop
    flights,    \* checkpoints on their way
    launched,   \* newest iteration whose flow a cohort has started
    copies,     \* recorded copies
    real,       \* copies that exist
    failed, dark, relocated,
    late,       \* copies that landed on a dark node
    batch, recovered, target,
    events

replicaVars == <<setting, pc, next, it, lastStore, flights, launched, copies, real, failed,
                 dark, relocated, late, batch, recovered, target, events>>
recovery == <<next, batch, recovered, target>>

Ranks == setting.ranks  \* cohorts of the job
Cohort == 0..(Ranks - 1)
Store == -1

-----------------------------------------------------------------------------
(* Copies. *)

Copy(owner, at, tier, i) == [owner |-> owner, at |-> at, tier |-> tier, it |-> i]
SameKey(c, d) == c.owner = d.owner /\ c.at = d.at /\ c.tier = d.tier

\* _put_copy, _put_store_copy and the pieces of injob_ssd: a copy takes the place of the one
\* that was there, unless that is newer.
PutAll(cs, new) ==
    LET taken == {c \in new : c.it <= it /\ \A d \in cs : SameKey(c, d) => ~(d.it > c.it)}
    IN  {d \in cs : \A c \in taken : ~SameKey(c, d)} \cup taken

Put(cs, c) == PutAll(cs, {c})

\* The copies that are left when the job is back at iteration i.
Until(cs, i) == {c \in cs : c.it <= i}

\* The newest iteration that cohort w could restore if the job were at i: peers that
\* are down do not count.
Peek(w, i) ==
    Max({-1} \cup {c.it : c \in {c \in Until(copies, i) :
                                     c.owner = w /\ (c.at = w \/ c.at \notin failed)}})

Positive(i) == IF i < 0 THEN 0 ELSE i

\* The newest iteration common to the cohorts of S.
Plan(S) ==
    LET from[i \in 0..Iterations] ==
            LET lower == Min({Positive(Peek(w, i)) : w \in S})
            IN  IF lower = i THEN i ELSE from[lower]
    IN  from[it]

-----------------------------------------------------------------------------
(* Flights. *)

\* The n peers of a cohort: a ring over the other ones in the order of their ranks.
Ring(w, n) ==
    LET Other(k) == IF k < w THEN k ELSE k + 1
    IN  IF Ranks = 1 THEN {}
        ELSE {Other((w + j) % (Ranks - 1)) : j \in 0..(Min({n, Ranks - 1}) - 1)}

Flight(w, i, step, to) == [owner |-> w, it |-> i, step |-> step, to |-> to,
                           watched |-> {w} \cup ({t[1] : t \in to} \ {Store})]

\* The flights that watch none of the cohorts.
Undisturbed(cohorts) == {f \in flights : f.watched \cap cohorts = {}}

\* Where the shard of cohort w is persisted; nothing when it has no peers.
PersistedAt(w) ==
    LET neighbours == Ring(w, 1) \ failed
    IN  CASE setting.strategy = "gemini" -> Ring(w, setting.peers) \X {"dram"}
          [] setting.strategy = "injob_ssd" ->
                 IF neighbours = {} THEN {<<w, "ssd">>} ELSE neighbours \X {"ssd"}
          [] setting.strategy = "checkfreq" -> {<<w, "ssd">>}
          [] setting.strategy \in {"checknrun", "megascale"} -> {<<Store, "store">>}

\* The flights that the wave of iteration i starts; just-in-time takes no checkpoints.
Wave(i) ==
    IF setting.strategy = "jit" \/ i = Iterations THEN {}
    ELSE {Flight(w, i, "capture", {}) : w \in Cohort} \cup
         IF setting.store > 0 /\ i - lastStore >= setting.store
             THEN {Flight(w, i, "flow", {<<Store, "store">>}) : w \in Cohort} ELSE {}

\* A snapshot is in host memory; it waits for the flow before it.
Capture(f) ==
    /\ pc = "iterate" /\ f \in flights /\ f.step = "capture"
    /\ \A g \in flights : g.owner = f.owner /\ g.step = "capture" => g.it >= f.it
    /\ LET c == Copy(f.owner, f.owner, "dram", f.it)
       IN  /\ copies' = Put(copies, c)
           /\ real' = Put(real, c)
    /\ flights' = (flights \ {f}) \cup {Flight(f.owner, f.it, "queued", {})}
    /\ UNCHANGED <<setting, pc, it, lastStore, launched, failed, dark, relocated, late,
                   recovery, events>>

\* Its flow starts, unless a newer one has.
Launch(f) ==
    /\ pc = "iterate" /\ f \in flights /\ f.step = "queued"
    /\ \A g \in flights : g.owner = f.owner /\ g.step = "flow" => <<Store, "store">> \in g.to
    /\ IF f.it <= launched[f.owner] \/ PersistedAt(f.owner) = {}
           THEN flights' = flights \ {f}
           ELSE flights' = (flights \ {f}) \cup
                               {Flight(f.owner, f.it, "flow", PersistedAt(f.owner))}
    /\ launched' = [launched EXCEPT ![f.owner] = Max({@, f.it})]
    /\ UNCHANGED <<setting, pc, it, lastStore, copies, real, failed, dark, relocated, late,
                   recovery, events>>

Land(f) ==
    /\ pc = "iterate" /\ f \in flights /\ f.step = "flow"
    /\ LET landed == {Copy(f.owner, t[1], t[2], f.it) : t \in f.to}
       IN  /\ copies' = PutAll(copies, landed)
           /\ real' = PutAll(real, {c \in landed : c.at \notin dark})
           /\ late' = late \cup {c \in landed : c.at \in dark}
    /\ flights' = flights \ {f}
    /\ UNCHANGED <<setting, pc, it, lastStore, launched, failed, dark, relocated, recovery,
                   events>>

-----------------------------------------------------------------------------
(* The job. *)

Looping == IF it < Iterations THEN "iterate" ELSE "done"

RolledBackTo(i) ==
    /\ it' = i
    /\ lastStore' = Min({lastStore, i})
    /\ launched' = [w \in Cohort |-> Min({launched[w], i})]

Iterate ==
    /\ pc = "iterate" /\ pc' = "checks"
    /\ it' = it + 1
    /\ flights' = flights \cup Wave(it')
    /\ lastStore' = IF \E f \in Wave(it') : f.step = "flow" THEN it' ELSE lastStore
    /\ UNCHANGED <<setting, launched, copies, real, failed, dark, relocated, late, recovery,
                   events>>

Event == events < MaxEvents /\ events' = events + 1

\* _whole_job_eviction, when it is requested: every node of the job is lost.
WholeJobEviction ==
    /\ pc = "checks"
    /\ \/ /\ pc' = "racks"
          /\ UNCHANGED <<flights, copies, real, failed, recovery, events>>
       \/ /\ Event /\ pc' = "plan" /\ next' = "racks"
          /\ flights' = {}
          /\ copies' = {c \in copies : c.at = Store}
          /\ real' = {c \in real : c.at = Store}
          /\ failed' = Cohort /\ batch' = Cohort /\ recovered' = {}
          /\ UNCHANGED target
    /\ UNCHANGED <<setting, it, lastStore, launched, dark, relocated, late>>

\* Mutant of Redropped: what lands after the event is kept.
NothingRedropped == {}

\* The late copies that the restart drops again: those of self.copies, among which the
\* pieces on the disks of neighbours are not.
Redropped == {c \in late : c.tier = "dram" \/ c.at = c.owner}

\* _rack_failure, at the first boundary after the events.
RackFailure ==
    /\ pc = "racks"
    /\ IF dark = {}
           THEN /\ pc' = "failures"
                /\ UNCHANGED <<flights, copies, failed, dark, late, recovery>>
           ELSE /\ pc' = "plan" /\ next' = "failures"
                /\ flights' = {}
                /\ copies' = copies \ Redropped
                /\ failed' = failed \cup dark /\ batch' = dark /\ recovered' = {}
                /\ dark' = {} /\ late' = {}
                /\ UNCHANGED target
    /\ UNCHANGED <<setting, it, lastStore, launched, real, relocated, events>>

\* The cohorts of an eviction or of a rack event restore one iteration, in parallel.
Replan ==
    /\ pc = "plan" /\ pc' = "recover"
    /\ target' = Plan(batch)
    /\ RolledBackTo(target')
    /\ copies' = Until(copies, target') /\ real' = Until(real, target')
    /\ UNCHANGED <<setting, next, flights, failed, dark, relocated, late, batch, recovered,
                   events>>

\* _finish_restore: what is restored is in host memory first.
Back(w) == Copy(w, w, "dram", target)

Restored(w) ==
    LET c == Back(w)
    IN  /\ pc = "recover" /\ w \in batch \ recovered
        /\ copies' = Put(copies, c)
        /\ IF w \in dark THEN late' = late \cup {c} /\ UNCHANGED real
           ELSE real' = Put(real, c) /\ UNCHANGED late
        /\ failed' = failed \ {w}
        /\ recovered' = recovered \cup {w}
        /\ UNCHANGED <<setting, pc, next, it, lastStore, flights, launched, dark, relocated,
                       batch, target, events>>

Recovered ==
    /\ pc = "recover" /\ batch = recovered
    /\ pc' = next
    /\ UNCHANGED <<setting, it, lastStore, flights, launched, copies, real, failed, dark,
                   relocated, late, recovery, events>>

\* What the failure of a node destroys on it, by its type.
Lost(type) ==
    CASE type = "process" -> {}
      [] type = "reboot" -> {"dram"}
      [] type = "node" -> {"dram", "ssd"}

\* The records that the failure of a node removes.
Dropped(w, type) == {c \in copies : c.at = w /\ c.tier \in Lost(type)}

\* _single_node_failure: the failure of one cohort, or of none.
SingleNodeFailure ==
    /\ pc = "failures"
    /\ \/ /\ pc' = Looping
          /\ UNCHANGED <<flights, copies, real, failed, recovery, events>>
       \/ /\ Event /\ pc' = "restart"
          /\ \E w \in Cohort, type \in {"process", "reboot", "node"} :
                /\ failed' = {w} /\ batch' = {w}
                /\ copies' = copies \ Dropped(w, type)
                /\ real' = {c \in real : c.at # w \/ c.tier \notin Lost(type)}
          /\ flights' = {}
          /\ UNCHANGED <<next, recovered, target>>
    /\ UNCHANGED <<setting, it, lastStore, launched, dark, relocated, late>>

\* jit_drain: the iteration before, from a replica that survives, if it holds the whole
\* state; what else is recorded does not count.
Drained == IF setting.intact /\ Cohort # failed THEN Positive(it - 1) ELSE 0

\* What the failed cohort will recover.
Choose ==
    /\ pc = "restart" /\ pc' = "fetch"
    /\ \E w \in batch :
          target' = IF setting.strategy = "jit" THEN Drained ELSE Positive(Peek(w, it))
    /\ UNCHANGED <<setting, next, it, lastStore, flights, launched, copies, real, failed,
                   dark, relocated, late, batch, recovered, events>>

Fetch ==
    /\ pc = "fetch" /\ pc' = "failures"
    /\ RolledBackTo(target)
    /\ LET landed == {Back(w) : w \in batch}
       IN  /\ copies' = Until(PutAll(copies, landed), target)
           /\ real' = Until(PutAll(real, {c \in landed : c.at \notin dark}), target)
           /\ late' = late \cup {c \in landed : c.at \in dark}
    /\ failed' = {}
    /\ UNCHANGED <<setting, flights, dark, relocated, recovery, events>>

\* RackFailureCoordinator.fire for the cohorts of a rack: their nodes are dark for the rest
\* of the run; a replacement is in no rack.
RackEvent(hit) ==
    /\ setting.racks /\ Event
    /\ pc \in {"iterate", "recover", "fetch"} /\ hit \cap relocated = {} /\ hit # {}
    /\ relocated' = relocated \cup hit /\ dark' = dark \cup hit
    /\ copies' = {c \in copies : c.at \notin hit}
    /\ real' = {c \in real : c.at \notin hit}
    /\ flights' = Undisturbed(hit \ failed)
    /\ UNCHANGED <<setting, pc, it, lastStore, launched, failed, late, recovery>>

-----------------------------------------------------------------------------

ReplicaInit ==
    /\ setting \in Settings
    /\ pc = "iterate" /\ next = "iterate" /\ it = 0 /\ lastStore = 0
    /\ flights = {} /\ launched = [w \in 0..(setting.ranks - 1) |-> -1]
    /\ copies = {} /\ real = {} /\ late = {}
    /\ failed = {} /\ dark = {} /\ relocated = {}
    /\ batch = {} /\ recovered = {} /\ target = 0
    /\ events = 0

JobAction ==
    \/ Iterate \/ WholeJobEviction \/ RackFailure \/ Replan \/ Recovered \/ SingleNodeFailure
    \/ Choose \/ Fetch \/ \E w \in batch : Restored(w)

ReplicaNext ==
    \/ JobAction
    \/ \E f \in flights : Capture(f) \/ Launch(f) \/ Land(f)
    \/ \E hit \in SUBSET Cohort : RackEvent(hit)

\* Training goes on and the restart times pass.
ReplicaSpec == ReplicaInit /\ [][ReplicaNext]_replicaVars /\ WF_replicaVars(JobAction)

-----------------------------------------------------------------------------
(* Properties. *)

\* A copy that is recorded on a node in service exists: it did not land on a node that
\* failed or went dark while it received it ("goes dark with the host rack",
\* checkpointing/crossjob.py:1945-1946; "a replica is never recorded on a node that failed
\* while receiving it", checkpointing/baselines.py:239-240).
RecordsAreReal == \A c \in copies : c.at \notin dark => c \in real

\* A copy that exists is recorded: a failure makes the job forget no more than it destroys.
SurvivorsFound == real \subseteq copies

\* What an arm with a baseline strategy records is what it has, and what it has it finds,
\* whatever landed between a rack event and the next boundary (_rack_failure,
\* _single_node_failure). Where neighbours write to disks that can go dark, RecordsAreReal
\* fails.
WritesToDarkDisks == setting.strategy = "injob_ssd" /\ setting.racks
CopiesExact == ~WritesToDarkDisks => RecordsAreReal /\ SurvivorsFound

\* The job ends, whatever it is rolled back to.
Ends == pc = "done"
=============================================================================

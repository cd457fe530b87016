---------------------------- MODULE CohortRuntime ----------------------------
(***************************************************************************)
(* One wide job of run_scenario.py: its cohorts train in lock step, their  *)
(* checkpoints travel in processes of their own, and four sources of       *)
(* failures reach the job at different times: scheduled and random         *)
(* failures of one cohort, evictions of the whole job, events of a rack    *)
(* and the events of a replayed trace.  What an event destroys, it         *)
(* destroys at once; the job is stopped, rolled back and restarted at the  *)
(* next boundary of an iteration.                                          *)
(*                                                                         *)
(* Abstracted: durations and the random streams; how a strategy moves the  *)
(* bytes (see CrossJob) - a checkpoint in flight lands or is dropped.  A   *)
(* generation or an epoch that is bumped is the end of the flights that    *)
(* carry the old one.  MaxEvents bounds the events of one behaviour.       *)
(***************************************************************************)
EXTENDS Integers, FiniteSets, FiniteSetsExt

CONSTANTS Represents,     \* nodes of each cohort, a sequence
          RackSize, NodeCount,
          Iterations,
          Cadences,       \* the triples <<checkpoint, capture, store>> of a policy
          Settings,       \* [sources, cadence]: the sources of events considered
                          \* together and the policy at first; with
                          \* "hosting" other jobs place pieces here, with "jit"
                          \* replicas recover one another
          MaxEvents

Cohorts == DOMAIN Represents

ASSUME CohortAssumption ==
  /\ Cohorts # {} /\ \A c \in Cohorts : Represents[c] \in Nat \ {0}
  /\ RackSize \in Nat \ {0} /\ NodeCount \in Nat
  /\ Iterations \in Nat \ {0} /\ MaxEvents \in Nat
  /\ \A c \in Cadences : c[1] \in Nat \ {0} /\ c[2] \in Nat /\ c[3] \in Nat
  /\ \A s \in Settings : s.cadence \in Cadences

VARIABLES sources,    \* the sources of this run
          state,      \* of the job
          pc,         \* where its process is
          resume,     \* where it goes on after a failure of one cohort
          cadence,    \* the policy in force
          it,         \* iterations done, of the current timeline
          lastStore,  \* iteration of the last backstop
          copies,     \* newest iteration in each tier of each cohort, -1: none
          flights,    \* checkpoints on their way: <<cohort, iteration, kind>>
          hosted,     \* tiers in which a cohort hosts pieces of other jobs
          incoming,   \* cohorts to which such a piece is on its way
          failed,     \* cohorts that are down
          available,  \* cohorts whose slot is offered to other jobs
          relocated,  \* cohorts on replacement nodes, which are in no rack
          preempt,    \* an eviction is requested
          dark,       \* cohorts hit by a rack event, and whether entirely
          late,       \* <<cohort, tier>> that landed after the event
          batch,      \* the cohorts that are being recovered
          goal,       \* the iteration that the recovery of one cohort restores
          recovered,  \* those of them whose recovery has ended
          aborted,    \* those of them whose recovery is going to fail
          chain,      \* iteration of the kill of the pending trace chain, or -1
          executed,   \* iterations executed, doomed ones included
          lost,       \* iterations booked as lost
          restarts,   \* trace chains completed
          events      \* events so far

vars == <<sources, state, pc, resume, cadence, it, lastStore, copies, flights,
          hosted, incoming, failed, available, relocated, preempt, dark, late,
          batch, goal, recovered, aborted, chain, executed, lost, restarts, events>>

\* Groups of variables that the actions leave alone together.
donors == <<hosted, incoming, available>>
inbox == <<preempt, dark, late>>
books == <<executed, lost, restarts>>
fixed == <<sources, relocated, goal>>

Tiers == {"dram", "ssd", "away"}
None == [t \in Tiers |-> -1]
Positive(i) == IF i < 0 THEN 0 ELSE i

-----------------------------------------------------------------------------
(* The racks: cohorts are packed one after the other.                      *)

Slice(c) ==
  LET low == MapThenSumSet(LAMBDA b : Represents[b], {b \in Cohorts : b < c})
  IN  low .. low + Represents[c] - 1
RackNodes(rack) ==
  {n \in 0 .. NodeCount - 1 : n >= rack * RackSize /\ n < (rack + 1) * RackSize}
RackCount == (NodeCount + RackSize - 1) \div RackSize
\* How many of the present nodes of a cohort are in the rack.
Overlap(c, rack) ==
  IF c \in relocated THEN 0 ELSE Cardinality(Slice(c) \cap RackNodes(rack))

-----------------------------------------------------------------------------
(* Copies, flights and the plan of a recovery.                             *)

\* The newest iteration that cohort c could restore if the job were at i.
Peek(c, i) == Max({-1} \cup {copies[c][t] : t \in
                              {u \in Tiers : copies[c][u] <= i}})

\* Mutant of Plan: the search stops after its first round.
OneRound(S) == Min({Positive(Peek(c, it)) : c \in S})

\* Each round looks at what every cohort of S can restore at the target of the
\* round before, until the target stands.
Plan(S) ==
  LET from[target \in 0 .. Iterations] ==
        LET next == Min({Positive(Peek(c, target)) : c \in S})
        IN  IF next = target THEN target ELSE from[next]
  IN  from[it]

\* Mutant of Discard: the copies in the store and at the donors are kept.
LocalOnly(cs, i) ==
  [c \in Cohorts |-> [t \in Tiers |-> IF cs[c][t] > i /\ t # "away"
                                         THEN -1 ELSE cs[c][t]]]

\* The copies that are left when the timeline is cut after iteration i.
Discard(cs, i) ==
  [c \in Cohorts |-> [t \in Tiers |-> IF cs[c][t] > i THEN -1 ELSE cs[c][t]]]

\* Copies of cohort c in the tiers of T are dropped, all of them when every
\* node of the cohort is lost, any of them otherwise.
Wiped(cs, c, T, all) ==
  {[cs EXCEPT ![c] = [t \in Tiers |-> IF t \in gone THEN -1 ELSE @[t]]] :
     gone \in IF all THEN {T} ELSE SUBSET T}

\* A copy lands, unless a newer one is there or the timeline was cut.
Put(cs, c, t, i) ==
  IF i > it \/ cs[c][t] > i THEN cs ELSE [cs EXCEPT ![c][t] = i]

\* Landing in a cohort that a rack event has hit is noted.
Landed(c, t) == late' = IF \E d \in dark : d[1] = c
                          THEN late \cup {<<c, t>>} ELSE late

\* The job's clock is moved back: the copies of the abandoned timeline go,
\* and the backstop counts from the new position.
RollBack(i, cs) ==
  /\ it' = i
  /\ copies' = Discard(cs, i)
  /\ lastStore' = Min({lastStore, i})

Looping(i) == IF i < Iterations THEN "iterate" ELSE "end"

-----------------------------------------------------------------------------
Init == /\ \E s \in Settings : sources = s.sources /\ cadence = s.cadence
        /\ state = "pending" /\ available = {}
        /\ pc = "pending" /\ resume = "iterate"
        /\ it = 0 /\ lastStore = 0
        /\ copies = [c \in Cohorts |-> None]
        /\ flights = {}
        /\ hosted = [c \in Cohorts |-> {}] /\ incoming = {}
        /\ failed = {} /\ relocated = {}
        /\ preempt = FALSE /\ dark = {} /\ late = {}
        /\ batch = {} /\ goal = 0 /\ recovered = {} /\ aborted = {}
        /\ chain = -1
        /\ executed = 0 /\ lost = 0 /\ restarts = 0 /\ events = 0

\* The job arrives and its phase passes.
Arrive ==
  /\ pc = "pending"
  /\ state' = "active" /\ pc' = "phase" /\ available' = Cohorts
  /\ UNCHANGED <<fixed, inbox, books, resume, cadence, it, lastStore, copies,
                 flights, hosted, incoming, failed, batch, recovered, aborted,
                 chain, events>>
Start ==
  /\ pc = "phase" /\ pc' = "iterate"
  /\ UNCHANGED <<fixed, donors, inbox, books, state, resume, cadence, it,
                 lastStore, copies, flights, failed, batch, recovered, aborted,
                 chain, events>>

\* The controller solves the policy again when another job comes or goes.
Resolve ==
  /\ "churn" \in sources /\ state = "active"
  /\ cadence' \in Cadences \ {cadence}
  /\ events < MaxEvents /\ events' = events + 1
  /\ UNCHANGED <<fixed, donors, inbox, books, state, pc, resume, it, lastStore,
                 copies, flights, failed, batch, recovered, aborted, chain>>

-----------------------------------------------------------------------------
(* Checkpoints and hosted pieces on their way.                             *)

\* A snapshot ends in DRAM; a persist is captured in DRAM, then flushed to
\* donors or, when there are none, to the cohort's own disk; a backstop ends
\* in the store.
Land(f) ==
  LET c == f[1]  i == f[2]
  IN  /\ f \in flights /\ c \notin failed
      /\ \/ /\ f[3] \in {"snapshot", "persist"}
            /\ copies' = Put(copies, c, "dram", i) /\ Landed(c, "dram")
            /\ flights' = (flights \ {f}) \cup
                 (IF f[3] = "persist" THEN {<<c, i, "flush">>} ELSE {})
         \/ /\ f[3] \in {"flush", "backstop"}
            /\ \E t \in IF f[3] = "flush" THEN {"away", "ssd"} ELSE {"away"} :
                 copies' = Put(copies, c, t, i) /\
                 IF t = "ssd" THEN Landed(c, t) ELSE UNCHANGED late
            /\ flights' = flights \ {f}
      /\ UNCHANGED <<fixed, donors, books, state, pc, resume, cadence, it,
                     lastStore, failed, preempt, dark, batch, recovered,
                     aborted, chain, events>>

\* A piece of another job sets out for an offered slot, and lands.
Offer(c) ==
  /\ "hosting" \in sources
  /\ c \in available \ (failed \cup incoming) /\ state # "pending"
  /\ hosted[c] = {}
  /\ events < MaxEvents /\ events' = events + 1
  /\ incoming' = incoming \cup {c}
  /\ UNCHANGED <<fixed, inbox, books, state, pc, resume, cadence, it, lastStore,
                 copies, flights, hosted, failed, available, batch, recovered,
                 aborted, chain>>
Host(c) ==
  /\ c \in incoming
  /\ incoming' = incoming \ {c}
  /\ \E t \in {"dram", "ssd"} : hosted' = [hosted EXCEPT ![c] = {t}]
  /\ UNCHANGED <<fixed, inbox, books, state, pc, resume, cadence, it, lastStore,
                 copies, flights, failed, available, batch, recovered, aborted,
                 chain, events>>

-----------------------------------------------------------------------------
(* The boundary of an iteration.                                           *)

\* The flights that a wave at iteration i starts.
Wave(i) ==
  LET persist == i % cadence[1] = 0 /\ i < Iterations
      capture == cadence[2] > 0 /\ i % cadence[2] = 0 /\ i < Iterations
      store == cadence[3] > 0 /\ persist /\ i - lastStore >= cadence[3]
  IN  Cohorts \X {i} \X
        ((IF persist THEN {"persist"} ELSE IF capture THEN {"snapshot"} ELSE {})
           \cup IF store THEN {"backstop"} ELSE {})

\* What the failure of one node of cohort c destroys, by its type: nothing,
\* what is in DRAM, or every tier; a piece hosted on that node goes with it.
Destroyed(type) == CASE type = "process" -> {}
                     [] type = "reboot" -> {"dram"}
                     [] OTHER -> {"dram", "ssd"}

\* The whole job stops: what is on its way belongs to an abandoned timeline.
Invalidate == flights' = {} /\ incoming' = {}

FailOne(c, type, next) ==
  /\ events < MaxEvents /\ events' = events + 1
  /\ Invalidate
  /\ failed' = failed \cup {c}
  /\ copies' \in Wiped(copies, c, Destroyed(type), Represents[c] = 1)
  /\ \E gone \in IF Represents[c] = 1 THEN {Destroyed(type)}
                                      ELSE SUBSET Destroyed(type) :
       hosted' = [hosted EXCEPT ![c] = @ \ gone]
  /\ batch' = {c} /\ recovered' = {} /\ aborted' = {}
  /\ resume' = next /\ pc' = "restart_one"

\* The iteration is done.  A scheduled failure comes first, then the pending
\* trace chain; otherwise the wave that is due starts, and an eviction and the
\* rack events are looked at.
Boundary ==
  /\ pc = "iterate"
  /\ it' = it + 1 /\ executed' = executed + 1
  /\ \/ /\ "failure" \in sources
        /\ \E c \in Cohorts, type \in {"process", "reboot", "node"} :
             FailOne(c, type, "iterate")
        /\ UNCHANGED lastStore
     \/ /\ chain >= 0
        /\ failed' = Cohorts /\ batch' = Cohorts
        /\ recovered' = {} /\ aborted' = {}
        /\ pc' = "trace"
        /\ UNCHANGED <<lastStore, copies, flights, hosted, incoming, resume,
                       events>>
     \/ /\ chain < 0
        /\ flights' = flights \cup Wave(it + 1)
        /\ lastStore' = IF \E f \in Wave(it + 1) : f[3] = "backstop"
                          THEN it + 1 ELSE lastStore
        /\ pc' = "checks"
        /\ UNCHANGED <<copies, hosted, incoming, failed, batch, recovered,
                       aborted, resume, events>>
  /\ UNCHANGED <<fixed, inbox, state, cadence, available, chain, lost, restarts>>

\* No failure is due any more, or a random one is.
Poisson ==
  /\ pc = "poisson"
  /\ \/ /\ pc' = Looping(it)
        /\ UNCHANGED <<copies, flights, hosted, incoming, failed, batch,
                       recovered, aborted, resume, events>>
     \/ /\ "failure" \in sources
        /\ \E c \in Cohorts, type \in {"process", "reboot", "node"} :
             FailOne(c, type, "poisson")
  /\ UNCHANGED <<fixed, inbox, books, state, cadence, it, lastStore, available,
                 chain>>

End ==
  /\ pc = "end"
  /\ pc' = "done" /\ state' = "idle_checkpoint"
  /\ UNCHANGED <<fixed, donors, inbox, books, resume, cadence, it, lastStore,
                 copies, flights, failed, batch, recovered, aborted, chain,
                 events>>

-----------------------------------------------------------------------------
(* Recovery.                                                               *)

\* The fetch of cohort c ends.  It fails when the cohort's generation moved
\* on, or when a donor of a fetch from several sources failed.
Fetch(c) ==
  /\ pc \in {"recover_one", "recover_all", "recover_dark"}
  /\ c \in batch \ (recovered \cup aborted)
  /\ \/ /\ recovered' = recovered \cup {c}
        /\ copies' = Put(copies, c, "dram", IF pc = "recover_one" THEN goal
                                                 ELSE Positive(Peek(c, it)))
        /\ failed' = IF pc = "recover_one" THEN failed ELSE failed \ {c}
        /\ Landed(c, "dram")
        /\ UNCHANGED <<aborted, events>>
     \/ /\ events < MaxEvents /\ events' = events + 1
        /\ copies[c]["away"] = Peek(c, it) /\ copies[c]["away"] >= 0
        /\ aborted' = aborted \cup {c}
        /\ UNCHANGED <<copies, recovered, failed, late>>
  /\ UNCHANGED <<fixed, donors, books, state, pc, resume, cadence, it, lastStore,
                 flights, preempt, dark, batch, chain>>

\* One cohort: after the restart time, its own newest copy counts, whatever is
\* destroyed while it is fetched.  A recovery that fails is one from the initial
\* state.
RestartOne ==
  /\ "jit" \notin sources
  /\ pc = "restart_one" /\ pc' = "recover_one"
  /\ copies' = Discard(copies, it)
  /\ \E c \in batch : goal' = Positive(Peek(c, it))
  /\ UNCHANGED <<sources, relocated, donors, inbox, books, state, resume, cadence, it,
                 lastStore, flights, failed, batch, recovered, aborted, chain,
                 events>>
RecoverOne ==
  /\ pc = "recover_one" /\ batch = recovered \cup aborted
  /\ LET target == IF aborted = {} THEN goal ELSE 0
     IN  /\ RollBack(target, copies)
         /\ lost' = lost + it - target
         /\ pc' = IF resume = "poisson" THEN "poisson" ELSE Looping(target)
  /\ failed' = failed \ batch
  /\ batch' = {} /\ recovered' = {} /\ aborted' = {}
  /\ UNCHANGED <<fixed, donors, inbox, state, resume, cadence, flights, chain,
                 executed, restarts, events>>

\* Just in time: a replica that survives hands over the iteration before
\* the last, or nobody holds the state.
RecoverFromReplica ==
  /\ "jit" \in sources /\ pc = "restart_one"
  /\ \E target \in {Positive(it - 1), 0} :
       /\ RollBack(target, copies)
       /\ lost' = lost + it - target
       /\ pc' = IF resume = "poisson" THEN "poisson" ELSE Looping(target)
  /\ failed' = failed \ batch
  /\ batch' = {}
  /\ UNCHANGED <<fixed, donors, inbox, state, resume, cadence, flights, recovered,
                 aborted, chain, executed, restarts, events>>

\* An eviction: every node of the job goes, with what it hosts.
Evict ==
  /\ pc = "checks"
  /\ IF preempt
       THEN /\ pc' = "evicted" /\ preempt' = FALSE
            /\ Invalidate
            /\ failed' = Cohorts /\ batch' = Cohorts
            /\ recovered' = {} /\ aborted' = {}
            /\ copies' = [c \in Cohorts |-> [None EXCEPT !["away"] =
                                                copies[c]["away"]]]
            /\ hosted' = [c \in Cohorts |-> {}]
       ELSE /\ pc' = "racks"
            /\ UNCHANGED <<preempt, flights, incoming, failed, batch, recovered,
                           aborted, copies, hosted>>
  /\ UNCHANGED <<fixed, books, state, resume, cadence, it, lastStore, available,
                 dark, late, chain, events>>

\* The plan of an eviction, or of a rack event for the cohorts it hit, and the
\* parallel recovery.
Replan(label, next) ==
  /\ pc = label /\ pc' = next
  /\ RollBack(Plan(batch), Discard(copies, it))
  /\ lost' = lost + it - Plan(batch)
  /\ UNCHANGED <<fixed, donors, inbox, state, resume, cadence, flights, failed,
                 batch, recovered, aborted, chain, executed, restarts, events>>
PlanEviction == Replan("evicted", "recover_all")
PlanRack == Replan("rack", "recover_dark")

\* Every recovery has ended; one that failed ends the simulation with an error.
Recovered ==
  /\ pc \in {"recover_all", "recover_dark"} /\ batch = recovered \cup aborted
  /\ pc' = IF aborted # {} THEN "error"
           ELSE IF pc = "recover_all" THEN "racks" ELSE "poisson"
  /\ available' = IF pc = "recover_dark" /\ aborted = {}
                    THEN available \cup batch ELSE available
  /\ batch' = {} /\ recovered' = {} /\ aborted' = {}
  /\ UNCHANGED <<fixed, inbox, books, state, resume, cadence, it, lastStore,
                 copies, flights, hosted, incoming, failed, chain, events>>

\* The rack events since the last boundary: the cohorts they hit stop, and
\* what landed on them since then is dropped again.
RackFailure ==
  /\ pc = "racks"
  /\ IF dark = {}
       THEN /\ pc' = "poisson"
            /\ UNCHANGED <<dark, late, copies, flights, incoming, failed, batch>>
       ELSE /\ pc' = "rack"
            /\ batch' = {d[1] : d \in dark}
            /\ failed' = failed \cup batch'
            /\ Invalidate
            /\ copies' \in
                 {[c \in Cohorts |-> [t \in Tiers |->
                     IF <<c, t>> \in gone THEN -1 ELSE copies[c][t]]] :
                   gone \in {g \in SUBSET late :
                     \A l \in late : <<l[1], TRUE>> \in dark => l \in g}}
            /\ dark' = {} /\ late' = {}
  /\ recovered' = {} /\ aborted' = {}
  /\ UNCHANGED <<fixed, books, state, resume, cadence, it, lastStore, hosted,
                 available, preempt, chain, events>>

-----------------------------------------------------------------------------
(* Events from outside, between the steps of the job.                      *)

Event == /\ pc \notin {"checks", "racks", "poisson", "end", "error"}
         /\ events < MaxEvents /\ events' = events + 1

\* An eviction is requested of a job that is active and healthy.
RequestPreemption ==
  /\ "preemption" \in sources /\ Event
  /\ state = "active" /\ failed = {} /\ ~preempt
  /\ preempt' = TRUE
  /\ UNCHANGED <<fixed, donors, books, state, pc, resume, cadence, it, lastStore,
                 copies, flights, failed, dark, late, batch, recovered, aborted,
                 chain>>

\* The local tiers that each cohort of "hit" may lose: all that is on it when
\* it is entirely dark, any of it otherwise.
Losses(hit, full) ==
  {gone \in [hit -> SUBSET {"dram", "ssd"}] :
     \A c \in full : gone[c] = {"dram", "ssd"}}

\* Mutant of Struck: a job that has finished keeps its slots and its flights.
ActiveOnly(hit, full) == IF state = "active" THEN hit ELSE {}

\* The cohorts whose slots and flights end with the event.
Struck(hit, full) == IF state = "active" THEN hit ELSE full

\* A rack goes dark.  A pending job will arrive elsewhere, a finished one
\* loses the cohorts that are entirely dark, an active one restarts them at
\* its next boundary.
RackEvent(rack) ==
  LET hit == {c \in Cohorts : Overlap(c, rack) > 0}
      full == {c \in hit : Overlap(c, rack) = Represents[c]}
  IN  /\ "rack" \in sources /\ Event /\ hit # {}
      /\ relocated' = relocated \cup hit
      /\ IF state = "pending"
           THEN UNCHANGED <<copies, hosted, flights, incoming, failed, available,
                            dark>>
           ELSE /\ \E gone \in Losses(hit, full) :
                     copies' = [c \in Cohorts |-> [t \in Tiers |->
                       IF c \in hit /\ t \in gone[c] THEN -1 ELSE copies[c][t]]]
                /\ \E gone \in Losses(hit, full) :
                     hosted' = [c \in Cohorts |-> IF c \in hit
                                  THEN hosted[c] \ gone[c] ELSE hosted[c]]
                /\ available' = available \ Struck(hit, full)
                /\ LET bumped == Struck(hit, full) \ failed
                   IN  /\ flights' = {f \in flights : f[1] \notin bumped}
                       /\ incoming' = incoming \ bumped
                /\ IF state = "active"
                     THEN dark' = dark \cup {<<c, c \in full>> : c \in hit}
                          /\ UNCHANGED failed
                     ELSE failed' = failed \cup full /\ UNCHANGED dark
      /\ UNCHANGED <<sources, goal, books, state, pc, resume, cadence, it, lastStore,
                     preempt, late, batch, recovered, aborted, chain>>

\* Mutant of Killed: an event during the recovery restarts the chain.
LastKill == it

\* The iteration at which the pending chain has killed the job.
Killed == IF chain < 0 THEN it ELSE chain

\* An event of the trace.  While the chain is pending it moves the end of the
\* recovery; else it starts a chain, ends every flight, whose recoveries fail,
\* and makes the local copies unreadable.
TraceEvent ==
  /\ "trace" \in sources /\ Event
  /\ chain' = IF state = "active" THEN Killed ELSE chain
  /\ IF state = "active" /\ chain < 0
       THEN /\ Invalidate
            /\ aborted' = aborted \cup
                 IF pc \in {"recover_one", "recover_all", "recover_dark"}
                   THEN batch \ recovered ELSE {}
            /\ copies' = [c \in Cohorts |-> [None EXCEPT !["away"] =
                                                copies[c]["away"]]]
       ELSE UNCHANGED <<flights, incoming, aborted, copies>>
  /\ UNCHANGED <<fixed, inbox, books, state, pc, resume, cadence, it, lastStore,
                 hosted, failed, available, batch, recovered>>

\* The recovery of the chain is over: the whole job restarts from the newest
\* iteration that every cohort can restore.
TraceRestart ==
  /\ pc = "trace"
  /\ LET target == Plan(Cohorts)
     IN  /\ RollBack(target, Discard(copies, it))
         /\ lost' = lost + chain - target
         /\ pc' = Looping(target)
  /\ restarts' = restarts + 1
  /\ failed' = {} /\ batch' = {} /\ chain' = -1
  /\ UNCHANGED <<fixed, donors, inbox, state, resume, cadence, flights,
                 recovered, aborted, executed, events>>

\* The accounting of a replay at the end of its window.
UsefulAtWindow == IF chain < 0 THEN it ELSE Plan(Cohorts)
LostAtWindow == IF chain < 0 THEN lost ELSE lost + chain - UsefulAtWindow

Run == \/ Arrive \/ Start \/ Boundary \/ Poisson \/ End
       \/ (\E c \in Cohorts : Fetch(c))
       \/ RestartOne \/ RecoverOne \/ RecoverFromReplica \/ Evict
       \/ PlanEviction \/ PlanRack \/ Recovered \/ RackFailure \/ TraceRestart
Next == \/ Run \/ Resolve \/ RequestPreemption \/ TraceEvent
        \/ \E f \in flights : Land(f)
        \/ \E c \in Cohorts : Offer(c) \/ Host(c)
        \/ \E rack \in 0 .. RackCount - 1 : RackEvent(rack)
Spec == Init /\ [][Next]_vars

-----------------------------------------------------------------------------
(* Properties.                                                             *)

\* When the job trains, nothing it could restore or that can still land comes
\* from a timeline it has abandoned, and the backstop counts from a position
\* it has reached: a rollback cuts the copies, the flights and the backstop.
NoFutureCheckpoint ==
  pc = "iterate" =>
    /\ \A c \in Cohorts, t \in Tiers : copies[c][t] <= it
    /\ \A f \in flights : f[2] <= it
    /\ lastStore <= it

\* A restart of the whole job takes the newest iteration that all its cohorts
\* can restore, and the initial state only when they have none in common,
\* although each round of the search asks every cohort for its own newest.
RestartsAtNewestCommon ==
  [][(PlanEviction \/ PlanRack \/ TraceRestart) =>
       it' = Max({0} \cup {i \in 1 .. it :
               \A c \in batch : \E t \in Tiers : copies[c][t] = i})]_vars

\* Work is booked as lost exactly once: what was executed is where the job
\* stands, what it lost, and the iterations that a kill of the trace doomed.
\* The snapshot at the window agrees, in the middle of a recovery as well.
LossBookedOnce ==
  pc # "error" =>
    /\ pc \notin {"trace"} => executed = it + lost + restarts
    /\ "trace" \in sources =>
         UsefulAtWindow + LostAtWindow =
           executed - restarts - (IF pc = "trace" THEN 1 ELSE 0)

\* What other jobs may use matches the nodes: a training job without a pending
\* rack event offers all its slots and has no cohort down, and no piece is
\* hosted by, or on its way to, a cohort that left with its rack.
DonorsMatchNodes ==
  /\ (pc = "iterate" /\ dark = {}) => available = Cohorts /\ failed = {}
  /\ state = "idle_checkpoint" => \A c \in failed :
       c \notin available /\ hosted[c] = {} /\ c \notin incoming

-----------------------------------------------------------------------------
(* The inductive invariant behind the safety properties.                   *)

Recovering == {"recover_one", "recover_all", "recover_dark"}
Labels == {"pending", "phase", "iterate", "poisson", "end", "done", "restart_one",
           "checks", "evicted", "racks", "rack", "trace", "error"} \cup Recovering
Kinds == {"persist", "snapshot", "backstop", "flush"}
Local == {"dram", "ssd"}

TypeOK ==
  /\ \E s \in Settings : sources = s.sources
  /\ state \in {"pending", "active", "idle_checkpoint"}
  /\ pc \in Labels /\ resume \in {"iterate", "poisson"}
  /\ cadence \in Cadences
  /\ {it, lastStore, goal} \subseteq 0 .. Iterations
  /\ copies \in [Cohorts -> [Tiers -> -1 .. Iterations]]
  /\ flights \subseteq Cohorts \X (0 .. Iterations) \X Kinds
  /\ hosted \in [Cohorts -> SUBSET Local]
  /\ incoming \subseteq Cohorts /\ failed \subseteq Cohorts
  /\ available \subseteq Cohorts /\ relocated \subseteq Cohorts
  /\ preempt \in BOOLEAN
  /\ dark \subseteq Cohorts \X BOOLEAN /\ late \subseteq Cohorts \X Tiers
  /\ batch \subseteq Cohorts /\ recovered \subseteq Cohorts /\ aborted \subseteq Cohorts
  /\ chain \in -1 .. Iterations
  /\ executed \in Nat /\ lost \in Int /\ restarts \in Nat
  /\ events \in Nat

\* Where the process of the job is, by the state of the job; it trains only
\* while there are iterations left.
Placed ==
  /\ state = "pending" <=> pc = "pending"
  /\ state = "idle_checkpoint" <=> pc = "done"
  /\ pc \in {"pending", "phase", "iterate"} => it < Iterations

\* Every copy, flight and backstop belongs to the present timeline; nothing is
\* on its way while the job is stopped or about to be.
PresentOnly ==
  /\ \A c \in Cohorts, t \in Tiers : copies[c][t] <= it
  /\ \A f \in flights : f[2] <= it
  /\ lastStore <= it
  /\ pc = "recover_one" => goal <= it
  /\ (chain >= 0 \/ pc \in Recovering \cup {"restart_one", "evicted", "rack", "trace"})
       => flights = {}

\* What is down is being recovered, and what is being recovered is known.
DownIsRecovered ==
  /\ pc \in {"pending", "phase", "iterate", "checks", "racks", "poisson", "end"}
       => failed = {}
  /\ pc \in {"restart_one", "recover_one"} => failed \subseteq batch
  /\ pc \in {"evicted", "rack", "recover_all", "recover_dark"}
       => failed \subseteq batch \ recovered
  /\ pc \in {"evicted", "trace"} => batch = Cohorts
  /\ pc = "rack" => batch # {}

\* A slot that is not offered left with a rack that went dark since the last
\* boundary, or is being recovered from that.
OfferedOrDark ==
  /\ state = "active" /\ pc # "error" =>
       \A c \in Cohorts \ available :
         \/ \E d \in dark : d[1] = c
         \/ pc \in {"rack", "recover_dark"} /\ c \in batch
  /\ state = "idle_checkpoint" => \A c \in failed :
       c \notin available /\ hosted[c] = {} /\ c \notin incoming

\* Traces are replayed alone: an event of a trace in the recovery from another
\* failure books the same work twice.
TracesAlone ==
  \A s \in Settings :
    "trace" \in s.sources => s.sources \cap {"failure", "preemption", "rack"} = {}

\* The books balance, and a pending chain knows the iteration that it killed.
BooksBalance ==
  /\ executed = it + lost + restarts
  /\ pc = "trace" => chain >= 0
  /\ chain >= 0 => /\ "trace" \in sources
                   /\ it = chain + (IF pc = "trace" THEN 1 ELSE 0)
  /\ "trace" \in sources =>
       /\ pc \notin Recovering \cup {"restart_one", "evicted", "rack"}
       /\ ~preempt /\ dark = {}

Inductive ==
  TypeOK /\ Placed /\ PresentOnly /\ DownIsRecovered /\ OfferedOrDark
=============================================================================

----------------------------- MODULE ScenarioArm -----------------------------
(***************************************************************************)
(* One arm of a scenario (run_arm of run_scenario.py): the jobs it admits, *)
(* the way their checkpoints take, the re-solved policy, evictions, the cap*)
(* on the simulated time and the wait for the background flushes after it. *)
(*                                                                         *)
(* The training of a job is reduced to its progress and to the flushes it  *)
(* starts; what they do is in CohortRuntime and CrossJob.  The policy of a *)
(* composition is a function of it (gp_policy, and the cache of its        *)
(* solutions), so the composition stands for the policy.                   *)
(***************************************************************************)
EXTENDS Integers, FiniteSets, FiniteSetsExt, Sequences, SequencesExt

CONSTANTS
    Classes,
    Count,      \* classes.count
    Initial,    \* of job_arrivals: jobs of a class at the start
    Limit,      \* and jobs of a class in the random pool
    Delayed,    \* classes with an arrival_s of their own
    Victims,    \* classes with the prefix of preemption
    Arms,       \* flags of an arm and of its policy
    Work,       \* iterations of a job
    MaxFailures \* bound: failures of a job

\* An arrival manifest never creates more jobs of a class than classes.count allows: the
\* jobs at the start, those of an event and the random pool are checked as they are read.
ArmAssumption ==
    /\ IsFiniteSet(Classes)
    /\ {Count, Initial, Limit} \subseteq [Classes -> Nat]
    /\ \A c \in Classes : Initial[c] + Limit[c] <= Count[c]
    /\ Delayed \subseteq Classes /\ Victims \subseteq Classes
    /\ Work \in Nat /\ MaxFailures \in Nat

ASSUME ArmAssumption

VARIABLES
    arm, manifest,  \* parameters
    state,     \* of a job: pending, active, idle_checkpoint, censored
    started,   \* start_time is set
    ended,     \* what set end_time: no, trained, capped
    work,      \* iterations done
    evict,     \* _preempt_requested
    failures,  \* of a job so far
    live,      \* background_flushes that have not ended
    enacted,   \* composition of running jobs whose policy a job follows
    phase,     \* run, drain, results
    awaited,   \* flushes the driver waits for
    censored   \* censored_jobs of the results

vars == <<arm, manifest, state, started, ended, work, evict, failures, live, enacted,
          phase, awaited, censored>>
parameters == <<arm, manifest>>
course == <<state, started, ended, work, evict, failures>>
ending == <<phase, awaited, censored>>

-----------------------------------------------------------------------------
(* build_arrival_manifest. *)

\* A job is named after its class and its number in the class.
JobsOf(count) == UNION {{<<c, n>> : n \in 0..(count[c] - 1)} : c \in Classes}
Job == JobsOf(Count)

Occurrences(s, c) == Cardinality({k \in DOMAIN s : s[k] = c})

\* The jobs of classes that arrive one after the other.
Numbered(s, first) ==
    [k \in DOMAIN s |-> <<s[k], first[s[k]] + Occurrences(SubSeq(s, 1, k - 1), s[k])>>]

\* Sequences of at least and at most so many jobs of each class.
Arrivals(least, most) ==
    {s \in SeqOf(Classes, Cardinality(Job)) :
         \A c \in Classes : Occurrences(s, c) \in least[c]..most[c]}

Manifests(mode) ==
    LET nobody == [c \in Classes |-> 0]
        now == [c \in Classes |-> IF c \in Delayed THEN 0 ELSE Count[c]]
        left(present) == [c \in Classes |-> Count[c] - present[c]]
    IN  CASE mode = "legacy" ->
                 {[initial |-> JobsOf(now), later |-> Numbered(s, now)] :
                      s \in Arrivals(left(now), left(now))}
          [] mode = "all_at_start" -> {[initial |-> Job, later |-> <<>>]}
          [] mode = "scheduled" ->
                 {[initial |-> JobsOf(Initial), later |-> Numbered(s, Initial)] :
                      s \in Arrivals(nobody, left(Initial))}
          [] mode = "weighted_random" ->
                 {[initial |-> JobsOf(Initial), later |-> Numbered(s, Initial)] :
                      s \in Arrivals(nobody, Limit) \ {<<>>}}

Admitted == manifest.initial \cup ToSet(manifest.later)

-----------------------------------------------------------------------------
(* The way of the checkpoints of a class. *)

InJobDegree == 2

\* kpeers_by_job before the placement is known.
Width(a) ==
    CASE a.policy -> a.policyPeers
      [] a.ideal \/ ~a.kpeers -> 0
      [] OTHER -> a.degree

Placement(a, c) ==
    CASE a.policy /\ a.policyPeers = 0 /\ a.policyPlacement \in {"none", "crossjob"} ->
             "local"
      [] a.policy /\ a.policyPlacement # "none" -> a.policyPlacement
      [] a.placement = "auto" -> IF c \in Victims THEN "crossjob" ELSE "injob"
      [] OTHER -> a.placement

\* The number of peers of a job and, unless the command line says otherwise, what carries
\* its checkpoints to the store.
Route(a, c) ==
    LET ours == IF a.kpeers THEN a.backstop ELSE "owner_push"
        placed == Placement(a, c)
    IN  CASE a.baseline -> [peers |-> Width(a), backstop |-> "owner_push"]
          [] placed = "injob" ->
                 [peers |-> IF Width(a) < InJobDegree THEN Width(a) ELSE InJobDegree,
                  backstop |-> "owner_push"]
          [] placed = "local" -> [peers |-> 0, backstop |-> "owner_push"]
          [] placed = "injob_ssd" -> [peers |-> 1, backstop |-> "owner_push"]
          [] placed \in {"crossjob", "peerdram"} -> [peers |-> Width(a), backstop |-> ours]

-----------------------------------------------------------------------------
(* The policy. *)

\* The jobs of ChurnController that run, given what the jobs do and how they ended.
RunningIn(st, en) ==
    {j \in Admitted : /\ j \in manifest.initial \/ st[j] # "pending"
                     /\ st[j] # "idle_checkpoint" /\ en[j] = "no"}
Composition(jobs) == [c \in Classes |-> Cardinality({j \in jobs : j[1] = c})]

\* ChurnController.resolve: the running jobs follow the policy of their composition.
Resolved(st, en) ==
    LET jobs == RunningIn(st, en)
    IN  IF ~arm.resolve THEN enacted
        ELSE [j \in Job |-> IF j \in jobs THEN Composition(jobs) ELSE enacted[j]]

-----------------------------------------------------------------------------
(* Jobs. *)

Simulated == phase # "results"

\* Mutant of Arrive: the policy is solved before the job is counted.
SolveFirst(j) ==
    /\ Simulated /\ state[j] = "pending"
    /\ \A k \in manifest.initial : j \notin manifest.initial => state[k] # "pending"
    /\ \A m, n \in DOMAIN manifest.later :
          m < n /\ manifest.later[n] = j => state[manifest.later[m]] # "pending"
    /\ state' = [state EXCEPT ![j] = "active"]
    /\ enacted' = IF j \in manifest.initial THEN enacted ELSE Resolved(state, ended)
    /\ UNCHANGED <<parameters, ending, failures, started, ended, work, evict, live>>

\* Jobs arrive in the order of the manifest.
Arrive(j) ==
    /\ Simulated /\ state[j] = "pending"
    /\ \A k \in manifest.initial : j \notin manifest.initial => state[k] # "pending"
    /\ \A m, n \in DOMAIN manifest.later :
          m < n /\ manifest.later[n] = j => state[manifest.later[m]] # "pending"
    /\ state' = [state EXCEPT ![j] = "active"]
    /\ enacted' = IF j \in manifest.initial THEN enacted ELSE Resolved(state', ended)
    /\ UNCHANGED <<parameters, ending, failures, started, ended, work, evict, live>>

\* The start of a job is delayed by its phase.
Begin(j) ==
    /\ Simulated /\ state[j] # "pending" /\ ~started[j]
    /\ started' = [started EXCEPT ![j] = TRUE]
    /\ UNCHANGED <<parameters, ending, failures, state, ended, work, evict, live, enacted>>

\* An iteration, and the flushes it starts: what a wave persists, and what the owner
\* pushes to the store.
Train(j) ==
    LET route == Route(arm, j[1])
        wave == <<j, work[j] + 1, "persist">>
        push == <<j, work[j] + 1, "push">>
    IN  /\ Simulated /\ started[j] /\ ended[j] # "trained"
        /\ ~evict[j] /\ work[j] < Work
        /\ work' = [work EXCEPT ![j] = @ + 1]
        /\ live' = IF arm.ideal \/ work'[j] = Work THEN live
                   ELSE live \cup {wave} \cup (IF route.backstop = "owner_push" THEN {push}
                                               ELSE {})
        /\ UNCHANGED <<parameters, ending, failures, state, started, ended, evict, enacted>>

\* The job goes back to a checkpoint, and what the cohorts that failed were persisting is
\* given up.
RollBack(j) ==
    /\ Simulated /\ started[j] /\ ended[j] # "trained"
    /\ \E i \in 0..work[j] : work' = [work EXCEPT ![j] = i]
    /\ \E given \in SUBSET {p \in live : p[1] = j /\ p[3] # "drain"} : live' = live \ given
    /\ UNCHANGED <<parameters, ending, state, started, ended, enacted>>

\* A request is served at an iteration boundary, the last one included.
Evict(j) ==
    /\ evict[j] /\ RollBack(j)
    /\ evict' = [evict EXCEPT ![j] = FALSE]
    /\ UNCHANGED failures

\* Failures of nodes strike a job as long as it trains.
Fail(j) ==
    /\ ~arm.ideal /\ failures[j] < MaxFailures /\ ~evict[j] /\ RollBack(j)
    /\ failures' = [failures EXCEPT ![j] = @ + 1]
    /\ UNCHANGED evict

\* run ends, and start marks the job as a donor that no longer trains.
Finish(j) ==
    /\ Simulated /\ started[j] /\ ended[j] # "trained" /\ work[j] = Work /\ ~evict[j]
    /\ ended' = [ended EXCEPT ![j] = "trained"]
    /\ state' = [state EXCEPT ![j] = "idle_checkpoint"]
    /\ enacted' = Resolved(state', ended')
    /\ UNCHANGED <<parameters, ending, failures, started, work, evict, live>>

\* Mutant of Request: jobs are evicted as long as they train.
EvictCensored(j) ==
    /\ Simulated /\ ~arm.ideal /\ j[1] \in Victims /\ started[j]
    /\ ended[j] # "trained" /\ ~evict[j]
    /\ evict' = [evict EXCEPT ![j] = TRUE]
    /\ UNCHANGED <<parameters, ending, failures, state, started, ended, work, live,
                   enacted>>

\* preemption_process and job_hazard_process; a job that has just recovered is spared.
Request(j) ==
    /\ Simulated /\ ~arm.ideal /\ j[1] \in Victims
    /\ state[j] = "active" /\ ended[j] = "no" /\ ~evict[j]
    /\ evict' = [evict EXCEPT ![j] = TRUE]
    /\ UNCHANGED <<parameters, ending, failures, state, started, ended, work, live,
                   enacted>>

-----------------------------------------------------------------------------
(* Background flushes. *)

\* A wave that is persisted to peers may have the donors drain it.
Persisted(p) ==
    LET j == p[1]
        route == Route(arm, j[1])
    IN  /\ Simulated /\ p \in live /\ p[3] = "persist"
        /\ \/ live' = live \ {p}
           \/ /\ route.backstop = "donor_drain" /\ route.peers > 0
              /\ live' = (live \ {p}) \cup {<<j, p[2], "drain">>}
        /\ UNCHANGED <<parameters, ending, course, enacted>>

Stored(p) ==
    /\ Simulated /\ p \in live /\ p[3] \in {"push", "drain"}
    /\ live' = live \ {p}
    /\ UNCHANGED <<parameters, ending, course, enacted>>

-----------------------------------------------------------------------------
(* The end of the simulation. *)

\* The simulation goes on while a flush of the last snapshot is alive.
DrainOrResults == phase' = IF live = {} THEN "results" ELSE "drain"

\* run_until_complete_or_cap: every job has ended.
Complete ==
    /\ phase = "run" /\ \A j \in Admitted : state[j] = "idle_checkpoint"
    /\ DrainOrResults /\ awaited' = live
    /\ UNCHANGED <<parameters, course, live, enacted, censored>>

\* max_sim_s: the jobs that have not ended are censored.
Cap ==
    /\ phase = "run" /\ \A j \in manifest.initial : state[j] # "pending"
    /\ \E j \in Admitted : state[j] # "idle_checkpoint"
    /\ censored' = {j \in Admitted : ended[j] = "no"}
    /\ ended' = [j \in Job |-> IF j \in censored' THEN "capped" ELSE ended[j]]
    /\ state' = [j \in Job |-> IF state[j] = "active" THEN "censored" ELSE state[j]]
    /\ DrainOrResults /\ awaited' = live
    /\ UNCHANGED <<parameters, failures, started, work, evict, live, enacted>>

\* The flushes waited for have ended; they may have left others.
Await ==
    /\ phase = "drain" /\ awaited \cap live = {}
    /\ DrainOrResults /\ awaited' = live
    /\ UNCHANGED <<parameters, course, live, enacted, censored>>

-----------------------------------------------------------------------------

Init ==
    /\ arm \in Arms
    /\ manifest \in UNION {Manifests(mode) : mode \in
                               {"legacy", "all_at_start", "scheduled", "weighted_random"}}
    /\ state = [j \in Job |-> "pending"]
    /\ started = [j \in Job |-> FALSE]
    /\ ended = [j \in Job |-> "no"]
    /\ work = [j \in Job |-> 0]
    /\ evict = [j \in Job |-> FALSE]
    /\ failures = [j \in Job |-> 0]
    /\ live = {}
    /\ enacted = LET initial == manifest.initial
                 IN  [j \in Job |-> Composition(IF arm.resolve /\ j \in initial THEN initial
                                                ELSE Job)]
    /\ phase = "run"
    /\ awaited = {}
    /\ censored = {}

JobStep(j) == Arrive(j) \/ Begin(j) \/ Train(j) \/ Evict(j) \/ Finish(j)
FlushStep(p) == Persisted(p) \/ Stored(p)
Ending == Complete \/ Cap \/ Await

Next ==
    \/ \E j \in Admitted : JobStep(j) \/ Request(j) \/ Fail(j)
    \/ \E p \in live : FlushStep(p)
    \/ Ending

\* Time passes: what a job or a flush waits for comes, and so does the cap. Nothing
\* makes an eviction or a failure come.
Spec ==
    /\ Init /\ [][Next]_vars
    /\ \A j \in Job : WF_vars(j \in Admitted /\ JobStep(j))
    /\ \A p \in Job \X (1..Work) \X {"persist", "push", "drain"} :
          WF_vars(p \in live /\ FlushStep(p))
    /\ WF_vars(Ending)

-----------------------------------------------------------------------------
(* Properties. *)

\* A job that runs follows the policy of the jobs that run now, whatever arrivals,
\* departures and phases came in between (ChurnController).
PolicyFits ==
    arm.resolve =>
        LET jobs == RunningIn(state, ended)
        IN  \A j \in jobs : enacted[j] = Composition(jobs)

\* The arm ends with no flush in progress: the cap ends it although a job may be evicted
\* again and again, although the jobs go on while flushes are waited for, and although
\* a flush starts another.
ArmEnds == <>[](phase = "results" /\ live = {})
=============================================================================

-------------------------- MODULE ScenarioArmProofs --------------------------
(***************************************************************************)
(* Proofs about ScenarioArm, for any classes, manifests, flags of an arm,  *)
(* lengths of jobs and failures, and about InJobReplicas, for any baseline *)
(* strategy, cohorts, backstops, iterations and events.                    *)
(***************************************************************************)
EXTENDS ScenarioArm, InJobReplicas, FiniteSetTheorems, TLAPS

-----------------------------------------------------------------------------
(* The manifest. *)

\* The assumption on the constants, in the form that the proofs use.
LEMMA Bounds ==
  /\ Count \in [Classes -> Nat] /\ Initial \in [Classes -> Nat] /\ Limit \in [Classes -> Nat]
  /\ \A c \in Classes : Initial[c] + Limit[c] <= Count[c]
  BY ArmAssumption DEF ArmAssumption

\* A job in a sequence of arrivals comes after fewer jobs of its class than there are in all.
LEMMA OccurrencesBefore ==
  ASSUME NEW s \in Seq(Classes), NEW k \in DOMAIN s
  PROVE  /\ Occurrences(SubSeq(s, 1, k - 1), s[k]) \in Nat
         /\ Occurrences(s, s[k]) \in Nat
         /\ Occurrences(SubSeq(s, 1, k - 1), s[k]) < Occurrences(s, s[k])
  <1> DEFINE before == SubSeq(s, 1, k - 1)
             A == {i \in DOMAIN before : before[i] = s[k]}
             B == {i \in DOMAIN s : s[i] = s[k]}
  <1>1. Len(s) \in Nat /\ DOMAIN s = 1 .. Len(s) /\ k \in 1 .. Len(s)
    OBVIOUS
  <1>2. DOMAIN before = 1 .. (k - 1) /\ \A i \in 1 .. (k - 1) : before[i] = s[i]
    BY <1>1
  <1>3. A \subseteq B /\ k \in B /\ k \notin A
    BY <1>1, <1>2
  <1>4. IsFiniteSet(B)
    <2>1. IsFiniteSet(1 .. Len(s))
      BY <1>1, FS_Interval
    <2> QED
      BY <1>1, <2>1, FS_Subset
  <1> HIDE DEF A, B
  <1>5. /\ IsFiniteSet(A) /\ Cardinality(A) <= Cardinality(B)
        /\ Cardinality(B) = Cardinality(A) => B = A
    BY <1>3, <1>4, FS_Subset
  <1>6. Cardinality(A) \in Nat /\ Cardinality(B) \in Nat
    BY <1>4, <1>5, FS_CardinalityType
  <1>7. Cardinality(A) < Cardinality(B)
    BY <1>3, <1>5, <1>6
  <1> QED
    BY <1>6, <1>7 DEF Occurrences, A, B

\* Jobs that are numbered from some number on, no more of a class than are left, are jobs.
LEMMA NumberedFits ==
  ASSUME NEW s \in Seq(Classes), NEW first \in [Classes -> Nat], NEW most \in [Classes -> Nat],
         \A c \in Classes : first[c] + most[c] <= Count[c],
         \A c \in Classes : Occurrences(s, c) <= most[c]
  PROVE  ToSet(Numbered(s, first)) \subseteq Job
  <1> SUFFICES ASSUME NEW k \in DOMAIN s
               PROVE  Numbered(s, first)[k] \in Job
    BY DEF ToSet, Numbered
  <1> DEFINE c == s[k]
             before == Occurrences(SubSeq(s, 1, k - 1), c)
  <1>1. c \in Classes /\ first[c] \in Nat /\ most[c] \in Nat /\ Count[c] \in Nat
    BY Bounds
  <1>2. /\ before \in Nat /\ Occurrences(s, c) \in Nat
        /\ before < Occurrences(s, c)
    BY OccurrencesBefore
  <1>3. Numbered(s, first)[k] = <<c, first[c] + before>>
    BY DEF Numbered
  <1> HIDE DEF c, before
  <1>4. first[c] + most[c] <= Count[c] /\ Occurrences(s, c) <= most[c]
    BY <1>1
  <1>5. first[c] + before \in 0 .. (Count[c] - 1)
    <2> DEFINE f == first[c]
               m == most[c]
               a == Occurrences(s, c)
               l == Count[c]
    <2>1. /\ f \in Nat /\ m \in Nat /\ a \in Nat /\ l \in Nat /\ before \in Nat
          /\ f + m <= l /\ a <= m /\ before < a
      BY <1>1, <1>2, <1>4
    <2> HIDE DEF f, m, a, l
    <2>2. f + before \in 0 .. (l - 1)
      BY <2>1
    <2> QED
      BY <2>2 DEF f, l
  <1> QED
    BY <1>1, <1>3, <1>5 DEF Job, JobsOf

\* So are as many jobs of each class as at most allowed.
LEMMA JobsOfFits ==
  ASSUME NEW count \in [Classes -> Nat], \A c \in Classes : count[c] <= Count[c]
  PROVE  JobsOf(count) \subseteq Job
  <1>1. ASSUME NEW c \in Classes
        PROVE  0 .. (count[c] - 1) \subseteq 0 .. (Count[c] - 1)
    <2>1. count[c] \in Nat /\ Count[c] \in Nat /\ count[c] <= Count[c]
      BY Bounds
    <2> QED
      BY <2>1
  <1> QED
    BY <1>1 DEF Job, JobsOf

\* What a sequence of arrivals is.
LEMMA ArrivalsAre ==
  ASSUME NEW least, NEW most \in [Classes -> Nat], NEW s \in Arrivals(least, most)
  PROVE  s \in Seq(Classes) /\ \A c \in Classes : Occurrences(s, c) <= most[c]
  <1>1. /\ s \in SeqOf(Classes, Cardinality(Job))
        /\ \A c \in Classes : Occurrences(s, c) \in least[c] .. most[c]
    BY DEF Arrivals
  <1>2. PICK m \in 0 .. Cardinality(Job) : s \in [1 .. m -> Classes]
    BY <1>1, Zenon DEF SeqOf
  <1>3. s \in Seq(Classes)
    BY <1>2
  <1>4. ASSUME NEW c \in Classes PROVE Occurrences(s, c) <= most[c]
    BY <1>1
  <1> QED
    BY <1>3, <1>4

\* A manifest names jobs that exist.
ManifestFits == manifest.initial \subseteq Job /\ ToSet(manifest.later) \subseteq Job

\* Whatever the mode of the arrivals is.
LEMMA ManifestsFit ==
  ASSUME NEW mode \in {"legacy", "all_at_start", "scheduled", "weighted_random"},
         NEW x \in Manifests(mode)
  PROVE  x.initial \subseteq Job /\ ToSet(x.later) \subseteq Job
  <1> DEFINE nobody == [c \in Classes |-> 0]
             now == [c \in Classes |-> IF c \in Delayed THEN 0 ELSE Count[c]]
             left(present) == [c \in Classes |-> Count[c] - present[c]]
  <1>1. /\ now \in [Classes -> Nat] /\ left(now) \in [Classes -> Nat]
        /\ \A c \in Classes : now[c] + left(now)[c] <= Count[c] /\ now[c] <= Count[c]
    BY Bounds
  <1>2. /\ left(Initial) \in [Classes -> Nat]
        /\ \A c \in Classes : Initial[c] + left(Initial)[c] <= Count[c] /\ Initial[c] <= Count[c]
    <2>1. \A c \in Classes : /\ Count[c] \in Nat /\ Initial[c] \in Nat /\ Limit[c] \in Nat
                             /\ Initial[c] + Limit[c] <= Count[c]
      BY Bounds
    <2>2. \A c \in Classes : /\ Count[c] - Initial[c] \in Nat /\ Initial[c] <= Count[c]
                             /\ Initial[c] + (Count[c] - Initial[c]) <= Count[c]
      BY <2>1
    <2> QED
      BY <2>2
  <1>3. CASE mode = "legacy"
    <2>1. x \in {[initial |-> JobsOf(now), later |-> Numbered(s, now)] :
                   s \in Arrivals(left(now), left(now))}
      BY <1>3, Zenon DEF Manifests
    <2> HIDE DEF now, left
    <2>2. PICK s \in Arrivals(left(now), left(now)) :
             x = [initial |-> JobsOf(now), later |-> Numbered(s, now)]
      BY <2>1
    <2>3. s \in Seq(Classes) /\ \A c \in Classes : Occurrences(s, c) <= left(now)[c]
      BY <1>1, ArrivalsAre
    <2>4. ToSet(Numbered(s, now)) \subseteq Job /\ JobsOf(now) \subseteq Job
      BY <1>1, <2>3, NumberedFits, JobsOfFits
    <2> QED
      BY <2>2, <2>4
  <1>4. CASE mode = "all_at_start"
    <2>1. x \in {[initial |-> Job, later |-> <<>>]}
      BY <1>4, Zenon DEF Manifests
    <2> QED
      BY <2>1 DEF ToSet
  <1>5. CASE mode = "scheduled"
    <2>1. x \in {[initial |-> JobsOf(Initial), later |-> Numbered(s, Initial)] :
                   s \in Arrivals(nobody, left(Initial))}
      BY <1>5, Zenon DEF Manifests
    <2> HIDE DEF nobody, left
    <2>2. PICK s \in Arrivals(nobody, left(Initial)) :
             x = [initial |-> JobsOf(Initial), later |-> Numbered(s, Initial)]
      BY <2>1
    <2>3. s \in Seq(Classes) /\ \A c \in Classes : Occurrences(s, c) <= left(Initial)[c]
      BY <1>2, ArrivalsAre
    <2>4. ToSet(Numbered(s, Initial)) \subseteq Job /\ JobsOf(Initial) \subseteq Job
      BY <1>2, <2>3, Bounds, NumberedFits, JobsOfFits
    <2> QED
      BY <2>2, <2>4
  <1>6. CASE mode = "weighted_random"
    <2>1. x \in {[initial |-> JobsOf(Initial), later |-> Numbered(s, Initial)] :
                   s \in Arrivals(nobody, Limit) \ {<<>>}}
      BY <1>6, Zenon DEF Manifests
    <2> HIDE DEF nobody
    <2>2. PICK s \in Arrivals(nobody, Limit) :
             x = [initial |-> JobsOf(Initial), later |-> Numbered(s, Initial)]
      BY <2>1
    <2>3. s \in Seq(Classes) /\ \A c \in Classes : Occurrences(s, c) <= Limit[c]
      BY Bounds, ArrivalsAre
    <2>4. ToSet(Numbered(s, Initial)) \subseteq Job /\ JobsOf(Initial) \subseteq Job
      BY <1>2, <2>3, Bounds, NumberedFits, JobsOfFits
    <2> QED
      BY <2>2, <2>4
  <1> QED
    BY <1>3, <1>4, <1>5, <1>6

-----------------------------------------------------------------------------
(* The policy. *)

\* What the policy that a job follows rests on.
ArmTypes ==
  /\ ManifestFits
  /\ DOMAIN state = Job /\ DOMAIN ended = Job /\ DOMAIN enacted = Job
  /\ phase \in {"run", "drain", "results"}

\* It is what the jobs of the arm that run follow, and when the results are written no
\* flush is in progress.
ArmInductive == ArmTypes /\ PolicyFits /\ (phase = "results" => live = {})

\* In the initial states the jobs present at the start follow their composition.
LEMMA ArmStarts == Init => ArmInductive
  <1> SUFFICES ASSUME Init PROVE ArmInductive
    OBVIOUS
  <1>1. PICK mode \in {"legacy", "all_at_start", "scheduled", "weighted_random"} :
           manifest \in Manifests(mode)
    BY Zenon DEF Init
  <1>2. ManifestFits
    BY <1>1, ManifestsFit DEF ManifestFits
  <1>3. DOMAIN state = Job /\ DOMAIN ended = Job /\ DOMAIN enacted = Job /\ phase = "run"
    BY DEF Init
  <1>4. RunningIn(state, ended) = manifest.initial
    BY <1>2 DEF Init, RunningIn, ManifestFits, Admitted
  <1>5. arm.resolve => \A j \in manifest.initial : enacted[j] = Composition(manifest.initial)
    BY <1>2 DEF Init, ManifestFits
  <1> QED
    BY <1>2, <1>3, <1>4, <1>5 DEF ArmInductive, ArmTypes, PolicyFits

\* Jobs whose policy has just been solved follow it.
LEMMA ResolvedFits ==
  ASSUME ArmTypes, NEW st, NEW en, NEW j \in RunningIn(st, en), arm.resolve
  PROVE  Resolved(st, en)[j] = Composition(RunningIn(st, en))
  <1>1. j \in Job
    BY DEF ArmTypes, ManifestFits, RunningIn, Admitted
  <1> QED
    BY <1>1 DEF Resolved

\* A step that leaves the jobs that run and their policies alone keeps the invariant.
LEMMA SameJobs ==
  ASSUME ArmInductive, UNCHANGED <<arm, manifest, enacted>>,
         DOMAIN state' = Job, DOMAIN ended' = Job,
         RunningIn(state, ended)' = RunningIn(state, ended),
         phase' \in {"run", "drain", "results"}, phase' = "results" => live' = {}
  PROVE  ArmInductive'
  BY DEF ArmInductive, ArmTypes, ManifestFits, PolicyFits, Composition

\* A step that solves the policy for the jobs that then run keeps it as well.
LEMMA SolvesPolicy ==
  ASSUME ArmInductive, UNCHANGED <<arm, manifest, phase, live>>,
         DOMAIN state' = Job, DOMAIN ended' = Job, enacted' = Resolved(state', ended')
  PROVE  ArmInductive'
  <1>1. ArmTypes /\ DOMAIN Resolved(state', ended') = Job
    BY DEF ArmInductive, ArmTypes, Resolved
  <1>2. ArmTypes'
    BY <1>1 DEF ArmTypes, ManifestFits
  <1>3. RunningIn(state, ended)' = RunningIn(state', ended')
    BY DEF RunningIn, Admitted
  <1>4. PolicyFits'
    <2> SUFFICES ASSUME arm.resolve, NEW j \in RunningIn(state', ended')
                 PROVE  enacted'[j] = Composition(RunningIn(state', ended'))
      BY <1>3 DEF PolicyFits, Composition
    <2> QED
      BY <1>1, ResolvedFits
  <1> QED
    BY <1>2, <1>4 DEF ArmInductive

\* Every step keeps it: only an arrival and an end change the jobs that run, and both
\* solve the policy with the change in; the cap leaves no job running.
LEMMA ArmKept == ArmInductive /\ [Next]_vars => ArmInductive'
  <1> SUFFICES ASSUME ArmInductive, [Next]_vars PROVE ArmInductive'
    OBVIOUS
  <1>1. /\ ArmTypes /\ ManifestFits
        /\ DOMAIN state = Job /\ DOMAIN ended = Job /\ DOMAIN enacted = Job
        /\ phase \in {"run", "drain", "results"} /\ (phase = "results" => live = {})
    BY DEF ArmInductive, ArmTypes
  <1>2. ASSUME NEW j \in Admitted, Arrive(j) PROVE ArmInductive'
    <2>1. /\ UNCHANGED <<arm, manifest, phase, live, ended>> /\ state[j] = "pending"
          /\ state' = [state EXCEPT ![j] = "active"]
          /\ enacted' = IF j \in manifest.initial THEN enacted ELSE Resolved(state', ended)
      BY <1>2 DEF Arrive, parameters, ending
    <2>2. DOMAIN state' = Job /\ DOMAIN ended' = Job
      BY <1>1, <2>1
    <2>3. CASE j \in manifest.initial
      <3>1. j \in DOMAIN state
        BY <1>1, <2>3 DEF ManifestFits
      <3>2. \A k : /\ k # j => state'[k] = state[k]
                   /\ state'[j] = "active"
        BY <2>1, <3>1
      <3>3. \A k \in Admitted :
              (/\ k \in manifest.initial \/ state'[k] # "pending"
               /\ state'[k] # "idle_checkpoint" /\ ended[k] = "no")
              <=> (/\ k \in manifest.initial \/ state[k] # "pending"
                   /\ state[k] # "idle_checkpoint" /\ ended[k] = "no")
        BY <2>1, <2>3, <3>2
      <3>4. RunningIn(state, ended)' = RunningIn(state, ended)
        BY <2>1, <3>3 DEF RunningIn, Admitted
      <3> QED
        BY <1>1, <2>1, <2>2, <2>3, <3>4, SameJobs
    <2>4. CASE j \notin manifest.initial
      <3>1. enacted' = Resolved(state', ended')
        BY <2>1, <2>4
      <3> QED
        BY <2>1, <2>2, <3>1, SolvesPolicy
    <2> QED
      BY <2>3, <2>4
  <1>3. ASSUME NEW j \in Admitted, Finish(j) PROVE ArmInductive'
    <2>1. /\ UNCHANGED <<arm, manifest, phase, live>>
          /\ DOMAIN state' = Job /\ DOMAIN ended' = Job
          /\ enacted' = Resolved(state', ended')
      BY <1>1, <1>3 DEF Finish, parameters, ending
    <2> QED
      BY <2>1, SolvesPolicy
  <1>4. ASSUME NEW j \in Admitted, Begin(j) \/ Train(j) \/ Evict(j) \/ Request(j) \/ Fail(j)
        PROVE  ArmInductive'
    <2>1. /\ UNCHANGED <<arm, manifest, phase, state, ended, enacted>> /\ phase # "results"
      BY <1>4 DEF Begin, Train, Evict, Request, Fail, RollBack, parameters, ending, Simulated
    <2>2. RunningIn(state, ended)' = RunningIn(state, ended)
      BY <2>1 DEF RunningIn, Admitted
    <2> QED
      BY <1>1, <2>1, <2>2, SameJobs
  <1>5. ASSUME NEW p \in live, FlushStep(p) PROVE ArmInductive'
    <2>1. /\ UNCHANGED <<arm, manifest, phase, state, ended, enacted>> /\ phase # "results"
      BY <1>5 DEF FlushStep, Persisted, Stored, parameters, ending, course, Simulated
    <2>2. RunningIn(state, ended)' = RunningIn(state, ended)
      BY <2>1 DEF RunningIn, Admitted
    <2> QED
      BY <1>1, <2>1, <2>2, SameJobs
  <1>6. CASE Complete \/ Await
    <2>1. /\ UNCHANGED <<arm, manifest, state, ended, enacted, live>>
          /\ phase' = IF live = {} THEN "results" ELSE "drain"
      BY <1>6 DEF Complete, Await, DrainOrResults, parameters, course
    <2>2. RunningIn(state, ended)' = RunningIn(state, ended)
      BY <2>1 DEF RunningIn, Admitted
    <2> QED
      BY <1>1, <2>1, <2>2, SameJobs
  <1>7. CASE Cap
    <2>1. /\ UNCHANGED <<arm, manifest, enacted, live>>
          /\ phase' = IF live = {} THEN "results" ELSE "drain"
          /\ ended' = [j \in Job |-> IF j \in censored' THEN "capped" ELSE ended[j]]
          /\ censored' = {j \in Admitted : ended[j] = "no"}
          /\ DOMAIN state' = Job
      BY <1>7 DEF Cap, DrainOrResults, parameters
    <2>2. \A j \in Admitted : ended'[j] # "no"
      BY <1>1, <2>1 DEF ManifestFits, Admitted
    <2>3. RunningIn(state, ended)' = {}
      BY <2>1, <2>2 DEF RunningIn, Admitted
    <2> QED
      BY <1>1, <2>1, <2>3 DEF ArmInductive, ArmTypes, ManifestFits, PolicyFits
  <1>8. CASE UNCHANGED vars
    <2>1. UNCHANGED <<arm, manifest, phase, state, ended, enacted, live>>
      BY <1>8 DEF vars
    <2>2. RunningIn(state, ended)' = RunningIn(state, ended)
      BY <2>1 DEF RunningIn, Admitted
    <2> QED
      BY <1>1, <2>1, <2>2, SameJobs
  <1> QED
    BY <1>2, <1>3, <1>4, <1>5, <1>6, <1>7, <1>8 DEF Next, JobStep, Ending

\* Every arrival of a manifest is a job of its class, and the results are written only when
\* no flush is in progress.
THEOREM ArmInvariance == Spec => []ArmInductive
  <1>1. Init => ArmInductive
    BY ArmStarts
  <1>2. ArmInductive /\ [Next]_vars => ArmInductive'
    BY ArmKept
  <1> QED
    BY <1>1, <1>2, PTL DEF Spec

\* A job that runs follows the policy of the jobs that run now, whatever arrivals and
\* departures came in between.
THEOREM PolicyFollows == Spec => []PolicyFits
  <1>1. Spec => []ArmInductive
    BY ArmInvariance
  <1>2. ArmInductive => PolicyFits
    BY DEF ArmInductive
  <1> QED
    BY <1>1, <1>2, PTL
-----------------------------------------------------------------------------
(***************************************************************************)
(* InJobReplicas, for any strategy, cohorts, iterations and events.        *)
(***************************************************************************)

\* A record is of a copy that exists, or lies on a dark node and will be dropped again.
OnRecord ==
  /\ real = {c \in copies : c.at \notin dark}
  /\ \A c \in late : c.at \in dark
  /\ \A c \in copies : c.at \in dark => c \in Redropped

\* Only a rack makes nodes dark. No flight of a cohort goes on after its node went dark,
\* and what others receive there, unless they receive it on their disks, is in memory.
OwnersInService ==
  /\ dark \subseteq Cohort /\ (dark # {} => setting.racks)
  /\ pc \in {"iterate", "failures"} => \A f \in flights : f.owner \notin dark
  /\ \A f \in flights : f.owner \in f.watched
  /\ \A f \in flights : f.step = "flow" => \A t \in f.to :
       t[1] = Store \/ t[2] = "dram" \/ t[1] = f.owner \/ setting.strategy = "injob_ssd"
  /\ setting.strategy = "jit" => flights = {}

\* A job that recovers has nothing in flight, and nobody is failed but those it recovers.
Recovering == {"plan", "recover", "restart", "fetch"}
FailedRecover ==
  /\ next \in {"iterate", "racks", "failures"}
  /\ pc \in Recovering => flights = {}
  /\ pc \in {"plan", "restart", "fetch"} => failed = batch
  /\ pc = "plan" => recovered = {}
  /\ pc = "recover" => failed = batch \ recovered
  /\ pc \notin Recovering => failed = {}

ReplicaInductive ==
  /\ setting \in Settings
  /\ ~WritesToDarkDisks => OnRecord /\ OwnersInService /\ FailedRecover

\* A copy takes the place of one on the same node: what is on some nodes can be told
\* without the others.
LEMMA PutOnNodes ==
  ASSUME NEW cs, NEW new, NEW D
  PROVE  \A c : /\ c \in PutAll(cs, new) => c \in cs \cup new
                /\ (c \in PutAll(cs, new) /\ c.at \notin D)
                     <=> c \in PutAll({d \in cs : d.at \notin D}, {d \in new : d.at \notin D})
  BY DEF PutAll, SameKey

\* The initial state.
LEMMA ReplicaStarts == ReplicaInit => ReplicaInductive
  BY DEF ReplicaInit, ReplicaInductive, OnRecord, OwnersInService, FailedRecover, Recovering,
         Redropped

\* The copies of new land: on dark nodes they are late.
LEMMA LandedOnRecord ==
  ASSUME OnRecord, NEW new,
         copies' = PutAll(copies, new),
         real' = PutAll(real, {c \in new : c.at \notin dark}),
         late' = late \cup {c \in new : c.at \in dark},
         \A c \in new : c.at \in dark => c.tier = "dram" \/ c.at = c.owner,
         UNCHANGED dark
  PROVE  OnRecord'
  <1>1. \A c : (c \in copies' /\ c.at \notin dark) <=> c \in real'
    BY PutOnNodes DEF OnRecord
  <1>2. \A c \in copies' : c \in copies \cup new
    BY PutOnNodes
  <1>3. real' = {c \in copies' : c.at \notin dark'}
    BY <1>1
  <1>4. \A c \in copies' : c.at \in dark' => c \in Redropped'
    BY <1>2 DEF OnRecord, Redropped
  <1> QED
    BY <1>3, <1>4 DEF OnRecord

\* An iteration starts flights for every cohort, and ends before anything else happens.
LEMMA IterateKept ==
  ASSUME ReplicaInductive, ~WritesToDarkDisks, Iterate
  PROVE  OnRecord' /\ OwnersInService' /\ FailedRecover'
  <1>1. \A f \in Wave(it') : /\ f.owner \in f.watched
                             /\ f.step = "flow" => f.to = {<<Store, "store">>}
    BY DEF Wave, Flight
  <1>2. setting.strategy = "jit" => Wave(it') = {}
    BY DEF Wave
  <1>3. /\ flights' = flights \cup Wave(it') /\ pc = "iterate" /\ pc' = "checks"
        /\ UNCHANGED <<setting, copies, real, failed, dark, late, recovery>>
    BY DEF Iterate
  <1>4. OnRecord'
    BY <1>3 DEF ReplicaInductive, OnRecord, Redropped
  <1>5. \A f \in flights' : f.step = "flow" => \A t \in f.to :
          t[1] = Store \/ t[2] = "dram" \/ t[1] = f.owner \/ setting.strategy = "injob_ssd"
    BY <1>1, <1>3 DEF ReplicaInductive, OwnersInService
  <1>6. OwnersInService'
    BY <1>1, <1>2, <1>3, <1>5 DEF ReplicaInductive, OwnersInService, Cohort, Ranks, Store
  <1> QED
    BY <1>3, <1>4, <1>6 DEF ReplicaInductive, FailedRecover, Recovering, recovery

\* A snapshot is of a cohort in service.
LEMMA CaptureKept ==
  ASSUME ReplicaInductive, ~WritesToDarkDisks, NEW f, Capture(f)
  PROVE  OnRecord' /\ OwnersInService' /\ FailedRecover'
  <1> DEFINE c == Copy(f.owner, f.owner, "dram", f.it)
             g == Flight(f.owner, f.it, "queued", {})
  <1>1. /\ pc = "iterate" /\ f \in flights /\ f.owner \notin dark
        /\ copies' = Put(copies, c) /\ real' = Put(real, c)
        /\ flights' = (flights \ {f}) \cup {g}
        /\ UNCHANGED <<setting, pc, failed, dark, late, recovery>>
    BY DEF Capture, ReplicaInductive, OwnersInService
  <1>2. c.at = f.owner /\ c.tier = "dram"
    BY DEF Copy
  <1>3. {d \in {c} : d.at \notin dark} = {c} /\ {d \in {c} : d.at \in dark} = {}
    BY <1>1, <1>2
  <1>4. g.owner = f.owner /\ f.owner \in g.watched /\ g.step = "queued"
    BY DEF Flight
  <1> HIDE DEF c, g
  <1>5. /\ copies' = PutAll(copies, {c})
        /\ real' = PutAll(real, {d \in {c} : d.at \notin dark})
        /\ late' = late \cup {d \in {c} : d.at \in dark}
        /\ \A d \in {c} : d.at \in dark => d.tier = "dram" \/ d.at = d.owner
    BY <1>1, <1>2, <1>3 DEF Put
  <1>6. OnRecord'
    BY <1>1, <1>5, LandedOnRecord DEF ReplicaInductive
  <1>7. OwnersInService'
    BY <1>1, <1>4 DEF ReplicaInductive, OwnersInService, Cohort, Ranks, Store
  <1> QED
    BY <1>1, <1>6, <1>7 DEF ReplicaInductive, FailedRecover, Recovering, recovery

\* Where a flow goes: to the store, into memory, or to the disk of its own node.
LEMMA PersistedWhere ==
  ASSUME setting \in Settings, NEW w, setting.strategy # "jit"
  PROVE  \A t \in PersistedAt(w) :
           t[1] = Store \/ t[2] = "dram" \/ t[1] = w \/ setting.strategy = "injob_ssd"
  <1>1. setting.strategy \in {"gemini", "injob_ssd", "checkfreq", "checknrun", "megascale"}
    BY ReplicaAssumption DEF ReplicaAssumption
  <1>2. CASE setting.strategy = "gemini"
    <2>1. PersistedAt(w) = Ring(w, setting.peers) \X {"dram"}
      BY <1>2 DEF PersistedAt
    <2> QED
      BY <2>1
  <1>3. CASE setting.strategy = "checkfreq"
    <2>1. PersistedAt(w) = {<<w, "ssd">>}
      BY <1>3 DEF PersistedAt
    <2> QED
      BY <2>1
  <1>4. CASE setting.strategy \in {"checknrun", "megascale"}
    <2>1. PersistedAt(w) = {<<Store, "store">>}
      BY <1>4 DEF PersistedAt
    <2> QED
      BY <2>1
  <1> QED
    BY <1>1, <1>2, <1>3, <1>4

\* A flow may go to a node that is dark: what lands there is late.
LEMMA LaunchKept ==
  ASSUME ReplicaInductive, ~WritesToDarkDisks, NEW f, Launch(f)
  PROVE  OnRecord' /\ OwnersInService' /\ FailedRecover'
  <1> DEFINE g == Flight(f.owner, f.it, "flow", PersistedAt(f.owner))
  <1>1. /\ pc = "iterate" /\ f \in flights /\ f.owner \notin dark
        /\ flights' \subseteq (flights \ {f}) \cup {g}
        /\ UNCHANGED <<setting, pc, copies, real, failed, dark, late, recovery>>
    BY DEF Launch, ReplicaInductive, OwnersInService
  <1>2. /\ g.owner = f.owner /\ f.owner \in g.watched
        /\ g.to = PersistedAt(f.owner)
    BY DEF Flight
  <1>3. setting.strategy # "jit" /\ setting \in Settings
    BY <1>1 DEF ReplicaInductive, OwnersInService
  <1> HIDE DEF g
  <1>4. \A t \in g.to :
          t[1] = Store \/ t[2] = "dram" \/ t[1] = g.owner \/ setting.strategy = "injob_ssd"
    BY <1>2, <1>3, PersistedWhere
  <1>5. OnRecord'
    BY <1>1 DEF ReplicaInductive, OnRecord, Redropped
  <1>6. OwnersInService'
    BY <1>1, <1>2, <1>3, <1>4 DEF ReplicaInductive, OwnersInService, Cohort, Ranks, Store
  <1> QED
    BY <1>1, <1>5, <1>6 DEF ReplicaInductive, FailedRecover, Recovering, recovery

\* What lands on a dark node lands in its memory, or on the disk of the owner itself.
LEMMA LandKept ==
  ASSUME ReplicaInductive, ~WritesToDarkDisks, NEW f, Land(f)
  PROVE  OnRecord' /\ OwnersInService' /\ FailedRecover'
  <1> DEFINE new == {Copy(f.owner, t[1], t[2], f.it) : t \in f.to}
  <1>1. /\ pc = "iterate" /\ f \in flights /\ f.step = "flow"
        /\ copies' = PutAll(copies, new)
        /\ real' = PutAll(real, {c \in new : c.at \notin dark})
        /\ late' = late \cup {c \in new : c.at \in dark}
        /\ flights' = flights \ {f}
        /\ UNCHANGED <<setting, pc, failed, dark, recovery>>
    BY DEF Land
  <1>2. ASSUME NEW c \in new, c.at \in dark
        PROVE  c.tier = "dram" \/ c.at = c.owner
    <2>1. PICK t \in f.to : c = Copy(f.owner, t[1], t[2], f.it)
      BY <1>2
    <2>2. c.owner = f.owner /\ c.at = t[1] /\ c.tier = t[2]
      BY <2>1 DEF Copy
    <2>3. t[1] # Store /\ setting.racks
      BY <1>2, <2>2, ReplicaAssumption
         DEF ReplicaAssumption, ReplicaInductive, OwnersInService, Cohort, Ranks, Store
    <2> QED
      BY <1>1, <2>2, <2>3 DEF ReplicaInductive, OwnersInService, WritesToDarkDisks
  <1> HIDE DEF new
  <1>3. OnRecord'
    BY <1>1, <1>2, LandedOnRecord DEF ReplicaInductive
  <1>4. OwnersInService'
    BY <1>1 DEF ReplicaInductive, OwnersInService, Cohort, Ranks, Store
  <1> QED
    BY <1>1, <1>3, <1>4 DEF ReplicaInductive, FailedRecover, Recovering, recovery

\* An eviction leaves what is in the store, and every cohort to recover.
LEMMA EvictionKept ==
  ASSUME ReplicaInductive, ~WritesToDarkDisks, WholeJobEviction
  PROVE  OnRecord' /\ OwnersInService' /\ FailedRecover'
  <1>1. /\ pc = "checks" /\ UNCHANGED <<setting, dark, late>>
        /\ \/ /\ pc' = "racks" /\ UNCHANGED <<flights, copies, real, failed, recovery>>
           \/ /\ pc' = "plan" /\ next' = "racks" /\ flights' = {}
              /\ copies' = {c \in copies : c.at = Store} /\ real' = {c \in real : c.at = Store}
              /\ failed' = batch' /\ recovered' = {}
    BY DEF WholeJobEviction
  <1>2. OnRecord'
    BY <1>1 DEF ReplicaInductive, OnRecord, Redropped
  <1>3. OwnersInService'
    BY <1>1 DEF ReplicaInductive, OwnersInService, Cohort, Ranks, Store
  <1> QED
    BY <1>1, <1>2, <1>3 DEF ReplicaInductive, FailedRecover, Recovering, recovery

\* The restart after a rack event drops exactly what lies on the dark nodes.
LEMMA RackFailureKept ==
  ASSUME ReplicaInductive, ~WritesToDarkDisks, RackFailure
  PROVE  OnRecord' /\ OwnersInService' /\ FailedRecover'
  <1>1. /\ pc = "racks" /\ UNCHANGED <<setting, real>>
        /\ \/ /\ dark = {} /\ pc' = "failures"
              /\ UNCHANGED <<flights, copies, failed, dark, late, recovery>>
           \/ /\ dark # {} /\ pc' = "plan" /\ next' = "failures" /\ flights' = {}
              /\ copies' = copies \ Redropped
              /\ failed' = failed \cup dark /\ batch' = dark /\ recovered' = {}
              /\ dark' = {} /\ late' = {}
    BY DEF RackFailure
  <1>2. CASE dark = {}
    BY <1>1, <1>2 DEF ReplicaInductive, OnRecord, Redropped, OwnersInService, FailedRecover,
                      Recovering, recovery, Cohort, Ranks, Store
  <1>3. CASE dark # {}
    <2>1. /\ pc' = "plan" /\ next' = "failures" /\ flights' = {}
          /\ copies' = copies \ Redropped /\ failed' = failed \cup dark /\ batch' = dark
          /\ recovered' = {} /\ dark' = {} /\ late' = {}
      BY <1>1, <1>3
    <2>2. real = copies \ Redropped
      BY DEF ReplicaInductive, OnRecord, Redropped
    <2>3. OnRecord'
      BY <1>1, <2>1, <2>2 DEF OnRecord
    <2>4. failed' = batch'
      BY <1>1, <2>1 DEF ReplicaInductive, FailedRecover, Recovering
    <2>5. OwnersInService'
      BY <2>1 DEF OwnersInService
    <2> QED
      BY <2>1, <2>3, <2>4, <2>5 DEF FailedRecover, Recovering
  <1> QED
    BY <1>2, <1>3

\* A rollback forgets what is newer, on every node alike.
LEMMA ReplanKept ==
  ASSUME ReplicaInductive, ~WritesToDarkDisks, Replan
  PROVE  OnRecord' /\ OwnersInService' /\ FailedRecover'
  <1>1. /\ pc = "plan" /\ pc' = "recover"
        /\ copies' = Until(copies, target') /\ real' = Until(real, target')
        /\ UNCHANGED <<setting, next, flights, failed, dark, late, batch, recovered>>
    BY DEF Replan
  <1>2. OnRecord'
    BY <1>1 DEF ReplicaInductive, OnRecord, Redropped, Until
  <1>3. OwnersInService'
    BY <1>1 DEF ReplicaInductive, OwnersInService, Recovering, Cohort, Ranks, Store
  <1> QED
    BY <1>1, <1>2, <1>3 DEF ReplicaInductive, FailedRecover, Recovering

\* A cohort that comes back on a node that went dark meanwhile has a late copy.
LEMMA RestoredKept ==
  ASSUME ReplicaInductive, ~WritesToDarkDisks, NEW w, Restored(w)
  PROVE  OnRecord' /\ OwnersInService' /\ FailedRecover'
  <1> DEFINE c == Back(w)
  <1>1. /\ pc = "recover" /\ copies' = Put(copies, c)
        /\ IF w \in dark THEN late' = late \cup {c} /\ UNCHANGED real
                         ELSE real' = Put(real, c) /\ UNCHANGED late
        /\ failed' = failed \ {w} /\ recovered' = recovered \cup {w}
        /\ UNCHANGED <<setting, pc, next, flights, dark, batch>>
    BY DEF Restored
  <1>2. c.at = w /\ c.tier = "dram"
    BY DEF Back, Copy
  <1> HIDE DEF c
  <1>3. OnRecord'
    <2>1. CASE w \in dark
      <3>1. /\ {d \in {c} : d.at \notin dark} = {} /\ {d \in {c} : d.at \in dark} = {c}
        BY <1>2, <2>1
      <3>2. PutAll(real, {}) = real
        BY DEF PutAll
      <3> QED
        BY <1>1, <1>2, <2>1, <3>1, <3>2, LandedOnRecord DEF ReplicaInductive, Put
    <2>2. CASE w \notin dark
      <3>1. /\ {d \in {c} : d.at \notin dark} = {c} /\ {d \in {c} : d.at \in dark} = {}
        BY <1>2, <2>2
      <3> QED
        BY <1>1, <1>2, <2>2, <3>1, LandedOnRecord DEF ReplicaInductive, Put
    <2> QED
      BY <2>1, <2>2
  <1>4. OwnersInService'
    BY <1>1 DEF ReplicaInductive, OwnersInService, Cohort, Ranks, Store
  <1> QED
    BY <1>1, <1>3, <1>4 DEF ReplicaInductive, FailedRecover, Recovering

\* The failure of one node drops what it destroys.
LEMMA SingleFailureKept ==
  ASSUME ReplicaInductive, ~WritesToDarkDisks, SingleNodeFailure
  PROVE  OnRecord' /\ OwnersInService' /\ FailedRecover'
  <1>1. /\ pc = "failures" /\ UNCHANGED <<setting, dark, late>>
    BY DEF SingleNodeFailure
  <1>2. CASE pc' = Looping /\ UNCHANGED <<flights, copies, real, failed, recovery>>
    <2>1. pc' \in {"iterate", "done"}
      BY <1>2 DEF Looping
    <2> QED
      BY <1>1, <1>2, <2>1 DEF ReplicaInductive, OnRecord, Redropped, OwnersInService,
                              FailedRecover, Recovering, recovery, Cohort, Ranks, Store
  <1>3. CASE pc' = "restart"
    <2>1. PICK w \in Cohort, type \in {"process", "reboot", "node"} :
            /\ failed' = {w} /\ batch' = {w} /\ copies' = copies \ Dropped(w, type)
            /\ real' = {c \in real : c.at # w \/ c.tier \notin Lost(type)}
            /\ flights' = {} /\ UNCHANGED <<next, recovered, target>>
      BY <1>3 DEF SingleNodeFailure, Looping
    <2>2. \A c \in copies : c \in copies' <=> c.at # w \/ c.tier \notin Lost(type)
      BY <2>1 DEF Dropped
    <2>3. copies' \subseteq copies
      BY <2>1
    <2>4. real' = {c \in copies' : c.at \notin dark}
      BY <2>1, <2>2, <2>3 DEF ReplicaInductive, OnRecord
    <2>5. OnRecord'
      BY <1>1, <2>3, <2>4 DEF ReplicaInductive, OnRecord, Redropped
    <2>6. OwnersInService'
      BY <1>1, <1>3, <2>1 DEF ReplicaInductive, OwnersInService, Cohort, Ranks, Store
    <2> QED
      BY <1>3, <2>1, <2>5, <2>6 DEF ReplicaInductive, FailedRecover, Recovering
  <1> QED
    BY <1>2, <1>3 DEF SingleNodeFailure

\* What a recovery fetches is in host memory first, late if the node went dark meanwhile.
LEMMA FetchKept ==
  ASSUME ReplicaInductive, ~WritesToDarkDisks, Fetch
  PROVE  OnRecord' /\ OwnersInService' /\ FailedRecover'
  <1> DEFINE new == {Back(w) : w \in batch}
             put == PutAll(copies, new)
             kept == PutAll(real, {c \in new : c.at \notin dark})
  <1>1. /\ pc = "fetch" /\ pc' = "failures"
        /\ copies' = Until(put, target) /\ real' = Until(kept, target)
        /\ late' = late \cup {c \in new : c.at \in dark}
        /\ failed' = {} /\ UNCHANGED <<setting, flights, dark, recovery>>
    BY DEF Fetch
  <1>2. \A c \in new : c.tier = "dram"
    BY DEF Back, Copy
  <1>3. /\ \A c : (c \in put /\ c.at \notin dark) <=> c \in kept
        /\ \A c \in put : c \in copies \cup new
    <2>1. kept = PutAll({c \in copies : c.at \notin dark}, {c \in new : c.at \notin dark})
      BY DEF ReplicaInductive, OnRecord
    <2> HIDE DEF new
    <2> QED
      BY <2>1, PutOnNodes
  <1> HIDE DEF new, put, kept
  <1>4. real' = {c \in copies' : c.at \notin dark}
    BY <1>1, <1>3 DEF Until
  <1>5. \A c \in copies' : c \in copies \cup new
    BY <1>1, <1>3 DEF Until
  <1>6. OnRecord'
    BY <1>1, <1>2, <1>4, <1>5 DEF ReplicaInductive, OnRecord, Redropped
  <1>7. OwnersInService'
    BY <1>1 DEF ReplicaInductive, OwnersInService, FailedRecover, Recovering, Cohort, Ranks,
                Store
  <1> QED
    BY <1>1, <1>6, <1>7 DEF ReplicaInductive, FailedRecover, Recovering, recovery

\* A rack goes dark: what watches it ends, and what is on it is dropped.
LEMMA RackEventKept ==
  ASSUME ReplicaInductive, ~WritesToDarkDisks, NEW hit \in SUBSET Cohort, RackEvent(hit)
  PROVE  OnRecord' /\ OwnersInService' /\ FailedRecover'
  <1>1. /\ setting.racks /\ pc \in {"iterate", "recover", "fetch"}
        /\ dark' = dark \cup hit
        /\ copies' = {c \in copies : c.at \notin hit} /\ real' = {c \in real : c.at \notin hit}
        /\ flights' = Undisturbed(hit \ failed)
        /\ UNCHANGED <<setting, pc, failed, late, recovery>>
    BY DEF RackEvent
  <1>2. flights' \subseteq flights /\ \A f \in flights' : f.watched \cap (hit \ failed) = {}
    BY <1>1 DEF Undisturbed
  <1>3. pc = "iterate" => failed = {}
    BY DEF ReplicaInductive, FailedRecover, Recovering
  <1>4. pc = "iterate" => \A f \in flights' : f.owner \notin dark'
    BY <1>1, <1>2, <1>3 DEF ReplicaInductive, OwnersInService
  <1>5. OnRecord'
    BY <1>1 DEF ReplicaInductive, OnRecord, Redropped
  <1>6. OwnersInService'
    BY <1>1, <1>2, <1>4 DEF ReplicaInductive, OwnersInService, Cohort, Ranks, Store
  <1> QED
    BY <1>1, <1>2, <1>5, <1>6 DEF ReplicaInductive, FailedRecover, Recovering, recovery

\* Every step.
LEMMA ReplicaKept ==
  ASSUME ReplicaInductive, [ReplicaNext]_replicaVars
  PROVE  ReplicaInductive'
  <1>1. setting' = setting
    BY DEF ReplicaNext, replicaVars, JobAction, Iterate, WholeJobEviction, RackFailure, Replan,
           Restored, Recovered, SingleNodeFailure, Choose, Fetch, Capture, Launch, Land,
           RackEvent
  <1>2. ASSUME ~WritesToDarkDisks
        PROVE  OnRecord' /\ OwnersInService' /\ FailedRecover'
    <2>1. CASE Iterate
      BY <1>2, <2>1, IterateKept
    <2>2. CASE WholeJobEviction
      BY <1>2, <2>2, EvictionKept
    <2>3. CASE RackFailure
      BY <1>2, <2>3, RackFailureKept
    <2>4. CASE Replan
      BY <1>2, <2>4, ReplanKept
    <2>5. CASE Recovered
      BY <1>2, <2>5 DEF Recovered, ReplicaInductive, OnRecord, Redropped, OwnersInService,
                        FailedRecover, Recovering, recovery, Cohort, Ranks, Store
    <2>6. CASE SingleNodeFailure
      BY <1>2, <2>6, SingleFailureKept
    <2>7. CASE Choose
      BY <1>2, <2>7 DEF Choose, ReplicaInductive, OnRecord, Redropped, OwnersInService,
                        FailedRecover, Recovering, Cohort, Ranks, Store
    <2>8. CASE Fetch
      BY <1>2, <2>8, FetchKept
    <2>9. ASSUME NEW w \in batch, Restored(w) PROVE OnRecord' /\ OwnersInService' /\ FailedRecover'
      BY <1>2, <2>9, RestoredKept
    <2>10. ASSUME NEW f \in flights, Capture(f) \/ Launch(f) \/ Land(f)
           PROVE  OnRecord' /\ OwnersInService' /\ FailedRecover'
      BY <1>2, <2>10, CaptureKept, LaunchKept, LandKept
    <2>11. ASSUME NEW hit \in SUBSET Cohort, RackEvent(hit)
           PROVE  OnRecord' /\ OwnersInService' /\ FailedRecover'
      BY <1>2, <2>11, RackEventKept
    <2>12. CASE UNCHANGED replicaVars
      BY <1>2, <2>12 DEF replicaVars, ReplicaInductive, OnRecord, Redropped, OwnersInService,
                         FailedRecover, Recovering, Cohort, Ranks, Store
    <2> QED
      BY <2>1, <2>2, <2>3, <2>4, <2>5, <2>6, <2>7, <2>8, <2>9, <2>10, <2>11, <2>12
         DEF ReplicaNext, JobAction
  <1> QED
    BY <1>1, <1>2 DEF ReplicaInductive, WritesToDarkDisks

\* What is on record of the jobs with a baseline strategy, in flight and failed.
THEOREM ReplicaInvariance == ReplicaSpec => []ReplicaInductive
  <1>1. ReplicaInit => ReplicaInductive
    BY ReplicaStarts
  <1>2. ReplicaInductive /\ [ReplicaNext]_replicaVars => ReplicaInductive'
    BY ReplicaKept
  <1> QED
    BY <1>1, <1>2, PTL DEF ReplicaSpec

\* What is recorded of a node in service exists, and what exists is recorded, whatever lands
\* between a rack event and the next boundary and whichever node fails (_rack_failure,
\* _single_node_failure, checkpointing/baselines.py).
THEOREM ReplicasExact == ReplicaSpec => []CopiesExact
  <1>1. ReplicaInductive => CopiesExact
    BY DEF ReplicaInductive, CopiesExact, RecordsAreReal, SurvivorsFound, OnRecord
  <1> QED
    BY <1>1, ReplicaInvariance, PTL

=============================================================================

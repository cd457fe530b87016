------------------------ MODULE CohortRuntimeProofs ------------------------
(***************************************************************************)
(* Proofs about CohortRuntime, for any number and width of cohorts, any    *)
(* racks, policies, iterations and combinations of failure sources; and    *)
(* about Capacity, which times its transfers: no wake-up is lost, a        *)
(* transfer that was hit never reports success, and one that is over holds *)
(* nothing, for any transfers that share any resources, any finish times   *)
(* and any failures. At the end TraceReplay, for any trace and times.      *)
(***************************************************************************)
EXTENDS CohortRuntime, Capacity, TraceReplay, DataLemmas

-----------------------------------------------------------------------------
(***************************************************************************)
(* The copy that a cohort can restore.                                     *)
(***************************************************************************)

\* The parts of the assumption on the constants that the proofs rest on.
LEMMA Constants ==
  Iterations \in Nat \ {0} /\ Cohorts # {} /\ \A s \in Settings : s.cadence \in Cadences
  BY CohortAssumption DEF CohortAssumption

\* What a cohort can restore at i is its newest copy that is not newer than i.
LEMMA PeekIsNewest ==
  ASSUME copies \in [Cohorts -> [Tiers -> -1 .. Iterations]],
         NEW c \in Cohorts, NEW i \in -1 .. Iterations
  PROVE  /\ Peek(c, i) \in -1 .. i
         /\ Peek(c, i) = -1 \/ \E t \in Tiers : copies[c][t] = Peek(c, i)
         /\ \A t \in Tiers : copies[c][t] <= i => copies[c][t] <= Peek(c, i)
         /\ Positive(Peek(c, i)) \in 0 .. Iterations
  <1> DEFINE T == {-1} \cup {copies[c][t] : t \in {u \in Tiers : copies[c][u] <= i}}
  <1>1. Iterations \in Nat
    BY Constants
  <1>2. T \subseteq Int /\ T # {} /\ \A y \in T : y <= i /\ y >= -1
    BY <1>1
  <1>3. i \in Int
    BY <1>1
  <1> HIDE DEF T
  <1>4. Max(T) \in T /\ \A y \in T : Max(T) >= y
    BY <1>2, <1>3, MaxOfBounded
  <1>5. Peek(c, i) = Max(T)
    BY DEF Peek, T
  <1>6. Max(T) \in -1 .. i
    <2>1. Max(T) \in Int /\ Max(T) <= i /\ Max(T) >= -1
      BY <1>2, <1>4, Zenon
    <2> QED
      BY <1>3, <2>1
  <1>7. \A t \in Tiers : copies[c][t] <= i => copies[c][t] <= Max(T)
    BY <1>1, <1>4 DEF T
  <1>8. Max(T) = -1 \/ \E t \in Tiers : copies[c][t] = Max(T)
    BY <1>4 DEF T
  <1> QED
    BY <1>1, <1>3, <1>5, <1>6, <1>7, <1>8 DEF Positive

-----------------------------------------------------------------------------
(***************************************************************************)
(* The search for the iteration to restart from.                           *)
(***************************************************************************)

\* One round of the search.
Round(S, target) == Min({Positive(Peek(c, target)) : c \in S})

\* A round never moves the target forward, and passes no iteration that all
\* the cohorts can restore.
LEMMA RoundDescends ==
  ASSUME copies \in [Cohorts -> [Tiers -> -1 .. Iterations]],
         NEW S \in SUBSET Cohorts, S # {}, NEW target \in 0 .. Iterations
  PROVE  /\ Round(S, target) \in 0 .. target
         /\ \E c \in S : Round(S, target) = Positive(Peek(c, target))
         /\ \A c \in S : Round(S, target) <= Positive(Peek(c, target))
  <1> DEFINE T == {Positive(Peek(c, target)) : c \in S}
  <1>1. Iterations \in Nat /\ target \in -1 .. Iterations
    BY Constants
  <1>2. \A c \in S : Positive(Peek(c, target)) \in 0 .. target
    <2> TAKE c \in S
    <2>1. c \in Cohorts /\ Peek(c, target) \in -1 .. target
      BY <1>1, PeekIsNewest
    <2> QED
      BY <2>1 DEF Positive
  <1>3. T \subseteq Nat /\ T # {}
    BY <1>2
  <1>4. Min(T) \in T /\ \A y \in T : Min(T) <= y
    BY <1>3, MinOfNat
  <1> QED
    BY <1>2, <1>4 DEF Round

\* A recursion along a function that never increases defines a function.
LEMMA DescentDefined ==
  ASSUME NEW n \in Nat, NEW upto \in [0 .. n -> 0 .. n],
         \A t \in 0 .. n : upto[t] <= t
  PROVE  \E g : g = [t \in 0 .. n |-> IF upto[t] = t THEN t ELSE g[upto[t]]]
  <1> DEFINE Defined(m) == \E g : g = [t \in 0 .. m |-> IF upto[t] = t THEN t ELSE g[upto[t]]]
             Missing == {m \in 0 .. n : ~Defined(m)}
  <1>0. Missing \subseteq Nat
    OBVIOUS
  <1>1. SUFFICES ASSUME Missing # {} PROVE FALSE
    <2>1. n \in 0 .. n
      OBVIOUS
    <2> QED
      BY <2>1, Zenon
  <1>2. Min(Missing) \in Missing /\ \A y \in Missing : Min(Missing) <= y
    <2> HIDE DEF Missing
    <2> QED
      BY <1>0, <1>1, MinOfNat
  <1>3. PICK m \in 0 .. n : m = Min(Missing) /\ ~Defined(m)
    BY <1>2
  <1>4. CASE m = 0
    <2> DEFINE g == [t \in 0 .. m |-> 0]
    <2>1. upto[0] = 0
      OBVIOUS
    <2>2. g = [t \in 0 .. m |-> IF upto[t] = t THEN t ELSE g[upto[t]]]
      BY <1>4, <2>1
    <2> QED
      BY <1>3, <2>2, Zenon
  <1>5. CASE m # 0
    <2>1. m - 1 \in 0 .. n /\ m - 1 < m
      BY <1>5
    <2>2. Defined(m - 1)
      <3>1. m - 1 \notin Missing
        <4>1. ~(m <= m - 1)
          OBVIOUS
        <4> QED
          BY <1>2, <1>3, <4>1, Zenon
      <3> QED
        BY <2>1, <3>1, Zenon
    <2>3. PICK g : g = [t \in 0 .. (m - 1) |-> IF upto[t] = t THEN t ELSE g[upto[t]]]
      BY <2>2
    <2> DEFINE h == [t \in 0 .. m |-> IF upto[t] = t THEN t ELSE g[upto[t]]]
    <2>4. ASSUME NEW t \in 0 .. m, upto[t] # t PROVE g[upto[t]] = h[upto[t]]
      <3>1. upto[t] \in 0 .. (m - 1)
        BY <2>4, <2>1
      <3>2. g[upto[t]] = IF upto[upto[t]] = upto[t] THEN upto[t] ELSE g[upto[upto[t]]]
        BY <2>3, <3>1, Zenon
      <3>3. upto[t] \in 0 .. m
        BY <3>1
      <3> QED
        BY <3>2, <3>3, Zenon
    <2>5. h = [t \in 0 .. m |-> IF upto[t] = t THEN t ELSE h[upto[t]]]
      BY <2>4
    <2> QED
      BY <1>3, <2>5, Zenon
  <1> QED
    BY <1>4, <1>5

\* The search of Plan, unfolded once.
LEMMA PlanUnfolds ==
  ASSUME copies \in [Cohorts -> [Tiers -> -1 .. Iterations]], it \in 0 .. Iterations,
         NEW S \in SUBSET Cohorts, S # {}
  PROVE  \E g : /\ Plan(S) = g[it]
                /\ \A t \in 0 .. Iterations :
                     g[t] = IF Round(S, t) = t THEN t ELSE g[Round(S, t)]
  <1> DEFINE upto == [t \in 0 .. Iterations |-> Round(S, t)]
             Body(f) == [t \in 0 .. Iterations |-> IF Round(S, t) = t THEN t ELSE f[Round(S, t)]]
             from == CHOOSE f : f = Body(f)
  <1>1. Plan(S) = from[it]
    BY DEF Plan, Round
  <1>2. \E g : g = Body(g)
    <2>1. \A t \in 0 .. Iterations : Round(S, t) \in 0 .. t /\ Round(S, t) \in 0 .. Iterations
      <3> TAKE t \in 0 .. Iterations
      <3>1. Round(S, t) \in 0 .. t
        BY RoundDescends
      <3> QED
        BY <3>1, Constants
    <2>2. upto \in [0 .. Iterations -> 0 .. Iterations] /\ \A t \in 0 .. Iterations : upto[t] <= t
      BY <2>1, Constants
    <2> HIDE DEF upto
    <2>3. PICK g : g = [t \in 0 .. Iterations |-> IF upto[t] = t THEN t ELSE g[upto[t]]]
      BY <2>2, DescentDefined, Constants
    <2>4. g = Body(g)
      BY <2>3 DEF upto
    <2> QED
      BY <2>4, Zenon
  <1>3. from = Body(from)
    BY <1>2, Zenon
  <1> HIDE DEF from
  <1>4. \A t \in 0 .. Iterations : from[t] = IF Round(S, t) = t THEN t ELSE from[Round(S, t)]
    BY <1>3, Zenon
  <1> QED
    BY <1>1, <1>4

\* The cohorts of S have iteration i in common.
Common(S, i) == \A c \in S : \E t \in Tiers : copies[c][t] = i

\* A round that stands has found a common iteration, or the initial state; one
\* that moves passes over none.
LEMMA RoundFinds ==
  ASSUME copies \in [Cohorts -> [Tiers -> -1 .. Iterations]],
         NEW S \in SUBSET Cohorts, S # {}, NEW target \in 0 .. Iterations
  PROVE  /\ Round(S, target) = target => target = 0 \/ Common(S, target)
         /\ \A i \in 1 .. target : Common(S, i) => i <= Round(S, target)
  <1>1. Iterations \in Nat /\ target \in -1 .. Iterations
    BY Constants
  <1>2. \A c \in S : /\ Peek(c, target) \in -1 .. target
                     /\ Peek(c, target) = -1 \/ \E t \in Tiers : copies[c][t] = Peek(c, target)
                     /\ \A t \in Tiers : copies[c][t] <= target => copies[c][t] <= Peek(c, target)
    BY <1>1, PeekIsNewest, Zenon
  <1>3. /\ Round(S, target) \in 0 .. target
        /\ \E c \in S : Round(S, target) = Positive(Peek(c, target))
        /\ \A c \in S : Round(S, target) <= Positive(Peek(c, target))
    BY RoundDescends
  <1>4. ASSUME Round(S, target) = target, target # 0 PROVE Common(S, target)
    <2>1. SUFFICES ASSUME NEW c \in S PROVE \E t \in Tiers : copies[c][t] = target
      BY DEF Common
    <2>2. Peek(c, target) = target /\ Peek(c, target) # -1
      BY <1>1, <1>2, <1>3, <1>4 DEF Positive
    <2> QED
      BY <1>2, <2>2, Zenon
  <1>5. ASSUME NEW i \in 1 .. target, Common(S, i) PROVE i <= Round(S, target)
    <2>1. PICK c \in S : Round(S, target) = Positive(Peek(c, target))
      BY <1>3
    <2>2. PICK t \in Tiers : copies[c][t] = i
      BY <1>5 DEF Common
    <2>3. i <= target
      BY <1>5
    <2>4. i <= Peek(c, target)
      BY <1>2, <2>2, <2>3
    <2> QED
      BY <1>2, <2>1, <2>4 DEF Positive
  <1> QED
    BY <1>4, <1>5

\* The search ends at the newest iteration that the cohorts have in common.
LEMMA PlanIsNewest ==
  ASSUME copies \in [Cohorts -> [Tiers -> -1 .. Iterations]], it \in 0 .. Iterations,
         NEW S \in SUBSET Cohorts, S # {}
  PROVE  /\ Plan(S) \in 0 .. it
         /\ Plan(S) = Max({0} \cup {i \in 1 .. it : Common(S, i)})
  <1>1. PICK g : /\ Plan(S) = g[it]
                 /\ \A t \in 0 .. Iterations :
                      g[t] = IF Round(S, t) = t THEN t ELSE g[Round(S, t)]
    BY PlanUnfolds
  <1> DEFINE Newest(t) == /\ g[t] \in 0 .. t
                          /\ g[t] = 0 \/ Common(S, g[t])
                          /\ \A i \in 1 .. t : Common(S, i) => i <= g[t]
             Wrong == {t \in 0 .. Iterations : ~Newest(t)}
  <1>2. ASSUME NEW m \in 0 .. Iterations, \A t \in 0 .. Iterations : t < m => Newest(t)
        PROVE  Newest(m)
    <2>1. /\ Round(S, m) \in 0 .. m
          /\ Round(S, m) = m => m = 0 \/ Common(S, m)
          /\ \A i \in 1 .. m : Common(S, i) => i <= Round(S, m)
      BY RoundDescends, RoundFinds
    <2>2. CASE Round(S, m) = m
      <3>1. g[m] = m
        BY <1>1, <2>2
      <3>2. \A i \in 1 .. m : i <= m
        OBVIOUS
      <3>3. m \in 0 .. m
        OBVIOUS
      <3> QED
        BY <2>1, <2>2, <3>1, <3>2, <3>3
    <2>3. CASE Round(S, m) # m
      <3>1. Round(S, m) \in 0 .. Iterations /\ Round(S, m) < m
        BY <2>1, <2>3, Constants
      <3>2. g[m] = g[Round(S, m)]
        BY <1>1, <2>3, Zenon
      <3>3. Newest(Round(S, m))
        BY <1>2, <3>1, Zenon
      <3>4. g[m] \in 0 .. m
        BY <2>1, <3>1, <3>2, <3>3
      <3>5. g[m] = 0 \/ Common(S, g[m])
        BY <3>2, <3>3, Zenon
      <3>6. \A i \in 1 .. m : Common(S, i) => i <= g[m]
        <4> TAKE i \in 1 .. m
        <4>1. ASSUME Common(S, i) PROVE i \in 1 .. Round(S, m)
          <5>1. i <= Round(S, m)
            BY <2>1, <4>1, Zenon
          <5> QED
            BY <2>1, <5>1
        <4> QED
          BY <3>2, <3>3, <4>1, Zenon
      <3> QED
        BY <3>4, <3>5, <3>6, Zenon
    <2> QED
      BY <2>2, <2>3, Zenon
  <1>3. Wrong = {}
    <2>1. SUFFICES ASSUME Wrong # {} PROVE FALSE
      BY Zenon
    <2>2. Wrong \subseteq 0 .. Iterations
      BY Zenon
    <2>3. Min(Wrong) \in Wrong /\ \A y \in Wrong : Min(Wrong) <= y
      <3> HIDE DEF Wrong
      <3>1. Wrong \subseteq Nat
        BY <2>2, Constants
      <3> QED
        BY <2>1, <3>1, MinOfNat
    <2>4. PICK m \in 0 .. Iterations : m = Min(Wrong) /\ ~Newest(m)
      BY <2>3
    <2>5. ASSUME NEW t \in 0 .. Iterations, t < m PROVE Newest(t)
      <3>1. ~(m <= t)
        BY <2>5, Constants
      <3> QED
        BY <2>3, <2>4, <3>1, Zenon
    <2> QED
      BY <1>2, <2>4, <2>5, Zenon
  <1>4. Newest(it)
    BY <1>3, Zenon
  <1> HIDE DEF Newest
  <1> DEFINE T == {0} \cup {i \in 1 .. it : Common(S, i)}
  <1>5. /\ g[it] \in 0 .. it
        /\ g[it] = 0 \/ Common(S, g[it])
        /\ \A i \in 1 .. it : Common(S, i) => i <= g[it]
    BY <1>4 DEF Newest
  <1>6. T \subseteq Int /\ T # {} /\ (\A y \in T : y <= it) /\ it \in Int
    BY Constants
  <1>7. g[it] \in T /\ \A y \in T : y <= g[it]
    BY <1>5
  <1> HIDE DEF T
  <1>8. Max(T) \in T /\ \A y \in T : Max(T) >= y
    BY <1>6, MaxOfBounded
  <1>9. Max(T) = g[it]
    <2>1. Max(T) <= g[it] /\ Max(T) >= g[it]
      BY <1>7, <1>8, Zenon
    <2>2. Max(T) \in Int /\ g[it] \in Int
      BY <1>6, <1>7, <1>8, Zenon
    <2> QED
      BY <2>1, <2>2
  <1> QED
    BY <1>1, <1>5, <1>9 DEF T

-----------------------------------------------------------------------------
(***************************************************************************)
(* What the operators on copies preserve.                                  *)
(***************************************************************************)

CopyTable == [Cohorts -> [Tiers -> -1 .. Iterations]]

\* Copies may have gone from the table, none has come.
Thinner(ds, cs) ==
  /\ ds \in CopyTable
  /\ \A c \in Cohorts, t \in Tiers : ds[c][t] \in {-1, cs[c][t]}

\* No copy is newer than i.
UpTo(cs, i) == \A c \in Cohorts, t \in Tiers : cs[c][t] <= i

\* What is thinner is not newer.
LEMMA ThinnerUpTo ==
  ASSUME NEW cs, NEW ds, NEW i \in 0 .. Iterations, Thinner(ds, cs), UpTo(cs, i)
  PROVE  UpTo(ds, i)
  <1>1. -1 <= i
    BY Constants
  <1> QED
    BY <1>1 DEF Thinner, UpTo

\* Cutting the timeline only takes copies away, all of those beyond the cut;
\* a table without any is left as it is.
LEMMA DiscardCuts ==
  ASSUME NEW cs \in CopyTable, NEW i \in 0 .. Iterations
  PROVE  /\ Thinner(Discard(cs, i), cs)
         /\ UpTo(Discard(cs, i), i)
         /\ UpTo(cs, i) => Discard(cs, i) = cs
  <1>1. Iterations \in Nat
    BY Constants
  <1>2. \A c \in Cohorts, t \in Tiers :
          cs[c][t] \in -1 .. Iterations /\ Discard(cs, i)[c][t] = IF cs[c][t] > i THEN -1 ELSE cs[c][t]
    BY DEF CopyTable, Discard
  <1>3. Discard(cs, i) \in CopyTable
    BY <1>1 DEF CopyTable, Discard
  <1>4. UpTo(Discard(cs, i), i)
    BY <1>1, <1>2 DEF UpTo
  <1>5. ASSUME UpTo(cs, i) PROVE Discard(cs, i) = cs
    <2>1. \A c \in Cohorts, t \in Tiers : ~(cs[c][t] > i)
      BY <1>1, <1>2, <1>5 DEF UpTo
    <2> QED
      BY <2>1 DEF CopyTable, Discard
  <1> QED
    BY <1>2, <1>3, <1>4, <1>5 DEF Thinner

\* So does what a failure destroys in one cohort.
LEMMA WipedThins ==
  ASSUME NEW cs \in CopyTable, NEW c \in Cohorts, NEW T, NEW all,
         NEW ds \in Wiped(cs, c, T, all)
  PROVE  Thinner(ds, cs)
  <1>1. PICK gone : ds = [cs EXCEPT ![c] = [t \in Tiers |-> IF t \in gone THEN -1 ELSE @[t]]]
    BY DEF Wiped
  <1>2. Iterations \in Nat
    BY Constants
  <1> QED
    BY <1>1, <1>2 DEF Thinner, CopyTable

\* So does the loss of everything that is local.
LEMMA AwayThins ==
  ASSUME NEW cs \in CopyTable
  PROVE  Thinner([c \in Cohorts |-> [None EXCEPT !["away"] = cs[c]["away"]]], cs)
  BY Constants DEF Thinner, CopyTable, None, Tiers

\* A copy that lands is one of the present timeline.
LEMMA PutFits ==
  ASSUME NEW cs \in CopyTable, UpTo(cs, it), it \in 0 .. Iterations,
         NEW c \in Cohorts, NEW t \in Tiers, NEW i \in 0 .. Iterations
  PROVE  Put(cs, c, t, i) \in CopyTable /\ UpTo(Put(cs, c, t, i), it)
  <1>1. CASE i > it \/ cs[c][t] > i
    BY <1>1 DEF Put
  <1>2. CASE ~(i > it \/ cs[c][t] > i)
    <2>1. Put(cs, c, t, i) = [cs EXCEPT ![c][t] = i] /\ i <= it
      BY <1>2, Constants DEF Put
    <2>2. i \in -1 .. Iterations
      BY Constants
    <2> QED
      BY <2>1, <2>2 DEF CopyTable, UpTo
  <1> QED
    BY <1>1, <1>2

\* A rollback leaves copies and a backstop of the timeline it begins.
LEMMA RollBackFits ==
  ASSUME lastStore \in 0 .. Iterations, NEW cs \in CopyTable,
         NEW i \in 0 .. Iterations, RollBack(i, cs)
  PROVE  /\ it' = i /\ copies' \in CopyTable /\ UpTo(copies', i)
         /\ lastStore' \in 0 .. Iterations /\ lastStore' <= i
  <1>1. {lastStore, i} \subseteq Nat
    BY Constants
  <1>2. Min({lastStore, i}) \in {lastStore, i} /\ Min({lastStore, i}) <= i
    BY <1>1, MinOfNat
  <1>3. Discard(cs, i) \in CopyTable /\ UpTo(Discard(cs, i), i)
    BY DiscardCuts DEF Thinner
  <1> QED
    BY <1>2, <1>3 DEF RollBack

\* The flights that a wave starts belong to its iteration.
LEMMA WaveFits ==
  ASSUME NEW i \in 0 .. Iterations
  PROVE  Wave(i) \subseteq Cohorts \X (0 .. Iterations) \X Kinds /\ \A f \in Wave(i) : f[2] = i
  BY DEF Wave, Kinds

-----------------------------------------------------------------------------
(***************************************************************************)
(* Each conjunct of the inductive invariant is preserved by every step.    *)
(***************************************************************************)

\* The plan of a recovery is an iteration of the present timeline.
LEMMA PlanFits ==
  ASSUME TypeOK, NEW S \in SUBSET Cohorts, S # {}
  PROVE  Plan(S) \in 0 .. Iterations /\ Plan(S) <= it
  <1>1. it \in 0 .. Iterations /\ copies \in [Cohorts -> [Tiers -> -1 .. Iterations]]
    BY DEF TypeOK
  <1>2. Plan(S) \in 0 .. it
    BY <1>1, PlanIsNewest
  <1> QED
    BY <1>1, <1>2, Constants

\* What a failure of one cohort does to the copies.
LEMMA FailOneThins ==
  ASSUME copies \in CopyTable, NEW c \in Cohorts, NEW type, NEW next, FailOne(c, type, next)
  PROVE  Thinner(copies', copies)
  BY WipedThins DEF FailOne

\* No step makes a copy or a backstop newer than the job.
LEMMA CopiesStep ==
  ASSUME Inductive, [Next]_vars
  PROVE  /\ it' \in 0 .. Iterations /\ copies' \in CopyTable /\ UpTo(copies', it')
         /\ lastStore' \in 0 .. Iterations /\ lastStore' <= it'
  <1>1. /\ it \in 0 .. Iterations /\ copies \in CopyTable /\ UpTo(copies, it)
        /\ lastStore \in 0 .. Iterations /\ lastStore <= it /\ Iterations \in Nat
    BY Constants DEF Inductive, TypeOK, PresentOnly, CopyTable, UpTo
  <1>2. ASSUME Thinner(copies', copies), it' = it, lastStore' = lastStore
        PROVE  /\ it' \in 0 .. Iterations /\ copies' \in CopyTable /\ UpTo(copies', it')
               /\ lastStore' \in 0 .. Iterations /\ lastStore' <= it'
    BY <1>1, <1>2, ThinnerUpTo DEF Thinner
  <1>3. ASSUME NEW i \in 0 .. Iterations, NEW cs \in CopyTable, RollBack(i, cs)
        PROVE  /\ it' \in 0 .. Iterations /\ copies' \in CopyTable /\ UpTo(copies', it')
               /\ lastStore' \in 0 .. Iterations /\ lastStore' <= it'
    BY <1>1, <1>3, RollBackFits
  <1>4. Discard(copies, it) \in CopyTable
    BY <1>1, DiscardCuts DEF Thinner
  <1>5. CASE UNCHANGED <<it, lastStore, copies>>
    BY <1>1, <1>5 DEF UpTo
  <1>6. CASE Boundary
    <2>1. it' = it + 1 /\ it < Iterations
      BY <1>6 DEF Boundary, Inductive, Placed
    <2>2. it' \in 0 .. Iterations
      BY <1>1, <2>1
    <2>3. copies' = copies \/ Thinner(copies', copies)
      BY <1>1, <1>6, FailOneThins DEF Boundary
    <2>4. copies' \in CopyTable /\ UpTo(copies', it)
      BY <1>1, <2>3, ThinnerUpTo DEF Thinner
    <2>5. UpTo(copies', it')
      BY <1>1, <2>1, <2>4 DEF UpTo, CopyTable
    <2>6. lastStore' = lastStore \/ lastStore' = it + 1
      BY <1>6 DEF Boundary
    <2> QED
      BY <1>1, <2>1, <2>2, <2>4, <2>5, <2>6
  <1>7. CASE Poisson
    <2>1. copies' = copies \/ Thinner(copies', copies)
      BY <1>1, <1>7, FailOneThins DEF Poisson
    <2>2. it' = it /\ lastStore' = lastStore
      BY <1>7 DEF Poisson, books
    <2> QED
      BY <1>1, <1>2, <2>1, <2>2
  <1>8. ASSUME NEW f \in flights, Land(f)
        PROVE  copies' \in CopyTable /\ UpTo(copies', it) /\ it' = it /\ lastStore' = lastStore
    <2>1. f[1] \in Cohorts /\ f[2] \in 0 .. Iterations
      BY DEF Inductive, TypeOK
    <2>2. \E t \in Tiers : copies' = Put(copies, f[1], t, f[2])
      BY <1>8 DEF Land, Tiers
    <2>3. it' = it /\ lastStore' = lastStore
      BY <1>8 DEF Land
    <2> QED
      BY <1>1, <2>1, <2>2, <2>3, PutFits
  <1>9. ASSUME NEW c \in Cohorts, Fetch(c)
        PROVE  copies' \in CopyTable /\ UpTo(copies', it) /\ it' = it /\ lastStore' = lastStore
    <2>1. goal \in 0 .. Iterations /\ Positive(Peek(c, it)) \in 0 .. Iterations
      <3>1. it \in -1 .. Iterations
        BY <1>1
      <3> QED
        BY <1>1, <3>1, PeekIsNewest DEF CopyTable, Inductive, TypeOK
    <2>2. copies' = copies \/ \E i \in 0 .. Iterations : copies' = Put(copies, c, "dram", i)
      BY <1>9, <2>1 DEF Fetch
    <2>3. it' = it /\ lastStore' = lastStore /\ "dram" \in Tiers
      BY <1>9 DEF Fetch, Tiers
    <2> QED
      BY <1>1, <2>2, <2>3, PutFits
  <1>10. CASE RestartOne
    BY <1>1, <1>2, <1>10, DiscardCuts DEF RestartOne
  <1>11. CASE RecoverOne
    <2>1. PICK i \in {goal, 0} : RollBack(i, copies)
      BY <1>11 DEF RecoverOne
    <2>2. i \in 0 .. Iterations
      BY <1>1, <2>1 DEF Inductive, TypeOK
    <2> QED
      BY <1>1, <1>3, <2>1, <2>2
  <1>12. CASE RecoverFromReplica
    <2>1. PICK i \in {Positive(it - 1), 0} : RollBack(i, copies)
      BY <1>12 DEF RecoverFromReplica
    <2>2. i \in 0 .. Iterations
      BY <1>1, <2>1 DEF Positive
    <2> QED
      BY <1>1, <1>3, <2>1, <2>2
  <1>13. CASE Evict
    <2>1. copies' = copies \/ Thinner(copies', copies)
      BY <1>1, <1>13, AwayThins DEF Evict
    <2>2. it' = it /\ lastStore' = lastStore
      BY <1>13 DEF Evict
    <2> QED
      BY <1>1, <1>2, <2>1, <2>2
  <1>14. ASSUME NEW S \in SUBSET Cohorts, S # {}, RollBack(Plan(S), Discard(copies, it))
         PROVE  /\ it' \in 0 .. Iterations /\ copies' \in CopyTable /\ UpTo(copies', it')
                /\ lastStore' \in 0 .. Iterations /\ lastStore' <= it'
    <2>1. Plan(S) \in 0 .. Iterations
      BY <1>14, PlanFits DEF Inductive
    <2> QED
      BY <1>3, <1>4, <1>14, <2>1
  <1>15. CASE PlanEviction \/ PlanRack
    <2>1. batch \in SUBSET Cohorts /\ batch # {}
      BY <1>15, Constants
        DEF PlanEviction, PlanRack, Replan, Inductive, TypeOK, DownIsRecovered
    <2> QED
      BY <1>14, <1>15, <2>1 DEF PlanEviction, PlanRack, Replan
  <1>16. CASE TraceRestart
    BY <1>14, <1>16, Constants DEF TraceRestart
  <1>17. CASE RackFailure
    <2>1. copies' = copies \/ \E gone : copies' = [c \in Cohorts |-> [t \in Tiers |->
                                       IF <<c, t>> \in gone THEN -1 ELSE copies[c][t]]]
      BY <1>17, Zenon DEF RackFailure
    <2>2. it' = it /\ lastStore' = lastStore
      BY <1>17 DEF RackFailure
    <2>3. copies' = copies \/ Thinner(copies', copies)
      <3>1. copies \in CopyTable
        BY <1>1
      <3>2. ASSUME NEW gone, copies' = [c \in Cohorts |-> [t \in Tiers |->
                                          IF <<c, t>> \in gone THEN -1 ELSE copies[c][t]]]
            PROVE  Thinner(copies', copies)
        BY <3>1, <3>2, Constants DEF Thinner, CopyTable
      <3> QED
        BY <2>1, <3>2, Zenon
    <2> QED
      BY <1>1, <1>2, <2>2, <2>3
  <1>18. CASE TraceEvent
    <2>1. copies' = copies \/ Thinner(copies', copies)
      BY <1>1, <1>18, AwayThins DEF TraceEvent
    <2>2. it' = it /\ lastStore' = lastStore
      BY <1>18 DEF TraceEvent
    <2> QED
      BY <1>1, <1>2, <2>1, <2>2
  <1>19. ASSUME NEW rack, RackEvent(rack)
         PROVE  Thinner(copies', copies) /\ it' = it /\ lastStore' = lastStore
    <2>1. it' = it /\ lastStore' = lastStore
      BY <1>19 DEF RackEvent
    <2>2. Thinner(copies, copies)
      BY <1>1 DEF Thinner
    <2>3. CASE state # "pending"
      <3> DEFINE struck == {c \in Cohorts : Overlap(c, rack) > 0}
                 full == {c \in struck : Overlap(c, rack) = Represents[c]}
      <3>1. PICK gone \in Losses(struck, full) :
              copies' = [c \in Cohorts |-> [t \in Tiers |->
                           IF c \in struck /\ t \in gone[c] THEN -1 ELSE copies[c][t]]]
        BY <1>19, <2>3, Zenon DEF RackEvent
      <3> HIDE DEF struck, full
      <3> QED
        BY <1>1, <2>1, <3>1 DEF Thinner, CopyTable
    <2>4. CASE state = "pending"
      BY <1>19, <2>1, <2>2, <2>4 DEF RackEvent
    <2> QED
      BY <2>3, <2>4
  <1> QED
    <2>1. CASE Next
      <3>1. CASE Run
        BY <1>5, <1>6, <1>7, <1>9, <1>1, <1>10, <1>11, <1>12, <1>13, <1>15, <1>16, <1>17, <3>1
          DEF Run, Arrive, Start, End, Recovered, books
      <3>2. CASE Resolve \/ RequestPreemption \/ \E c \in Cohorts : Offer(c) \/ Host(c)
        BY <1>5, <3>2 DEF Resolve, RequestPreemption, Offer, Host
      <3> QED
        BY <1>1, <1>2, <1>8, <1>18, <1>19, <2>1, <3>1, <3>2 DEF Next
    <2>2. CASE UNCHANGED vars
      BY <1>5, <2>2 DEF vars
    <2> QED
      BY <2>1, <2>2

\* No step leaves a flight of an abandoned timeline, or any while the job stops.
LEMMA FlightsStep ==
  ASSUME Inductive, [Next]_vars
  PROVE  /\ flights' \subseteq Cohorts \X (0 .. Iterations) \X Kinds
         /\ \A f \in flights' : f[2] <= it'
         /\ (chain' >= 0 \/ pc' \in Recovering \cup {"restart_one", "evicted", "rack", "trace"})
              => flights' = {}
  <1> DEFINE Fits(fs, i) == /\ fs \subseteq Cohorts \X (0 .. Iterations) \X Kinds
                            /\ \A f \in fs : f[2] <= i
             Stopping == Recovering \cup {"restart_one", "evicted", "rack", "trace"}
             Stopped == (chain' >= 0 \/ pc' \in Stopping) => flights' = {}
  <1>1. /\ it \in 0 .. Iterations /\ Iterations \in Nat /\ chain \in -1 .. Iterations
        /\ Fits(flights, it)
        /\ (chain >= 0 \/ pc \in Stopping) => flights = {}
    BY Constants DEF Inductive, TypeOK, PresentOnly
  <1>2. Fits({}, it')
    OBVIOUS
  <1> SUFFICES Fits(flights', it') /\ Stopped
    OBVIOUS
  <1> HIDE DEF Fits
  <1>3. CASE UNCHANGED <<it, flights, chain, pc>>
    BY <1>1, <1>3
  <1>4. ASSUME NEW c \in Cohorts, NEW type, NEW next, FailOne(c, type, next)
        PROVE  flights' = {}
    BY <1>4 DEF FailOne, Invalidate
  <1>5. CASE Boundary
    <2>1. it' = it + 1 /\ chain' = chain /\ it < Iterations
      BY <1>5 DEF Boundary, Inductive, Placed
    <2>2. flights' = {} \/ (pc' = "trace" /\ chain >= 0 /\ flights' = flights)
            \/ (pc' = "checks" /\ chain < 0 /\ flights' = flights \cup Wave(it + 1))
      BY <1>4, <1>5 DEF Boundary
    <2>3. CASE pc' = "checks" /\ chain < 0 /\ flights' = flights \cup Wave(it + 1)
      <3>1. it + 1 \in 0 .. Iterations
        BY <1>1, <2>1
      <3>2. /\ Wave(it + 1) \subseteq Cohorts \X (0 .. Iterations) \X Kinds
            /\ \A f \in Wave(it + 1) : f[2] = it + 1
        BY <3>1, WaveFits
      <3>3. \A f \in flights : f[2] <= it + 1
        <4> TAKE f \in flights
        <4>1. f[2] <= it /\ f[2] \in 0 .. Iterations
          BY <1>1 DEF Fits
        <4> QED
          BY <1>1, <4>1
      <3>4. \A f \in Wave(it + 1) : f[2] <= it + 1
        BY <1>1, <3>2
      <3>5. Fits(flights', it')
        BY <1>1, <2>1, <2>3, <3>2, <3>3, <3>4 DEF Fits
      <3>6. ~(chain' >= 0) /\ pc' \notin Stopping
        BY <1>1, <2>1, <2>3 DEF Recovering
      <3> QED
        BY <3>5, <3>6
    <2> QED
      BY <1>1, <1>2, <2>1, <2>2, <2>3
  <1>6. CASE Poisson
    <2>1. flights' = {} \/ (pc' = Looping(it) /\ flights' = flights)
      BY <1>4, <1>6 DEF Poisson
    <2>2. chain' = chain /\ it' = it
      BY <1>6 DEF Poisson
    <2> QED
      BY <1>1, <1>2, <2>1, <2>2 DEF Looping, Recovering
  <1>7. ASSUME NEW f \in flights, Land(f) PROVE Fits(flights', it') /\ Stopped
    <2>1. it' = it /\ chain' = chain /\ pc' = pc
      BY <1>7 DEF Land
    <2>2. flights' \subseteq (flights \ {f}) \cup {<<f[1], f[2], "flush">>}
      BY <1>7 DEF Land
    <2>3. f[1] \in Cohorts /\ f[2] \in 0 .. Iterations /\ f[2] <= it
      BY <1>1 DEF Fits
    <2>4. ~(chain' >= 0 \/ pc' \in Stopping)
      BY <1>1, <1>7, <2>1
    <2> QED
      BY <1>1, <2>1, <2>2, <2>3, <2>4 DEF Fits, Kinds
  <1>8. ASSUME flights = {}, flights' = {} PROVE Fits(flights', it') /\ Stopped
    BY <1>2, <1>8
  <1>9. ASSUME NEW c \in Cohorts, Fetch(c) PROVE Fits(flights', it') /\ Stopped
    BY <1>3, <1>9 DEF Fetch
  <1>10. CASE RestartOne
    BY <1>1, <1>8, <1>10 DEF RestartOne
  <1>11. CASE RecoverOne
    BY <1>1, <1>8, <1>11 DEF RecoverOne, Recovering
  <1>12. CASE RecoverFromReplica
    BY <1>1, <1>8, <1>12 DEF RecoverFromReplica
  <1>13. CASE Evict
    BY <1>1, <1>2, <1>13 DEF Evict, Invalidate, Recovering
  <1>14. CASE PlanEviction \/ PlanRack
    BY <1>1, <1>8, <1>14 DEF PlanEviction, PlanRack, Replan
  <1>15. CASE Recovered
    BY <1>1, <1>8, <1>15 DEF Recovered, Recovering
  <1>16. CASE RackFailure
    BY <1>1, <1>2, <1>16 DEF RackFailure, Invalidate, Recovering
  <1>17. CASE TraceRestart
    BY <1>1, <1>8, <1>17 DEF TraceRestart
  <1>18. CASE TraceEvent
    BY <1>1, <1>2, <1>18 DEF TraceEvent, Invalidate, Killed
  <1>19. ASSUME NEW rack, RackEvent(rack) PROVE Fits(flights', it') /\ Stopped
    <2>1. flights' \subseteq flights /\ it' = it /\ chain' = chain /\ pc' = pc
      BY <1>19 DEF RackEvent
    <2> QED
      BY <1>1, <2>1 DEF Fits
  <1>20. CASE Arrive \/ Start \/ End
    BY <1>1, <1>20 DEF Arrive, Start, End, Recovering
  <1> QED
    <2>1. CASE Next
      <3>1. CASE Run
        BY <1>5, <1>6, <1>9, <1>10, <1>11, <1>12, <1>13, <1>14, <1>15, <1>16, <1>17, <1>20, <3>1,
           Zenon DEF Run
      <3>2. CASE Resolve \/ RequestPreemption \/ \E c \in Cohorts : Offer(c) \/ Host(c)
        BY <1>3, <3>2 DEF Resolve, RequestPreemption, Offer, Host
      <3> QED
        BY <1>7, <1>18, <1>19, <2>1, <3>1, <3>2, Zenon DEF Next
    <2>2. CASE UNCHANGED vars
      BY <1>3, <2>2 DEF vars
    <2> QED
      BY <2>1, <2>2

\* The fields of a job that only its process and its policy write.
ProcessTyped ==
  /\ \E s \in Settings : sources = s.sources
  /\ state \in {"pending", "active", "idle_checkpoint"}
  /\ pc \in Labels /\ resume \in {"iterate", "poisson"}
  /\ cadence \in Cadences
  /\ goal \in 0 .. Iterations
  /\ chain \in -1 .. Iterations
  /\ executed \in Nat /\ lost \in Int /\ restarts \in Nat
  /\ events \in Nat

\* Sets of cohorts.
CohortsTyped ==
  /\ hosted \in [Cohorts -> SUBSET Local]
  /\ incoming \subseteq Cohorts /\ failed \subseteq Cohorts
  /\ available \subseteq Cohorts /\ relocated \subseteq Cohorts
  /\ preempt \in BOOLEAN
  /\ dark \subseteq Cohorts \X BOOLEAN /\ late \subseteq Cohorts \X Tiers
  /\ batch \subseteq Cohorts /\ recovered \subseteq Cohorts /\ aborted \subseteq Cohorts

\* The types hold initially.
LEMMA TypeInit ==
  ASSUME Init PROVE TypeOK
  <1>1. Iterations \in Nat \ {0} /\ \A s \in Settings : s.cadence \in Cadences
    BY Constants
  <1>2. copies \in [Cohorts -> [Tiers -> -1 .. Iterations]]
    BY <1>1 DEF Init, None
  <1>3. (\E s \in Settings : sources = s.sources) /\ cadence \in Cadences
    BY <1>1, Zenon DEF Init
  <1>4. hosted \in [Cohorts -> SUBSET Local]
    BY DEF Init
  <1>5. ProcessTyped
    BY <1>1, <1>3 DEF Init, ProcessTyped, Labels
  <1>6. CohortsTyped
    BY <1>4 DEF Init, CohortsTyped
  <1>7. {it, lastStore, goal} \subseteq 0 .. Iterations /\ flights = {}
    BY <1>1 DEF Init
  <1> QED
    BY <1>2, <1>5, <1>6, <1>7 DEF TypeOK, ProcessTyped, CohortsTyped

\* The counters, the labels and the pending chain keep their types.
LEMMA ProcessTypeStep ==
  ASSUME Inductive, [Next]_vars PROVE ProcessTyped'
  <1>1. /\ ProcessTyped /\ Iterations \in Nat /\ it \in 0 .. Iterations
        /\ copies \in [Cohorts -> [Tiers -> -1 .. Iterations]] /\ batch \subseteq Cohorts
    BY Constants DEF Inductive, TypeOK, ProcessTyped
  <1>2. \A c \in Cohorts : Positive(Peek(c, it)) \in 0 .. Iterations
    <2>1. it \in -1 .. Iterations
      BY <1>1
    <2> QED
      BY <1>1, <2>1, PeekIsNewest
  <1>3. \A S \in SUBSET Cohorts : S # {} => Plan(S) \in 0 .. Iterations
    BY PlanFits DEF Inductive
  <1> USE DEF fixed, books, donors, inbox
  <1>4. CASE Arrive
    BY <1>1, <1>4 DEF ProcessTyped, Arrive, Labels
  <1>5. CASE Start \/ End
    BY <1>1, <1>5 DEF ProcessTyped, Start, End, Labels
  <1>6. CASE Boundary
    BY <1>1, <1>6 DEF ProcessTyped, Boundary, FailOne, Labels
  <1>7. CASE Poisson
    BY <1>1, <1>7 DEF ProcessTyped, Poisson, FailOne, Looping, Labels
  <1>8. ASSUME NEW c \in Cohorts, Fetch(c) PROVE ProcessTyped'
    BY <1>1, <1>8 DEF ProcessTyped, Fetch
  <1>9. CASE RestartOne
    <2>1. goal' \in 0 .. Iterations
      BY <1>1, <1>2, <1>9 DEF RestartOne
    <2> QED
      BY <1>1, <1>9, <2>1 DEF ProcessTyped, RestartOne, Labels, Recovering
  <1>10. CASE RecoverOne
    BY <1>1, <1>10 DEF ProcessTyped, RecoverOne, Looping, Labels
  <1>11. CASE RecoverFromReplica
    BY <1>1, <1>11 DEF ProcessTyped, RecoverFromReplica, Looping, Labels, Positive
  <1>12. CASE Evict
    BY <1>1, <1>12 DEF ProcessTyped, Evict, Labels
  <1>13. CASE PlanEviction \/ PlanRack
    <2>1. batch # {}
      BY <1>13, Constants DEF PlanEviction, PlanRack, Replan, Inductive, DownIsRecovered
    <2>2. Plan(batch) \in 0 .. Iterations
      BY <1>1, <1>3, <2>1
    <2> QED
      BY <1>1, <1>13, <2>2
        DEF ProcessTyped, PlanEviction, PlanRack, Replan, Labels, Recovering
  <1>14. CASE Recovered
    BY <1>1, <1>14 DEF ProcessTyped, Recovered, Labels
  <1>15. CASE RackFailure
    BY <1>1, <1>15 DEF ProcessTyped, RackFailure, Labels
  <1>16. CASE TraceRestart
    <2>1. Plan(Cohorts) \in 0 .. Iterations
      BY <1>3, Constants
    <2> QED
      BY <1>1, <1>16, <2>1 DEF ProcessTyped, TraceRestart, Looping, Labels
  <1>17. CASE TraceEvent
    BY <1>1, <1>17 DEF ProcessTyped, TraceEvent, Event, Killed
  <1>18. CASE Resolve \/ RequestPreemption \/ \E c \in Cohorts : Offer(c) \/ Host(c)
    BY <1>1, <1>18 DEF ProcessTyped, Resolve, RequestPreemption, Event, Offer, Host
  <1>19. ASSUME NEW f \in flights, Land(f) PROVE ProcessTyped'
    BY <1>1, <1>19 DEF ProcessTyped, Land
  <1>20. ASSUME NEW rack, RackEvent(rack) PROVE ProcessTyped'
    BY <1>1, <1>20 DEF ProcessTyped, RackEvent, Event
  <1> QED
    <2>1. CASE Next
      <3>1. CASE Run
        BY <1>4, <1>5, <1>6, <1>7, <1>8, <1>9, <1>10, <1>11, <1>12, <1>13, <1>14, <1>15, <1>16,
           <3>1, Zenon DEF Run
      <3> QED
        BY <1>17, <1>18, <1>19, <1>20, <2>1, <3>1, Zenon DEF Next
    <2>2. CASE UNCHANGED vars
      BY <1>1, <2>2 DEF vars, ProcessTyped
    <2> QED
      BY <2>1, <2>2

\* Sets of cohorts remain sets of cohorts.
LEMMA CohortsTypeStep ==
  ASSUME Inductive, [Next]_vars PROVE CohortsTyped'
  <1>1. /\ CohortsTyped
        /\ flights \subseteq Cohorts \X (0 .. Iterations) \X Kinds
    BY DEF Inductive, TypeOK, CohortsTyped
  <1> USE DEF fixed, books, donors, inbox
  <1>2. ASSUME NEW c \in Cohorts, NEW t \in Tiers, Landed(c, t)
        PROVE  late' \subseteq Cohorts \X Tiers
    BY <1>1, <1>2 DEF CohortsTyped, Landed
  <1>3. ASSUME NEW c \in Cohorts, NEW type, NEW next, FailOne(c, type, next)
        PROVE  /\ hosted' \in [Cohorts -> SUBSET Local] /\ incoming' \subseteq Cohorts
               /\ failed' \subseteq Cohorts /\ batch' \subseteq Cohorts
               /\ recovered' \subseteq Cohorts /\ aborted' \subseteq Cohorts
    BY <1>1, <1>3 DEF CohortsTyped, FailOne, Invalidate
  <1>4. CASE Arrive
    BY <1>1, <1>4 DEF CohortsTyped, Arrive
  <1>5. CASE Start \/ End
    BY <1>1, <1>5 DEF CohortsTyped, Start, End
  <1>6. CASE Boundary
    BY <1>1, <1>3, <1>6 DEF CohortsTyped, Boundary
  <1>7. CASE Poisson
    BY <1>1, <1>3, <1>7 DEF CohortsTyped, Poisson
  <1>8. ASSUME NEW c \in Cohorts, Fetch(c) PROVE CohortsTyped'
    <2>1. late' \subseteq Cohorts \X Tiers
      BY <1>1, <1>2, <1>8 DEF CohortsTyped, Fetch, Tiers
    <2> QED
      BY <1>1, <1>8, <2>1 DEF CohortsTyped, Fetch
  <1>9. CASE RestartOne
    BY <1>1, <1>9 DEF CohortsTyped, RestartOne
  <1>10. CASE RecoverOne \/ RecoverFromReplica
    BY <1>1, <1>10 DEF CohortsTyped, RecoverOne, RecoverFromReplica
  <1>11. CASE Evict
    BY <1>1, <1>11 DEF CohortsTyped, Evict, Invalidate
  <1>12. CASE PlanEviction \/ PlanRack \/ TraceRestart
    BY <1>1, <1>12 DEF CohortsTyped, PlanEviction, PlanRack, Replan, TraceRestart
  <1>13. CASE Recovered
    BY <1>1, <1>13 DEF CohortsTyped, Recovered
  <1>14. CASE RackFailure
    <2>1. late' \subseteq late /\ dark' \subseteq dark
      BY <1>14 DEF RackFailure
    <2>2. {d[1] : d \in dark} \subseteq Cohorts
      BY <1>1 DEF CohortsTyped
    <2>3. batch' \subseteq Cohorts /\ failed' \subseteq Cohorts
      BY <1>1, <1>14, <2>2 DEF CohortsTyped, RackFailure
    <2> QED
      BY <1>1, <1>14, <2>1, <2>3 DEF CohortsTyped, RackFailure, Invalidate
  <1>15. CASE TraceEvent
    BY <1>1, <1>15 DEF CohortsTyped, TraceEvent, Invalidate
  <1>16. CASE Resolve \/ RequestPreemption
    BY <1>1, <1>16 DEF CohortsTyped, Resolve, RequestPreemption
  <1>17. ASSUME NEW c \in Cohorts, Offer(c) \/ Host(c) PROVE CohortsTyped'
    BY <1>1, <1>17 DEF CohortsTyped, Offer, Host, Local
  <1>18. ASSUME NEW f \in flights, Land(f) PROVE CohortsTyped'
    <2>1. f[1] \in Cohorts
      BY <1>1
    <2>2. late' = late \/ \E t \in Tiers : Landed(f[1], t)
      BY <1>18 DEF Land, Tiers
    <2>3. late' \subseteq Cohorts \X Tiers
      BY <1>1, <1>2, <2>1, <2>2 DEF CohortsTyped
    <2> QED
      BY <1>1, <1>18, <2>3 DEF CohortsTyped, Land
  <1>19. ASSUME NEW rack, RackEvent(rack) PROVE CohortsTyped'
    <2> DEFINE struck == {c \in Cohorts : Overlap(c, rack) > 0}
               full == {c \in struck : Overlap(c, rack) = Represents[c]}
    <2>1. struck \subseteq Cohorts /\ full \subseteq struck
      OBVIOUS
    <2>2. /\ relocated' = relocated \cup struck
          /\ preempt' = preempt /\ late' = late /\ batch' = batch
          /\ recovered' = recovered /\ aborted' = aborted
      BY <1>19, Zenon DEF RackEvent
    <2>3. hosted' = hosted \/ \E gone : hosted' = [c \in Cohorts |-> IF c \in struck
                                                     THEN hosted[c] \ gone[c] ELSE hosted[c]]
      BY <1>19, Zenon DEF RackEvent
    <2>4. /\ available' \subseteq available /\ incoming' \subseteq incoming
          /\ failed' = failed \/ failed' = failed \cup full
          /\ dark' = dark \/ dark' = dark \cup {<<c, c \in full>> : c \in struck}
      BY <1>19 DEF RackEvent
    <2> HIDE DEF struck, full
    <2>5. \A c \in Cohorts : <<c, c \in full>> \in Cohorts \X BOOLEAN
      <3> TAKE c \in Cohorts
      <3>1. (c \in full) \in BOOLEAN
        OBVIOUS
      <3> QED
        BY <3>1, Zenon
    <2>6. {<<c, c \in full>> : c \in struck} \subseteq Cohorts \X BOOLEAN
      BY <2>1, <2>5
    <2>7. hosted' \in [Cohorts -> SUBSET Local]
      BY <1>1, <2>3 DEF CohortsTyped
    <2> QED
      BY <1>1, <2>1, <2>2, <2>4, <2>6, <2>7 DEF CohortsTyped
  <1> QED
    <2>1. CASE Next
      <3>1. CASE Run
        BY <1>4, <1>5, <1>6, <1>7, <1>8, <1>9, <1>10, <1>11, <1>12, <1>13, <1>14, <3>1, Zenon
          DEF Run
      <3> QED
        BY <1>15, <1>16, <1>17, <1>18, <1>19, <2>1, <3>1, Zenon DEF Next
    <2>2. CASE UNCHANGED vars
      BY <1>1, <2>2 DEF vars, CohortsTyped
    <2> QED
      BY <2>1, <2>2

\* Every step preserves the types.
LEMMA TypeStep ==
  ASSUME Inductive, [Next]_vars PROVE TypeOK'
  BY CopiesStep, FlightsStep, ProcessTypeStep, CohortsTypeStep
    DEF TypeOK, ProcessTyped, CohortsTyped, CopyTable

\* Every step leaves the process where the state of the job allows it.
LEMMA PlacedStep ==
  ASSUME Inductive, [Next]_vars PROVE Placed'
  <1>1. Placed /\ it \in 0 .. Iterations /\ Iterations \in Nat
    BY Constants DEF Inductive, TypeOK
  <1> USE DEF Placed
  <1>2. CASE UNCHANGED <<state, pc, it>>
    BY <1>1, <1>2
  <1>3. CASE Arrive \/ Start \/ End
    BY <1>1, <1>3 DEF Arrive, Start, End
  <1>4. CASE Boundary
    BY <1>1, <1>4 DEF Boundary, FailOne
  <1>5. CASE Poisson
    BY <1>1, <1>5 DEF Poisson, FailOne, Looping, books
  <1>6. CASE RestartOne
    BY <1>1, <1>6 DEF RestartOne
  <1>7. CASE RecoverOne \/ RecoverFromReplica
    BY <1>1, <1>7 DEF RecoverOne, RecoverFromReplica, RollBack, Looping
  <1>8. CASE Evict \/ Recovered \/ RackFailure
    BY <1>1, <1>8 DEF Evict, Recovered, RackFailure
  <1>9. CASE PlanEviction \/ PlanRack
    BY <1>1, <1>9 DEF PlanEviction, PlanRack, Replan
  <1>10. CASE TraceRestart
    BY <1>1, <1>10 DEF TraceRestart, RollBack, Looping
  <1> QED
    <2>1. CASE Next
      <3>1. CASE Run
        BY <1>2, <1>3, <1>4, <1>5, <1>6, <1>7, <1>8, <1>9, <1>10, <3>1 DEF Run, Fetch
      <3>2. CASE Resolve \/ RequestPreemption \/ TraceEvent
        BY <1>2, <3>2 DEF Resolve, RequestPreemption, TraceEvent
      <3>3. ASSUME NEW c \in Cohorts, Offer(c) \/ Host(c) PROVE Placed'
        BY <1>2, <3>3 DEF Offer, Host
      <3>4. ASSUME NEW f \in flights, Land(f) PROVE Placed'
        BY <1>2, <3>4 DEF Land
      <3>5. ASSUME NEW rack, RackEvent(rack) PROVE Placed'
        BY <1>2, <3>5 DEF RackEvent
      <3> HIDE DEF Placed
      <3> QED
        BY <2>1, <3>1, <3>2, <3>3, <3>4, <3>5, Zenon DEF Next
    <2>2. CASE UNCHANGED vars
      BY <1>2, <2>2 DEF vars
    <2> QED
      BY <2>1, <2>2

\* Every step keeps to the present timeline.
LEMMA PresentOnlyStep ==
  ASSUME Inductive, [Next]_vars PROVE PresentOnly'
  <1>1. it' \in 0 .. Iterations /\ UpTo(copies', it') /\ lastStore' <= it'
    BY CopiesStep
  <1>2. /\ \A f \in flights' : f[2] <= it'
        /\ (chain' >= 0 \/ pc' \in Recovering \cup {"restart_one", "evicted", "rack", "trace"})
             => flights' = {}
    BY FlightsStep
  <1>3. ASSUME pc' = "recover_one" PROVE goal' <= it'
    <2>1. CASE RestartOne
      <3>1. PICK c \in Cohorts : goal' = Positive(Peek(c, it))
        BY <2>1 DEF RestartOne, Inductive, TypeOK
      <3>2. it \in -1 .. Iterations /\ it \in Nat
        BY Constants DEF Inductive, TypeOK
      <3>3. Peek(c, it) \in -1 .. it
        BY <3>2, PeekIsNewest DEF Inductive, TypeOK
      <3>4. it' = it
        BY <2>1 DEF RestartOne
      <3> QED
        BY <3>1, <3>2, <3>3, <3>4 DEF Positive
    <2>2. CASE UNCHANGED <<pc, it, goal>>
      BY <1>3, <2>2 DEF Inductive, PresentOnly
    <2>3. CASE Arrive \/ Start \/ End
      BY <1>3, <2>3 DEF Arrive, Start, End
    <2>4. CASE Boundary \/ Poisson
      BY <1>3, <2>4 DEF Boundary, Poisson, FailOne, Looping
    <2>5. CASE RecoverOne \/ RecoverFromReplica \/ TraceRestart
      BY <1>3, <2>5 DEF RecoverOne, RecoverFromReplica, TraceRestart, Looping
    <2>6. CASE Evict \/ Recovered \/ RackFailure \/ PlanEviction \/ PlanRack
      BY <1>3, <2>6 DEF Evict, Recovered, RackFailure, PlanEviction, PlanRack, Replan
    <2>7. CASE Next
      <3>1. CASE Run
        BY <2>1, <2>2, <2>3, <2>4, <2>5, <2>6, <3>1 DEF Run, Fetch, fixed
      <3>2. CASE Resolve \/ RequestPreemption \/ TraceEvent
        BY <2>2, <3>2 DEF Resolve, RequestPreemption, TraceEvent, fixed
      <3>3. ASSUME NEW c \in Cohorts, Offer(c) \/ Host(c) PROVE goal' <= it'
        BY <2>2, <3>3 DEF Offer, Host, fixed
      <3>4. ASSUME NEW f \in flights, Land(f) PROVE goal' <= it'
        BY <2>2, <3>4 DEF Land, fixed
      <3>5. ASSUME NEW rack, RackEvent(rack) PROVE goal' <= it'
        BY <2>2, <3>5 DEF RackEvent
      <3> QED
        BY <2>7, <3>1, <3>2, <3>3, <3>4, <3>5, Zenon DEF Next
    <2>8. CASE UNCHANGED vars
      BY <2>2, <2>8 DEF vars
    <2> QED
      BY <2>7, <2>8
  <1> QED
    BY <1>1, <1>2, <1>3 DEF PresentOnly, UpTo

\* Every step leaves only cohorts down that are being recovered.
LEMMA DownIsRecoveredStep ==
  ASSUME Inductive, [Next]_vars PROVE DownIsRecovered'
  <1>1. DownIsRecovered /\ failed \subseteq Cohorts /\ batch \subseteq Cohorts
    BY DEF Inductive, TypeOK
  <1> USE DEF DownIsRecovered
  <1>2. CASE UNCHANGED <<pc, failed, batch, recovered>>
    BY <1>1, <1>2
  <1>3. CASE Arrive \/ Start \/ End
    BY <1>1, <1>3 DEF Arrive, Start, End
  <1>4. CASE Boundary
    BY <1>1, <1>4 DEF Boundary, FailOne
  <1>5. CASE Poisson
    BY <1>1, <1>5 DEF Poisson, FailOne, Looping
  <1>6. ASSUME NEW c \in Cohorts, Fetch(c) PROVE DownIsRecovered'
    BY <1>1, <1>6 DEF Fetch
  <1>7. CASE RestartOne
    BY <1>1, <1>7 DEF RestartOne
  <1>8. CASE RecoverOne \/ RecoverFromReplica
    BY <1>1, <1>8 DEF RecoverOne, RecoverFromReplica, Looping
  <1>9. CASE Evict
    BY <1>1, <1>9, Constants DEF Evict
  <1>10. CASE PlanEviction \/ PlanRack
    BY <1>1, <1>10 DEF PlanEviction, PlanRack, Replan
  <1>11. CASE Recovered
    BY <1>1, <1>11 DEF Recovered
  <1>12. CASE RackFailure
    <2>1. dark # {} => {d[1] : d \in dark} # {}
      OBVIOUS
    <2> QED
      BY <1>1, <1>12, <2>1 DEF RackFailure
  <1>13. CASE TraceRestart
    BY <1>1, <1>13 DEF TraceRestart, Looping
  <1>14. ASSUME NEW rack, RackEvent(rack) PROVE DownIsRecovered'
    <2>1. pc' = pc /\ batch' = batch /\ recovered' = recovered
      BY <1>14 DEF RackEvent
    <2>2. failed' = failed \/ pc = "done"
      BY <1>14 DEF RackEvent, Inductive, TypeOK, Placed
    <2> QED
      BY <1>1, <2>1, <2>2
  <1> QED
    <2>1. CASE Next
      <3>1. CASE Run
        BY <1>3, <1>4, <1>5, <1>6, <1>7, <1>8, <1>9, <1>10, <1>11, <1>12, <1>13, <3>1 DEF Run
      <3>2. CASE Resolve \/ RequestPreemption \/ TraceEvent
        BY <1>2, <3>2 DEF Resolve, RequestPreemption, TraceEvent
      <3>3. ASSUME NEW c \in Cohorts, Offer(c) \/ Host(c) PROVE DownIsRecovered'
        BY <1>2, <3>3 DEF Offer, Host
      <3>4. ASSUME NEW f \in flights, Land(f) PROVE DownIsRecovered'
        BY <1>2, <3>4 DEF Land
      <3> HIDE DEF DownIsRecovered
      <3> QED
        BY <1>14, <2>1, <3>1, <3>2, <3>3, <3>4, Zenon DEF Next
    <2>2. CASE UNCHANGED vars
      BY <1>2, <2>2 DEF vars
    <2> QED
      BY <2>1, <2>2

\* Every step offers the slots of the nodes that are there, and no others.
LEMMA OfferedOrDarkStep ==
  ASSUME Inductive, [Next]_vars PROVE OfferedOrDark'
  <1>1. /\ OfferedOrDark /\ Placed
        /\ state \in {"pending", "active", "idle_checkpoint"}
        /\ hosted \in [Cohorts -> SUBSET Local]
        /\ incoming \subseteq Cohorts /\ failed \subseteq Cohorts
        /\ available \subseteq Cohorts /\ batch \subseteq Cohorts
        /\ dark \subseteq Cohorts \X BOOLEAN
    BY DEF Inductive, TypeOK
  <1> USE DEF OfferedOrDark
  <1>2. ASSUME UNCHANGED <<state, available, dark>>, pc \notin {"rack", "recover_dark", "error"},
               state # "idle_checkpoint"
        PROVE  OfferedOrDark'
    BY <1>1, <1>2
  <1>3. CASE UNCHANGED <<state, pc, available, dark, batch, failed, hosted, incoming>>
    BY <1>1, <1>3
  <1>4. CASE Arrive
    BY <1>1, <1>4 DEF Arrive
  <1>5. CASE Start
    BY <1>1, <1>2, <1>5 DEF Start, Placed, donors, inbox
  <1>6. CASE Boundary
    BY <1>1, <1>2, <1>6 DEF Boundary, Placed, inbox
  <1>7. CASE Poisson
    BY <1>1, <1>2, <1>7 DEF Poisson, Placed, inbox
  <1>8. CASE End
    <2>1. failed' = {} /\ state' = "idle_checkpoint"
      BY <1>8 DEF End, Inductive, DownIsRecovered
    <2> QED
      BY <2>1
  <1>9. ASSUME NEW c \in Cohorts, Fetch(c) PROVE OfferedOrDark'
    BY <1>1, <1>9 DEF Fetch, Placed, donors
  <1>10. CASE RestartOne \/ RecoverOne \/ RecoverFromReplica
    BY <1>1, <1>2, <1>10
      DEF RestartOne, RecoverOne, RecoverFromReplica, Placed, donors, inbox
  <1>11. CASE Evict
    BY <1>1, <1>2, <1>11 DEF Evict, Placed
  <1>12. CASE PlanEviction
    BY <1>1, <1>2, <1>12 DEF PlanEviction, Replan, Placed, donors, inbox
  <1>13. CASE PlanRack
    BY <1>1, <1>13 DEF PlanRack, Replan, Placed, donors, inbox
  <1>14. CASE Recovered
    BY <1>1, <1>14 DEF Recovered, Placed, inbox
  <1>15. CASE RackFailure
    <2>1. state' = state /\ state # "idle_checkpoint" /\ available' = available
      BY <1>1, <1>15 DEF RackFailure, Placed
    <2>2. CASE dark = {}
      BY <1>1, <1>15, <2>1, <2>2 DEF RackFailure
    <2>3. CASE dark # {}
      <3>1. pc' = "rack" /\ batch' = {d[1] : d \in dark} /\ failed' = failed \cup batch'
            /\ dark' = {} /\ Invalidate
        BY <1>15, <2>3, Zenon DEF RackFailure
      <3>2. \A d \in dark : d[1] \in batch'
        BY <3>1, Zenon
      <3>3. ASSUME state = "active", NEW c \in Cohorts \ available PROVE c \in batch'
        <4>1. \E d \in dark : d[1] = c
          <5>1. pc = "racks"
            BY <1>15 DEF RackFailure
          <5> QED
            BY <1>1, <3>3, <5>1
        <4> QED
          BY <3>2, <4>1, Zenon
      <3> QED
        BY <2>1, <3>1, <3>3
    <2> QED
      BY <2>2, <2>3
  <1>16. CASE TraceRestart
    BY <1>1, <1>2, <1>16 DEF TraceRestart, Placed, donors, inbox
  <1>17. CASE TraceEvent
    BY <1>1, <1>17 DEF TraceEvent, Invalidate, inbox
  <1>18. CASE Resolve \/ RequestPreemption
    BY <1>1, <1>18 DEF Resolve, RequestPreemption, donors, inbox
  <1>19. ASSUME NEW c \in Cohorts, Offer(c) PROVE OfferedOrDark'
    BY <1>1, <1>19 DEF Offer, inbox
  <1>20. ASSUME NEW c \in Cohorts, Host(c) PROVE OfferedOrDark'
    BY <1>1, <1>20 DEF Host, inbox
  <1>21. ASSUME NEW f \in flights, Land(f) PROVE OfferedOrDark'
    BY <1>1, <1>21 DEF Land, donors
  <1>22. ASSUME NEW rack, RackEvent(rack) PROVE OfferedOrDark'
    <2> DEFINE struck == {c \in Cohorts : Overlap(c, rack) > 0}
               full == {c \in struck : Overlap(c, rack) = Represents[c]}
    <2>1. full \subseteq struck /\ struck \subseteq Cohorts
      OBVIOUS
    <2>2. state' = state /\ pc' = pc /\ batch' = batch
      BY <1>22, Zenon DEF RackEvent
    <2>3. CASE state = "pending"
      BY <2>2, <2>3
    <2>4. CASE state = "active"
      <3>1. available' = available \ struck /\ dark' = dark \cup {<<c, c \in full>> : c \in struck}
        BY <1>22, <2>4 DEF RackEvent, Struck
      <3> HIDE DEF struck, full
      <3>2. \A c \in struck : \E d \in dark' : d[1] = c
        <4> TAKE c \in struck
        <4>1. <<c, c \in full>> \in dark'
          BY <3>1, Zenon
        <4>2. <<c, c \in full>>[1] = c
          OBVIOUS
        <4> QED
          BY <4>1, <4>2, Zenon
      <3>3. dark \subseteq dark'
        BY <3>1, Zenon
      <3> QED
        BY <1>1, <2>1, <2>2, <2>4, <3>1, <3>2, <3>3, Zenon
    <2>5. CASE state = "idle_checkpoint"
      <3>1. /\ failed' = failed \cup full /\ available' = available \ full
            /\ incoming' = incoming \ (full \ failed)
        BY <1>22, <2>5 DEF RackEvent, Struck
      <3>2. PICK gone \in Losses(struck, full) :
              hosted' = [c \in Cohorts |-> IF c \in struck THEN hosted[c] \ gone[c] ELSE hosted[c]]
        BY <1>22, <2>5, Zenon DEF RackEvent
      <3>3. \A c \in full : gone[c] = Local
        BY <3>2 DEF Losses, Local
      <3> HIDE DEF struck, full
      <3>4. ASSUME NEW c \in failed' PROVE c \notin available' /\ hosted'[c] = {} /\ c \notin incoming'
        <4>1. c \in Cohorts
          BY <1>1, <2>1, <3>1
        <4>2. CASE c \in full
          <5>1. hosted'[c] = {}
            BY <1>1, <2>1, <3>2, <3>3, <4>1, <4>2
          <5> QED
            BY <1>1, <2>5, <3>1, <4>2, <5>1
        <4>3. CASE c \notin full
          <5>1. c \in failed
            BY <3>1, <4>3
          <5>2. c \notin available /\ hosted[c] = {} /\ c \notin incoming
            BY <1>1, <2>5, <5>1
          <5>3. hosted'[c] = {}
            BY <3>2, <4>1, <5>2
          <5> QED
            BY <3>1, <5>2, <5>3
        <4> QED
          BY <4>2, <4>3
      <3> QED
        BY <2>2, <2>5, <3>4
    <2> QED
      BY <1>1, <2>3, <2>4, <2>5
  <1> QED
    <2>1. CASE Next
      <3> HIDE DEF OfferedOrDark
      <3>1. CASE Run
        BY <1>4, <1>5, <1>6, <1>7, <1>8, <1>9, <1>10, <1>11, <1>12, <1>13, <1>14, <1>15, <1>16,
           <3>1, Zenon DEF Run
      <3> QED
        BY <1>17, <1>18, <1>19, <1>20, <1>21, <1>22, <2>1, <3>1, Zenon DEF Next
    <2>2. CASE UNCHANGED vars
      BY <1>3, <2>2 DEF vars
    <2> QED
      BY <2>1, <2>2

\* Where traces are replayed alone, every step books what it does exactly once.
LEMMA BooksStep ==
  ASSUME TracesAlone, Inductive, BooksBalance, [Next]_vars PROVE BooksBalance'
  <1>1. /\ BooksBalance /\ Iterations \in Nat
        /\ it \in 0 .. Iterations /\ goal \in 0 .. Iterations /\ chain \in -1 .. Iterations
        /\ executed \in Nat /\ lost \in Int /\ restarts \in Nat /\ preempt \in BOOLEAN
        /\ batch \subseteq Cohorts
    BY Constants DEF Inductive, TypeOK
  <1>2. "trace" \in sources => sources \cap {"failure", "preemption", "rack"} = {}
    BY DEF Inductive, TypeOK, TracesAlone
  <1>3. \A S \in SUBSET Cohorts : S # {} => Plan(S) \in 0 .. Iterations
    BY PlanFits DEF Inductive
  <1> USE DEF BooksBalance
  <1>4. CASE UNCHANGED <<executed, it, lost, restarts, pc, chain, sources, preempt, dark>>
    BY <1>1, <1>4
  <1>5. CASE Arrive \/ Start \/ End
    BY <1>1, <1>5 DEF Arrive, Start, End, fixed, books, inbox, Recovering
  <1>6. CASE Boundary
    <2>1. /\ it' = it + 1 /\ executed' = executed + 1 /\ UNCHANGED <<lost, restarts, chain>>
          /\ UNCHANGED <<sources, preempt, dark>> /\ pc = "iterate"
      BY <1>6 DEF Boundary, fixed, inbox
    <2>2. \/ "failure" \in sources /\ pc' = "restart_one"
          \/ chain >= 0 /\ pc' = "trace"
          \/ chain < 0 /\ pc' = "checks"
      BY <1>6 DEF Boundary, FailOne
    <2> QED
      BY <1>1, <1>2, <2>1, <2>2 DEF Recovering
  <1>7. CASE Poisson
    <2>1. /\ UNCHANGED <<it, executed, lost, restarts, chain, sources, preempt, dark>>
          /\ pc = "poisson"
      BY <1>7 DEF Poisson, fixed, inbox, books
    <2>2. ("failure" \in sources /\ pc' = "restart_one") \/ pc' \in {"iterate", "end"}
      BY <1>7 DEF Poisson, FailOne, Looping
    <2> QED
      BY <1>1, <1>2, <2>1, <2>2 DEF Recovering
  <1>8. CASE RestartOne
    <2>1. /\ UNCHANGED <<it, executed, lost, restarts, chain, sources, preempt, dark>>
          /\ pc = "restart_one" /\ pc' = "recover_one"
      BY <1>8 DEF RestartOne, inbox, books
    <2> QED
      BY <1>1, <2>1 DEF Recovering
  <1>9. CASE RecoverOne \/ RecoverFromReplica
    <2>1. /\ UNCHANGED <<executed, restarts, chain, sources, preempt, dark>>
          /\ pc \in {"recover_one", "restart_one"} /\ pc' \in {"poisson", "iterate", "end"}
          /\ \E target \in {goal, 0, Positive(it - 1)} :
               it' = target /\ lost' = lost + it - target
      BY <1>9 DEF RecoverOne, RecoverFromReplica, RollBack, Looping, fixed, inbox
    <2> QED
      BY <1>1, <2>1 DEF Recovering, Positive
  <1>10. CASE Evict
    <2>1. UNCHANGED <<it, executed, lost, restarts, chain, sources, dark>> /\ pc = "checks"
      BY <1>10 DEF Evict, fixed, books
    <2>2. CASE preempt
      <3>1. pc' = "evicted" /\ preempt' = FALSE
        BY <1>10, <2>2 DEF Evict
      <3> QED
        BY <1>1, <2>1, <2>2, <3>1 DEF Recovering
    <2>3. CASE ~preempt
      <3>1. pc' = "racks" /\ preempt' = preempt
        BY <1>10, <2>3 DEF Evict
      <3> QED
        BY <1>1, <2>1, <2>3, <3>1 DEF Recovering
    <2> QED
      BY <2>2, <2>3
  <1>11. CASE PlanEviction \/ PlanRack
    <2>1. /\ UNCHANGED <<executed, restarts, chain, sources, preempt, dark>>
          /\ pc \in {"evicted", "rack"} /\ pc' \in {"recover_all", "recover_dark"}
          /\ it' = Plan(batch) /\ lost' = lost + it - Plan(batch)
      BY <1>11 DEF PlanEviction, PlanRack, Replan, RollBack, fixed, inbox
    <2>2. batch # {}
      BY <1>11, Constants DEF PlanEviction, PlanRack, Replan, Inductive, DownIsRecovered
    <2>3. Plan(batch) \in 0 .. Iterations
      BY <1>1, <1>3, <2>2
    <2> QED
      BY <1>1, <2>1, <2>3 DEF Recovering
  <1>12. CASE Recovered
    <2>1. /\ UNCHANGED <<it, executed, lost, restarts, chain, sources, preempt, dark>>
          /\ pc \in Recovering /\ pc' \in {"error", "racks", "poisson"}
      BY <1>12 DEF Recovered, fixed, inbox, books, Recovering
    <2> QED
      BY <1>1, <2>1 DEF Recovering
  <1>13. CASE RackFailure
    <2>1. UNCHANGED <<it, executed, lost, restarts, chain, sources, preempt>> /\ pc = "racks"
      BY <1>13 DEF RackFailure, fixed, books
    <2>2. CASE dark = {}
      <3>1. pc' = "poisson" /\ dark' = {}
        BY <1>13, <2>2 DEF RackFailure
      <3> QED
        BY <1>1, <2>1, <3>1 DEF Recovering
    <2>3. CASE dark # {}
      <3>1. pc' = "rack" /\ dark' = {}
        BY <1>13, <2>3 DEF RackFailure
      <3> QED
        BY <1>1, <2>1, <2>3, <3>1 DEF Recovering
    <2> QED
      BY <2>2, <2>3
  <1>14. CASE TraceRestart
    <2>1. /\ UNCHANGED <<executed, sources, preempt, dark>> /\ restarts' = restarts + 1
          /\ pc = "trace" /\ pc' \in {"iterate", "end"} /\ chain' = -1
          /\ it' = Plan(Cohorts) /\ lost' = lost + chain - Plan(Cohorts)
      BY <1>14 DEF TraceRestart, RollBack, Looping, fixed, inbox
    <2>2. Plan(Cohorts) \in 0 .. Iterations
      BY <1>3, Constants
    <2> QED
      BY <1>1, <2>1, <2>2 DEF Recovering
  <1>15. CASE TraceEvent
    <2>1. /\ UNCHANGED <<it, executed, lost, restarts, pc, sources, preempt, dark>>
          /\ "trace" \in sources /\ chain' \in {chain, Killed}
      BY <1>15 DEF TraceEvent, fixed, inbox, books
    <2> QED
      <3>1. chain < 0 \/ chain >= 0
        BY <1>1
      <3>2. CASE chain' = chain
        BY <1>4, <2>1, <3>2
      <3>3. CASE chain < 0 /\ chain' = it
        BY <1>1, <2>1, <3>3
      <3> QED
        BY <2>1, <3>1, <3>2, <3>3 DEF Killed
  <1>16. CASE Resolve
    BY <1>1, <1>4, <1>16 DEF Resolve, fixed, books, inbox
  <1>17. CASE RequestPreemption
    <2>1. /\ UNCHANGED <<it, executed, lost, restarts, pc, sources, chain, dark>>
          /\ "preemption" \in sources
      BY <1>17 DEF RequestPreemption, fixed, books
    <2> QED
      BY <1>1, <1>2, <2>1
  <1>18. ASSUME NEW c \in Cohorts, Fetch(c) \/ Offer(c) \/ Host(c) PROVE BooksBalance'
    <2>1. UNCHANGED <<it, executed, lost, restarts, pc, sources, chain, dark, preempt>>
      BY <1>18 DEF Fetch, Offer, Host, fixed, books, inbox
    <2> QED
      BY <1>4, <2>1
  <1>19. ASSUME NEW f \in flights, Land(f) PROVE BooksBalance'
    <2>1. UNCHANGED <<it, executed, lost, restarts, pc, sources, chain, dark, preempt>>
      BY <1>19 DEF Land, fixed, books
    <2> QED
      BY <1>4, <2>1
  <1>20. ASSUME NEW rack, RackEvent(rack) PROVE BooksBalance'
    <2>1. /\ UNCHANGED <<it, executed, lost, restarts, pc, sources, chain, preempt>>
          /\ "rack" \in sources
      BY <1>20 DEF RackEvent, books
    <2> QED
      BY <1>1, <1>2, <2>1
  <1> QED
    <2>1. CASE Next
      <3> HIDE DEF BooksBalance
      <3>1. CASE Run
        BY <1>5, <1>6, <1>7, <1>8, <1>9, <1>10, <1>11, <1>12, <1>13, <1>14, <1>18, <3>1, Zenon
          DEF Run
      <3> QED
        BY <1>15, <1>16, <1>17, <1>18, <1>19, <1>20, <2>1, <3>1, Zenon DEF Next
    <2>2. CASE UNCHANGED vars
      BY <1>4, <2>2 DEF vars
    <2> QED
      BY <2>1, <2>2

\* The invariant holds initially.
LEMMA InductiveInit ==
  ASSUME Init PROVE Inductive /\ BooksBalance
  <1>1. TypeOK
    BY TypeInit
  <1>2. Iterations \in Nat \ {0}
    BY Constants
  <1>3. Placed /\ DownIsRecovered /\ OfferedOrDark
    BY <1>2 DEF Init, Placed, DownIsRecovered, OfferedOrDark
  <1>4. PresentOnly
    <2>1. \A c \in Cohorts, t \in Tiers : copies[c][t] = -1
      BY DEF Init, None
    <2> QED
      BY <2>1 DEF Init, PresentOnly
  <1>5. BooksBalance
    BY DEF Init, BooksBalance, Recovering
  <1> QED
    BY <1>1, <1>3, <1>4, <1>5 DEF Inductive

-----------------------------------------------------------------------------
(***************************************************************************)
(* The theorems.                                                           *)
(***************************************************************************)

\* A restart of the whole job takes the newest iteration that its cohorts have
\* in common.
LEMMA RestartStep ==
  ASSUME Inductive, PlanEviction \/ PlanRack \/ TraceRestart
  PROVE  it' = Max({0} \cup {i \in 1 .. it :
                     \A c \in batch : \E t \in Tiers : copies[c][t] = i})
  <1>1. /\ it \in 0 .. Iterations /\ copies \in [Cohorts -> [Tiers -> -1 .. Iterations]]
        /\ batch \in SUBSET Cohorts
    BY DEF Inductive, TypeOK
  <1>2. batch # {} /\ it' = Plan(batch)
    <2>1. CASE PlanEviction \/ PlanRack
      BY <2>1, Constants
        DEF PlanEviction, PlanRack, Replan, RollBack, Inductive, DownIsRecovered
    <2>2. CASE TraceRestart
      BY <2>2, Constants DEF TraceRestart, RollBack, Inductive, DownIsRecovered
    <2> QED
      BY <2>1, <2>2
  <1>3. Plan(batch) = Max({0} \cup {i \in 1 .. it : Common(batch, i)})
    BY <1>1, <1>2, PlanIsNewest
  <1> QED
    BY <1>2, <1>3 DEF Common

\* While the job stands at its window, what it has kept and what it has lost
\* are all that it has executed.
LEMMA LossFollows ==
  ASSUME Inductive, BooksBalance PROVE LossBookedOnce
  <1>1. /\ Iterations \in Nat /\ it \in 0 .. Iterations /\ chain \in -1 .. Iterations
        /\ executed \in Nat /\ lost \in Int /\ restarts \in Nat
    BY Constants DEF Inductive, TypeOK
  <1>2. Plan(Cohorts) \in 0 .. Iterations
    BY PlanFits, Constants DEF Inductive
  <1>3. CASE chain < 0
    BY <1>1, <1>3 DEF BooksBalance, LossBookedOnce, UsefulAtWindow, LostAtWindow
  <1>4. CASE ~(chain < 0)
    <2>1. chain >= 0
      BY <1>1, <1>4
    <2>2. it = chain + (IF pc = "trace" THEN 1 ELSE 0) /\ executed = it + lost + restarts
      BY <2>1 DEF BooksBalance
    <2>3. UsefulAtWindow = Plan(Cohorts) /\ LostAtWindow = lost + chain - Plan(Cohorts)
      BY <1>4 DEF UsefulAtWindow, LostAtWindow
    <2>4. UsefulAtWindow + LostAtWindow = lost + chain
      BY <1>1, <1>2, <2>3
    <2> QED
      BY <1>1, <2>2, <2>4 DEF LossBookedOnce
  <1> QED
    BY <1>3, <1>4

\* The inductive invariant of the job holds in every behaviour.
THEOREM Invariance == Spec => []Inductive
  <1>1. Init => Inductive
    BY InductiveInit
  <1>2. Inductive /\ [Next]_vars => Inductive'
    BY TypeStep, PlacedStep, PresentOnlyStep, DownIsRecoveredStep, OfferedOrDarkStep
      DEF Inductive
  <1> QED
    BY <1>1, <1>2, PTL DEF Spec

\* The job's variables keep their types.
THEOREM TypeCorrect == Spec => []TypeOK
  <1>1. Inductive => TypeOK
    BY DEF Inductive
  <1> QED
    BY <1>1, Invariance, PTL

\* However failures, evictions, racks and traces interleave with checkpoints on
\* their way, a job that trains has no copy, flight or backstop of a timeline
\* it has abandoned.
THEOREM NoFutureCorrect == Spec => []NoFutureCheckpoint
  <1>1. Inductive => NoFutureCheckpoint
    BY DEF Inductive, PresentOnly, NoFutureCheckpoint
  <1> QED
    BY <1>1, Invariance, PTL

\* What other jobs may use matches the nodes that are there.
THEOREM DonorsCorrect == Spec => []DonorsMatchNodes
  <1>1. Inductive => DonorsMatchNodes
    BY DEF Inductive, TypeOK, Placed, DownIsRecovered, OfferedOrDark, DonorsMatchNodes
  <1> QED
    BY <1>1, Invariance, PTL

\* A restart of the whole job takes the newest iteration that all its cohorts
\* can restore, whatever the copies of each are.
THEOREM RestartCorrect == Spec => RestartsAtNewestCommon
  <1>1. Inductive /\ [Next]_vars =>
          [(PlanEviction \/ PlanRack \/ TraceRestart) =>
             it' = Max({0} \cup {i \in 1 .. it :
                     \A c \in batch : \E t \in Tiers : copies[c][t] = i})]_vars
    BY RestartStep
  <1> QED
    BY <1>1, Invariance, PTL DEF Spec, RestartsAtNewestCommon

\* Where traces are replayed alone, work is booked as lost exactly once, in the
\* middle of a recovery as well.
THEOREM LossCorrect == ASSUME TracesAlone PROVE Spec => []LossBookedOnce
  <1>1. Init => Inductive /\ BooksBalance
    BY InductiveInit
  <1>2. Inductive /\ BooksBalance /\ [Next]_vars => BooksBalance'
    BY TracesAlone, BooksStep
  <1>3. Inductive /\ BooksBalance => LossBookedOnce
    BY LossFollows
  <1> QED
    BY <1>1, <1>2, <1>3, Invariance, PTL DEF Spec

-----------------------------------------------------------------------------
(***************************************************************************)
(* Capacity.  Nothing here depends on which flows a component has, only on *)
(* what is done with those that have landed: the search may reach any of   *)
(* them.                                                                   *)
(***************************************************************************)

(* How many flows are enough. *)

\* Fewer registered flows are never less; only a cutoff can do with one of them left,
\* and it has two at least.
LEMMA EnoughFacts ==
  ASSUME NEW t \in Transfer
  PROVE  /\ \A A, B : FlowsOf[t] \cap A \subseteq B /\ Enough(t, B) => Enough(t, A)
         /\ \A A : t \notin Cutoff /\ Enough(t, A) => FlowsOf[t] \cap A = {}
         /\ \A A : FlowsOf[t] \cap A = {} => Enough(t, A)
         /\ \A A : t \in Cutoff /\ FlowsOf[t] \subseteq A => ~Enough(t, A)
  <1> DEFINE n == Cardinality(FlowsOf[t])
  <1>1. /\ IsFiniteSet(FlowsOf[t]) /\ n \in Nat /\ FlowsOf[t] # {}
        /\ t \in Cutoff => n >= 2
    <2>1. FlowsOf[t] \subseteq Flow /\ FlowsOf[t] # {} /\ IsFiniteSet(Flow)
      BY CapacityAssumption DEF CapacityAssumption
    <2>2. IsFiniteSet(FlowsOf[t])
      BY <2>1, FS_Subset
    <2>3. t \in Cutoff => n >= 2
      BY CapacityAssumption DEF CapacityAssumption
    <2> QED
      BY <2>1, <2>2, <2>3, FS_CardinalityType
  <1>2. \A A : /\ IsFiniteSet(FlowsOf[t] \ A) /\ Cardinality(FlowsOf[t] \ A) \in Nat
               /\ Cardinality(FlowsOf[t] \ A) <= n
               /\ Cardinality(FlowsOf[t] \ A) = n => FlowsOf[t] \ A = FlowsOf[t]
    <2> TAKE A
    <2>1. FlowsOf[t] \ A \in SUBSET FlowsOf[t]
      OBVIOUS
    <2> QED
      BY <1>1, <2>1, FS_Subset, FS_CardinalityType
  <1>3. \A A : Enough(t, A) <=>
                  Cardinality(FlowsOf[t] \ A) >= n - (IF t \in Cutoff THEN 1 ELSE 0)
    BY DEF Enough, Threshold
  <1>4. ASSUME NEW A, NEW B, FlowsOf[t] \cap A \subseteq B, Enough(t, B)
        PROVE  Enough(t, A)
    <2>1. FlowsOf[t] \ B \in SUBSET (FlowsOf[t] \ A)
      BY <1>4
    <2>2. Cardinality(FlowsOf[t] \ B) <= Cardinality(FlowsOf[t] \ A)
      BY <1>2, <2>1, FS_Subset
    <2>3. /\ Cardinality(FlowsOf[t] \ A) \in Nat /\ Cardinality(FlowsOf[t] \ B) \in Nat
          /\ n - (IF t \in Cutoff THEN 1 ELSE 0) \in Int
      <3>1. n \in Nat
        BY <1>1
      <3>2. /\ Cardinality(FlowsOf[t] \ A) \in Nat /\ Cardinality(FlowsOf[t] \ B) \in Nat
        BY <1>2
      <3> HIDE DEF n
      <3> QED
        BY <3>1, <3>2
    <2>4. Cardinality(FlowsOf[t] \ B) >= n - (IF t \in Cutoff THEN 1 ELSE 0)
      BY <1>3, <1>4
    <2>5. Cardinality(FlowsOf[t] \ A) >= n - (IF t \in Cutoff THEN 1 ELSE 0)
      BY <2>2, <2>3, <2>4
    <2> QED
      BY <1>3, <2>5
  <1>5. ASSUME NEW A, t \notin Cutoff, Enough(t, A)
        PROVE  FlowsOf[t] \cap A = {}
    <2>1. Cardinality(FlowsOf[t] \ A) >= n
      BY <1>1, <1>3, <1>5
    <2>2. FlowsOf[t] \ A = FlowsOf[t]
      BY <1>1, <1>2, <2>1
    <2> QED
      BY <2>2
  <1>6. ASSUME NEW A, FlowsOf[t] \cap A = {}
        PROVE  Enough(t, A)
    <2>1. FlowsOf[t] \ A = FlowsOf[t]
      BY <1>6
    <2> QED
      BY <1>1, <1>3, <2>1
  <1>7. ASSUME NEW A, t \in Cutoff, FlowsOf[t] \subseteq A
        PROVE  ~Enough(t, A)
    <2>1. FlowsOf[t] \ A = {}
      BY <1>7
    <2>2. Cardinality(FlowsOf[t] \ A) = 0
      BY <2>1, FS_EmptySet
    <2> QED
      BY <1>1, <1>3, <1>7, <2>2
  <1> QED
    BY <1>4, <1>5, <1>6, <1>7

\* A flow is of one transfer.
LEMMA OwnFlows ==
         /\ \A s, t \in Transfer : s # t => FlowsOf[s] \cap FlowsOf[t] = {}
         /\ \A t \in Transfer : FlowsOf[t] \subseteq Flow /\ FlowsOf[t] # {}
         /\ MaxDelay \in Nat \ {0} /\ MaxFailures \in Nat
  BY CapacityAssumption DEF CapacityAssumption

-----------------------------------------------------------------------------
(* The registry. *)

\* What a touch does, whichever flows its component has: the groups that are armed hear
\* of what has landed.
LEMMA Touched ==
  ASSUME CapacityTypes,
         NEW seed, NEW flows \in SUBSET Flow, NEW delays \in [Flow -> 0 .. MaxDelay],
         NEW groups \in [Transfer -> {"none", "armed", "aborted"}],
         GroupsExact(flows, groups), Touch(seed, flows, delays, groups)
  PROVE  /\ live' \in SUBSET Flow /\ delay' \in [Flow -> 0 .. MaxDelay]
         /\ signals' \in [Transfer -> SUBSET {"partial", "done", "abort"}]
         /\ group' \in [Transfer -> {"none", "armed", "aborted"}]
         /\ live' \subseteq flows
         /\ GroupsExact(live, group)'
         /\ \A t \in Transfer :
               /\ groups[t] # "armed" => group'[t] = groups[t] /\ signals'[t] = signals[t]
               /\ groups[t] = "armed" => group'[t] \in {"none", "armed"}
               /\ signals[t] \subseteq signals'[t]
               /\ "abort" \in signals'[t] <=> "abort" \in signals[t]
  <1> DEFINE C == Component(seed, flows)
             arrived == {f \in C : delays[f] = 0}
             left == flows \ arrived
             fired == [t \in Transfer |-> IF groups[t] = "armed" THEN Fired(t, left, arrived) ELSE {}]
  <1>1. /\ live' = left
        /\ signals' = [t \in Transfer |-> signals[t] \cup fired[t]]
        /\ group' = [t \in Transfer |-> IF "done" \in fired[t] THEN "none" ELSE groups[t]]
        /\ \E solved \in [C \ arrived -> 1..MaxDelay] :
               delay' = [f \in Flow |-> IF f \in C \ arrived THEN solved[f] ELSE delays[f]]
    BY DEF Touch
  <1>2. delay' \in [Flow -> 0 .. MaxDelay]
    <2> HIDE DEF C, arrived
    <2> QED
      BY <1>1, OwnFlows
  <1>3. left \subseteq flows
    OBVIOUS
  <1>4. \A t \in Transfer :
          /\ fired[t] \in SUBSET {"partial", "done"}
          /\ groups[t] # "armed" => fired[t] = {}
          /\ groups[t] = "armed" =>
                /\ "partial" \in fired[t] <=> /\ FlowsOf[t] \cap arrived # {}
                                              /\ t \in Cutoff /\ Enough(t, left)
                /\ "done" \in fired[t] <=> FlowsOf[t] \cap arrived # {} /\ FlowsOf[t] \cap left = {}
    BY DEF Fired
  <1>5. \A t \in Transfer : FlowsOf[t] \cap arrived = {} => FlowsOf[t] \cap left = FlowsOf[t] \cap flows
    OBVIOUS
  <1> HIDE DEF C, arrived, left, fired
  <1>6. \A t \in Transfer :
          /\ groups[t] # "armed" => group'[t] = groups[t] /\ signals'[t] = signals[t]
          /\ groups[t] = "armed" => group'[t] = IF "done" \in fired[t] THEN "none" ELSE "armed"
          /\ signals'[t] = signals[t] \cup fired[t]
          /\ signals[t] \subseteq signals'[t]
          /\ "abort" \in signals'[t] <=> "abort" \in signals[t]
    BY <1>1, <1>4
  <1>7. /\ signals' \in [Transfer -> SUBSET {"partial", "done", "abort"}]
        /\ group' \in [Transfer -> {"none", "armed", "aborted"}]
    <2>1. \A t \in Transfer : signals[t] \in SUBSET {"partial", "done", "abort"}
      BY DEF CapacityTypes
    <2>2. \A t \in Transfer : signals[t] \cup fired[t] \in SUBSET {"partial", "done", "abort"}
      BY <1>4, <2>1
    <2> QED
      BY <1>1, <2>2
  <1>8. ASSUME NEW t \in Transfer
        PROVE  /\ group'[t] = "none" => FlowsOf[t] \cap left = {}
               /\ group'[t] = "armed" => FlowsOf[t] \cap left # {} /\ "abort" \notin signals'[t]
               /\ group'[t] = "aborted" => "abort" \in signals'[t]
               /\ "partial" \in signals'[t] => t \in Cutoff /\ Enough(t, left)
               /\ group'[t] = "armed" /\ t \in Cutoff /\ Enough(t, left) => "partial" \in signals'[t]
    <2>1. /\ groups[t] = "none" => FlowsOf[t] \cap flows = {}
          /\ groups[t] = "armed" => FlowsOf[t] \cap flows # {} /\ "abort" \notin signals[t]
          /\ groups[t] = "aborted" => "abort" \in signals[t]
          /\ "partial" \in signals[t] => t \in Cutoff /\ Enough(t, flows)
          /\ groups[t] = "armed" /\ t \in Cutoff /\ Enough(t, flows) => "partial" \in signals[t]
      BY DEF GroupsExact
    <2>2. Enough(t, flows) => Enough(t, left)
      <3>1. FlowsOf[t] \cap left \subseteq flows
        BY <1>3
      <3> QED
        BY <3>1, EnoughFacts
    <2>3. FlowsOf[t] \cap arrived = {} => (Enough(t, left) => Enough(t, flows))
      <3> HAVE FlowsOf[t] \cap arrived = {}
      <3>1. FlowsOf[t] \cap flows \subseteq left
        BY <1>5
      <3> QED
        BY <3>1, EnoughFacts
    <2>4. CASE groups[t] # "armed"
      BY <1>3, <1>6, <2>1, <2>2, <2>4
    <2>5. CASE groups[t] = "armed"
      <3>1. group'[t] = "none" => FlowsOf[t] \cap left = {}
        BY <1>4, <1>6, <2>5
      <3>2. group'[t] = "armed" => FlowsOf[t] \cap left # {} /\ "abort" \notin signals'[t]
        BY <1>4, <1>5, <1>6, <2>1, <2>5
      <3>3. group'[t] # "aborted"
        BY <1>6, <2>5
      <3>4. "partial" \in signals'[t] => t \in Cutoff /\ Enough(t, left)
        BY <1>4, <1>6, <2>1, <2>2, <2>5
      <3>5. t \in Cutoff /\ Enough(t, left) => "partial" \in signals'[t]
        BY <1>4, <1>6, <2>1, <2>3, <2>5
      <3> QED
        BY <3>1, <3>2, <3>3, <3>4, <3>5
    <2> QED
      BY <2>4, <2>5
  <1>9. GroupsExact(live, group)'
    BY <1>1, <1>8 DEF GroupsExact
  <1> QED
    BY <1>1, <1>2, <1>3, <1>6, <1>7, <1>9

\* Whatever timer was awaited before, the one that is awaited now is no later than any
\* finish.
LEMMA Woken ==
  ASSUME NEW timers \in SUBSET Nat, NEW awaited \in timers \cup {NoTimer},
         live' \in SUBSET Flow, delay' \in [Flow -> 0 .. MaxDelay],
         EnsureWake(live', delay', timers, awaited)
  PROVE  /\ pumps' \subseteq Nat /\ wake' \in pumps' \cup {NoTimer}
         /\ Awaited'
  <1> DEFINE D == {delay'[f] : f \in live'}
             first == Min(D)
  <1>1. MaxDelay \in Nat
    BY OwnFlows
  <1>2. \A f \in live' : delay'[f] \in Nat /\ delay'[f] \in D
    BY <1>1
  <1>3. IF live' # {} /\ (awaited = NoTimer \/ first < awaited)
        THEN wake' = first /\ pumps' = timers \cup {first}
        ELSE wake' = awaited /\ pumps' = timers
    BY DEF EnsureWake
  <1>4. CASE live' = {}
    BY <1>3, <1>4 DEF Awaited
  <1>5. CASE live' # {}
    <2>1. D \subseteq Nat /\ D # {}
      BY <1>2, <1>5
    <2>2. first \in Nat /\ \A d \in D : first <= d
      BY <2>1, MinOfNat
    <2>3. \A f \in live' : first <= delay'[f] /\ delay'[f] \in Nat
      BY <1>2, <2>2
    <2> HIDE DEF first
    <2>4. CASE awaited = NoTimer \/ first < awaited
      <3>1. wake' = first /\ pumps' = timers \cup {first}
        BY <1>3, <1>5, <2>4
      <3>2. wake' # NoTimer
        BY <2>2, <3>1 DEF NoTimer
      <3>3. Awaited'
        BY <2>3, <3>1, <3>2 DEF Awaited
      <3> QED
        BY <2>2, <3>1, <3>3
    <2>5. CASE awaited # NoTimer /\ ~(first < awaited)
      <3>1. awaited \in Nat
        BY <2>5
      <3>2. awaited <= first
        BY <2>2, <2>5, <3>1
      <3>3. wake' = awaited /\ pumps' = timers
        BY <1>3, <2>5
      <3> QED
        BY <2>2, <2>3, <3>1, <3>2, <3>3 DEF Awaited, NoTimer
    <2> QED
      BY <2>4, <2>5
  <1> QED
    BY <1>4, <1>5

\* What a transfer learns from a step of another one, or of the registry.
Told(u) ==
    /\ process'[u] = process[u]
    /\ u \in changed' <=> u \in changed
    /\ u \in hit' <=> u \in hit
    /\ group[u] # "armed" => group'[u] = group[u] /\ signals'[u] = signals[u]
    /\ group[u] = "armed" => group'[u] \in {"none", "armed"}
    /\ "abort" \in signals'[u] <=> "abort" \in signals[u]

\* It knows no less than before.
LEMMA ToldKnows ==
  ASSUME GroupsExact(live, group), NEW u \in Transfer, HitKnown(u), Told(u)
  PROVE  HitKnown(u)'
  <1>1. group[u] = "armed" => "abort" \notin signals[u]
    BY DEF GroupsExact
  <1>2. CASE group[u] = "armed"
    BY <1>1, <1>2 DEF HitKnown, Told
  <1>3. CASE group[u] # "armed"
    BY <1>3 DEF HitKnown, Told
  <1> QED
    BY <1>2, <1>3

\* What is dismissed leaves the registry, and the others hear of what has landed.
LEMMA Dismissed ==
  ASSUME CapacityInductive, NEW t \in Transfer, NEW result, Dismiss(t, result)
  PROVE  /\ process' = [process EXCEPT ![t] = result]
         /\ live' \in SUBSET Flow /\ delay' \in [Flow -> 0 .. MaxDelay]
         /\ signals' \in [Transfer -> SUBSET {"partial", "done", "abort"}]
         /\ group' \in [Transfer -> {"none", "armed", "aborted"}]
         /\ pumps' \subseteq Nat /\ wake' \in pumps' \cup {NoTimer}
         /\ Awaited' /\ GroupsExact(live, group)'
         /\ group'[t] = "none"
         /\ \A u \in Transfer : u # t =>
               /\ group[u] # "armed" => group'[u] = group[u] /\ signals'[u] = signals[u]
               /\ group[u] = "armed" => group'[u] \in {"none", "armed"}
               /\ "abort" \in signals'[u] <=> "abort" \in signals[u]
  <1> DEFINE dropped == IF group[t] = "none" THEN {} ELSE FlowsOf[t] \cap live
             neighbours == {g \in live \ dropped : \E f \in dropped : Uses[f] \cap Uses[g] # {}}
             kept == [group EXCEPT ![t] = "none"]
             rest == live \ dropped
  <1>1. /\ process' = [process EXCEPT ![t] = result]
        /\ IF dropped = {}
           THEN group' = kept /\ UNCHANGED <<live, delay, signals, wake, pumps>>
           ELSE /\ Touch(neighbours, rest, delay, kept)
                /\ EnsureWake(live', delay', pumps, wake)
    BY DEF Dismiss
  <1>2. CapacityTypes /\ GroupsExact(live, group) /\ Awaited
    BY DEF CapacityInductive
  <1>3. /\ group \in [Transfer -> {"none", "armed", "aborted"}]
        /\ live \subseteq Flow /\ delay \in [Flow -> 0 .. MaxDelay]
        /\ signals \in [Transfer -> SUBSET {"partial", "done", "abort"}]
        /\ pumps \subseteq Nat /\ wake \in pumps \cup {NoTimer}
    BY <1>2 DEF CapacityTypes
  <1>4. /\ kept \in [Transfer -> {"none", "armed", "aborted"}] /\ kept[t] = "none"
        /\ \A u \in Transfer : u # t => kept[u] = group[u]
    BY <1>3
  <1>5. FlowsOf[t] \cap rest = {} /\ rest \subseteq live
    <2>1. group[t] = "none" => FlowsOf[t] \cap live = {}
      BY <1>2 DEF GroupsExact
    <2> QED
      BY <2>1
  <1>6. \A u \in Transfer : u # t => FlowsOf[u] \cap rest = FlowsOf[u] \cap live
    BY OwnFlows
  <1>7. GroupsExact(rest, kept)
    <2>1. ASSUME NEW u \in Transfer
          PROVE  Enough(u, live) => Enough(u, rest)
      <3>1. FlowsOf[u] \cap rest \subseteq live
        BY <1>5
      <3> QED
        BY <3>1, EnoughFacts
    <2>2. ASSUME NEW u \in Transfer, u # t
          PROVE  Enough(u, rest) => Enough(u, live)
      <3>1. FlowsOf[u] \cap live \subseteq rest
        BY <1>6, <2>2
      <3> QED
        BY <3>1, EnoughFacts
    <2> HIDE DEF kept, rest
    <2>3. ASSUME NEW u \in Transfer
          PROVE  /\ kept[u] = "none" => FlowsOf[u] \cap rest = {}
                 /\ kept[u] = "armed" => FlowsOf[u] \cap rest # {} /\ "abort" \notin signals[u]
                 /\ kept[u] = "aborted" => "abort" \in signals[u]
                 /\ "partial" \in signals[u] => u \in Cutoff /\ Enough(u, rest)
                 /\ kept[u] = "armed" /\ u \in Cutoff /\ Enough(u, rest) => "partial" \in signals[u]
      <3>1. CASE u = t
        BY <1>2, <1>4, <1>5, <2>1, <3>1 DEF GroupsExact
      <3>2. CASE u # t
        BY <1>2, <1>4, <1>6, <2>1, <2>2, <3>2 DEF GroupsExact
      <3> QED
        BY <3>1, <3>2
    <2> QED
      BY <2>3 DEF GroupsExact
  <1>8. CASE dropped = {}
    <2>1. group' = kept /\ UNCHANGED <<live, delay, signals, wake, pumps>>
      BY <1>1, <1>8
    <2>2. rest = live
      BY <1>8
    <2> HIDE DEF kept, rest, dropped
    <2>3. GroupsExact(live, group)'
      BY <1>7, <2>1, <2>2 DEF GroupsExact
    <2>4. Awaited'
      BY <1>2, <2>1 DEF Awaited
    <2> QED
      BY <1>1, <1>3, <1>4, <2>1, <2>3, <2>4
  <1>9. CASE dropped # {}
    <2>1. Touch(neighbours, rest, delay, kept) /\ EnsureWake(live', delay', pumps, wake)
      BY <1>1, <1>9
    <2>2. rest \in SUBSET Flow
      BY <1>3, <1>5
    <2> HIDE DEF kept, rest, dropped, neighbours
    <2> DEFINE Hears(u) == /\ kept[u] # "armed" => group'[u] = kept[u] /\ signals'[u] = signals[u]
                           /\ kept[u] = "armed" => group'[u] \in {"none", "armed"}
                           /\ signals[u] \subseteq signals'[u]
                           /\ "abort" \in signals'[u] <=> "abort" \in signals[u]
    <2>3. /\ live' \in SUBSET Flow /\ delay' \in [Flow -> 0 .. MaxDelay]
          /\ signals' \in [Transfer -> SUBSET {"partial", "done", "abort"}]
          /\ group' \in [Transfer -> {"none", "armed", "aborted"}]
          /\ live' \subseteq rest
          /\ GroupsExact(live, group)'
          /\ \A u \in Transfer : Hears(u)
      <3>1. CapacityTypes /\ delay \in [Flow -> 0 .. MaxDelay]
            /\ kept \in [Transfer -> {"none", "armed", "aborted"}]
        BY <1>2, <1>3, <1>4
      <3> QED
        BY <1>7, <2>1, <2>2, <3>1, Touched
    <2>4. pumps' \subseteq Nat /\ wake' \in pumps' \cup {NoTimer} /\ Awaited'
      BY <1>3, <2>1, <2>3, Woken
    <2>5. group'[t] = "none"
      BY <1>4, <2>3
    <2>6. \A u \in Transfer : u # t =>
               /\ group[u] # "armed" => group'[u] = group[u] /\ signals'[u] = signals[u]
               /\ group[u] = "armed" => group'[u] \in {"none", "armed"}
               /\ "abort" \in signals'[u] <=> "abort" \in signals[u]
      BY <1>4, <2>3
    <2> QED
      BY <1>1, <2>3, <2>4, <2>5, <2>6
  <1> QED
    BY <1>8, <1>9

-----------------------------------------------------------------------------
(* The steps. *)

\* A transfer that ends keeps the invariant when its result is the right one.
LEMMA EndKeeps ==
  ASSUME CapacityInductive, NEW t \in Transfer, NEW result \in {"whole", "failed"},
         result = "failed" <=> t \in hit,
         Dismiss(t, result), UNCHANGED <<changed, failures, hit>>
  PROVE  CapacityInductive'
  <1>1. CapacityTypes /\ GroupsExact(live, group) /\ \A u \in Transfer : HitKnown(u)
    BY DEF CapacityInductive
  <1>2. /\ process' = [process EXCEPT ![t] = result]
        /\ live' \in SUBSET Flow /\ delay' \in [Flow -> 0 .. MaxDelay]
        /\ signals' \in [Transfer -> SUBSET {"partial", "done", "abort"}]
        /\ group' \in [Transfer -> {"none", "armed", "aborted"}]
        /\ pumps' \subseteq Nat /\ wake' \in pumps' \cup {NoTimer}
        /\ Awaited' /\ GroupsExact(live, group)'
        /\ group'[t] = "none"
        /\ \A u \in Transfer : u # t =>
               /\ group[u] # "armed" => group'[u] = group[u] /\ signals'[u] = signals[u]
               /\ group[u] = "armed" => group'[u] \in {"none", "armed"}
               /\ "abort" \in signals'[u] <=> "abort" \in signals[u]
    BY Dismissed
  <1>3. /\ process'[t] = result /\ \A u \in Transfer : u # t => process'[u] = process[u]
        /\ process' \in [Transfer -> {"idle", "settling", "waiting", "straggling", "whole", "failed"}]
    BY <1>1, <1>2 DEF CapacityTypes
  <1>4. CapacityTypes'
    BY <1>1, <1>2, <1>3 DEF CapacityTypes
  <1>5. HitKnown(t)'
    BY <1>2, <1>3 DEF HitKnown
  <1>6. ASSUME NEW u \in Transfer, u # t PROVE HitKnown(u)'
    <2>1. Told(u)
      BY <1>2, <1>3, <1>6 DEF Told
    <2> QED
      BY <1>1, <2>1, ToldKnows
  <1>7. \A u \in Transfer : HitKnown(u)'
    BY <1>5, <1>6
  <1> QED
    BY <1>2, <1>4, <1>7 DEF CapacityInductive

\* A transfer starts with nothing known of it.
LEMMA StartKeeps ==
  ASSUME CapacityInductive, NEW t \in Transfer, StartTransfer(t)
  PROVE  CapacityInductive'
  <1>1. CapacityTypes /\ Awaited /\ GroupsExact(live, group) /\ \A u \in Transfer : HitKnown(u)
    BY DEF CapacityInductive
  <1>2. /\ process[t] = "idle" /\ process' = [process EXCEPT ![t] = "settling"]
        /\ UNCHANGED <<changed, group, signals, live, delay, pumps, wake, failures, hit>>
    BY DEF StartTransfer
  <1>3. /\ process'[t] = "settling" /\ \A u \in Transfer : u # t => process'[u] = process[u]
        /\ process' \in [Transfer -> {"idle", "settling", "waiting", "straggling", "whole", "failed"}]
    BY <1>1, <1>2 DEF CapacityTypes
  <1>4. CapacityTypes' /\ Awaited' /\ GroupsExact(live, group)'
    BY <1>1, <1>2, <1>3 DEF CapacityTypes, Awaited, GroupsExact
  <1>5. \A u \in Transfer : HitKnown(u)'
    BY <1>1, <1>2, <1>3 DEF HitKnown
  <1> QED
    BY <1>4, <1>5 DEF CapacityInductive

\* A transfer that arms has all its flows ahead of it.
LEMMA SettleKeeps ==
  ASSUME CapacityInductive, NEW t \in Transfer, Settle(t)
  PROVE  CapacityInductive'
  <1>1. CapacityTypes /\ Awaited /\ GroupsExact(live, group) /\ \A u \in Transfer : HitKnown(u)
    BY DEF CapacityInductive
  <1>2. process[t] = "settling" /\ UNCHANGED <<changed, failures, hit>>
    BY DEF Settle
  <1>3. /\ group \in [Transfer -> {"none", "armed", "aborted"}]
        /\ live \subseteq Flow /\ delay \in [Flow -> 0 .. MaxDelay]
        /\ pumps \subseteq Nat /\ wake \in pumps \cup {NoTimer}
    BY <1>1 DEF CapacityTypes
  <1>4. group[t] = "none" /\ signals[t] = {} /\ (t \in hit <=> t \in changed)
    BY <1>1, <1>2 DEF HitKnown
  <1>5. CASE t \in changed
    <2>1. /\ process' = [process EXCEPT ![t] = "failed"]
          /\ UNCHANGED <<changed, group, signals, live, delay, pumps, wake, failures, hit>>
      BY <1>2, <1>5 DEF Settle
    <2>2. /\ process'[t] = "failed" /\ \A u \in Transfer : u # t => process'[u] = process[u]
          /\ process' \in [Transfer -> {"idle", "settling", "waiting", "straggling", "whole", "failed"}]
      BY <1>1, <2>1 DEF CapacityTypes
    <2>3. CapacityTypes' /\ Awaited' /\ GroupsExact(live, group)'
      BY <1>1, <2>1, <2>2 DEF CapacityTypes, Awaited, GroupsExact
    <2>4. \A u \in Transfer : HitKnown(u)'
      BY <1>1, <1>4, <1>5, <2>1, <2>2 DEF HitKnown
    <2> QED
      BY <2>3, <2>4 DEF CapacityInductive
  <1>6. CASE t \notin changed
    <2> DEFINE all == live \cup FlowsOf[t]
               set == [f \in Flow |-> IF f \in FlowsOf[t] THEN MaxDelay ELSE delay[f]]
               with == [group EXCEPT ![t] = "armed"]
    <2>1. /\ process' = [process EXCEPT ![t] = "waiting"]
          /\ Touch(FlowsOf[t], all, set, with)
          /\ EnsureWake(live', delay', pumps, wake)
      BY <1>6 DEF Settle
    <2>2. /\ with \in [Transfer -> {"none", "armed", "aborted"}] /\ with[t] = "armed"
          /\ \A u \in Transfer : u # t => with[u] = group[u]
      BY <1>3
    <2>3. all \in SUBSET Flow /\ set \in [Flow -> 0 .. MaxDelay]
      BY <1>3, OwnFlows
    <2>4. FlowsOf[t] \cap all = FlowsOf[t] /\ FlowsOf[t] # {} /\ FlowsOf[t] \subseteq all
      BY OwnFlows
    <2>5. \A u \in Transfer : u # t => FlowsOf[u] \cap all = FlowsOf[u] \cap live
      BY OwnFlows
    <2>6. \A u \in Transfer : u # t => (Enough(u, all) <=> Enough(u, live))
      <3> TAKE u \in Transfer
      <3> HAVE u # t
      <3>1. FlowsOf[u] \cap all \subseteq live /\ FlowsOf[u] \cap live \subseteq all
        BY <2>5
      <3> HIDE DEF all
      <3> QED
        BY <3>1, EnoughFacts
    <2> HIDE DEF all, set, with
    <2> DEFINE Hears(u) == /\ with[u] # "armed" => group'[u] = with[u] /\ signals'[u] = signals[u]
                           /\ with[u] = "armed" => group'[u] \in {"none", "armed"}
                           /\ signals[u] \subseteq signals'[u]
                           /\ "abort" \in signals'[u] <=> "abort" \in signals[u]
    <2>7. GroupsExact(all, with)
      <3>1. ASSUME NEW u \in Transfer
            PROVE  /\ with[u] = "none" => FlowsOf[u] \cap all = {}
                   /\ with[u] = "armed" => FlowsOf[u] \cap all # {} /\ "abort" \notin signals[u]
                   /\ with[u] = "aborted" => "abort" \in signals[u]
                   /\ "partial" \in signals[u] => u \in Cutoff /\ Enough(u, all)
                   /\ with[u] = "armed" /\ u \in Cutoff /\ Enough(u, all) => "partial" \in signals[u]
        <4>1. CASE u = t
          <5>1. u \in Cutoff => ~Enough(u, all)
            BY <2>4, <4>1, EnoughFacts
          <5> QED
            BY <1>4, <2>2, <2>4, <4>1, <5>1
        <4>2. CASE u # t
          BY <1>1, <2>2, <2>5, <2>6, <4>2 DEF GroupsExact
        <4> QED
          BY <4>1, <4>2
      <3> QED
        BY <3>1 DEF GroupsExact
    <2>8. /\ live' \in SUBSET Flow /\ delay' \in [Flow -> 0 .. MaxDelay]
          /\ signals' \in [Transfer -> SUBSET {"partial", "done", "abort"}]
          /\ group' \in [Transfer -> {"none", "armed", "aborted"}]
          /\ live' \subseteq all
          /\ GroupsExact(live, group)'
          /\ \A u \in Transfer : Hears(u)
      <3>1. CapacityTypes /\ all \in SUBSET Flow /\ set \in [Flow -> 0 .. MaxDelay]
            /\ with \in [Transfer -> {"none", "armed", "aborted"}]
            /\ Touch(FlowsOf[t], all, set, with)
        BY <1>1, <2>1, <2>2, <2>3
      <3> QED
        BY <2>7, <3>1, Touched
    <2>9. pumps' \subseteq Nat /\ wake' \in pumps' \cup {NoTimer} /\ Awaited'
      BY <1>3, <2>1, <2>8, Woken
    <2>10. /\ process'[t] = "waiting" /\ \A u \in Transfer : u # t => process'[u] = process[u]
           /\ process' \in [Transfer -> {"idle", "settling", "waiting", "straggling", "whole", "failed"}]
      BY <1>1, <2>1 DEF CapacityTypes
    <2>11. CapacityTypes'
      BY <1>1, <1>2, <2>8, <2>9, <2>10 DEF CapacityTypes
    <2>12. HitKnown(t)'
      BY <1>2, <1>4, <1>6, <2>8, <2>10 DEF HitKnown
    <2>13. ASSUME NEW u \in Transfer, u # t PROVE HitKnown(u)'
      <3>1. Told(u)
        BY <1>2, <2>2, <2>8, <2>10, <2>13 DEF Told
      <3> QED
        BY <1>1, <3>1, ToldKnows
    <2>14. \A u \in Transfer : HitKnown(u)'
      BY <2>12, <2>13
    <2> QED
      BY <2>8, <2>9, <2>11, <2>14 DEF CapacityInductive
  <1> QED
    BY <1>5, <1>6

\* A transfer that was aborted before it was done fails, and it was hit.
LEMMA FinishKeeps ==
  ASSUME CapacityInductive, NEW t \in Transfer, Finish(t)
  PROVE  CapacityInductive'
  <1>1. /\ process[t] = "waiting" /\ t \notin Cutoff
        /\ Dismiss(t, IF "abort" \in signals[t] THEN "failed" ELSE "whole")
        /\ UNCHANGED <<changed, failures, hit>>
    BY DEF Finish
  <1>2. "partial" \notin signals[t] /\ (t \in hit <=> "abort" \in signals[t])
    BY <1>1 DEF CapacityInductive, GroupsExact, HitKnown
  <1>3. CASE "abort" \in signals[t]
    BY <1>1, <1>2, <1>3, EndKeeps
  <1>4. CASE "abort" \notin signals[t]
    BY <1>1, <1>2, <1>4, EndKeeps
  <1> QED
    BY <1>3, <1>4

\* With a cutoff, what matters is whether enough had landed.
LEMMA FinishCutoffKeeps ==
  ASSUME CapacityInductive, NEW t \in Transfer, FinishCutoff(t)
  PROVE  CapacityInductive'
  <1>1. /\ process[t] = "waiting" /\ t \in Cutoff
        /\ signals[t] \cap {"partial", "abort"} # {}
        /\ \/ "partial" \notin signals[t] /\ Dismiss(t, "failed")
           \/ "partial" \in signals[t] /\ Dismiss(t, "whole")
           \/ /\ "partial" \in signals[t] /\ process' = [process EXCEPT ![t] = "straggling"]
              /\ UNCHANGED <<group, signals, live, delay, pumps, wake>>
        /\ UNCHANGED <<changed, failures, hit>>
    BY DEF FinishCutoff
  <1>2. CapacityTypes /\ Awaited /\ GroupsExact(live, group) /\ \A u \in Transfer : HitKnown(u)
    BY DEF CapacityInductive
  <1>3. t \in hit <=> "partial" \notin signals[t]
    BY <1>1, <1>2 DEF HitKnown
  <1>4. CASE "partial" \notin signals[t] /\ Dismiss(t, "failed")
    BY <1>1, <1>3, <1>4, EndKeeps
  <1>5. CASE "partial" \in signals[t] /\ Dismiss(t, "whole")
    BY <1>1, <1>3, <1>5, EndKeeps
  <1>6. CASE /\ "partial" \in signals[t] /\ process' = [process EXCEPT ![t] = "straggling"]
             /\ UNCHANGED <<group, signals, live, delay, pumps, wake>>
    <2>1. /\ process'[t] = "straggling" /\ \A u \in Transfer : u # t => process'[u] = process[u]
          /\ process' \in [Transfer -> {"idle", "settling", "waiting", "straggling", "whole", "failed"}]
      BY <1>2, <1>6 DEF CapacityTypes
    <2>2. CapacityTypes' /\ Awaited' /\ GroupsExact(live, group)'
      BY <1>1, <1>2, <1>6, <2>1 DEF CapacityTypes, Awaited, GroupsExact
    <2>3. \A u \in Transfer : HitKnown(u)'
      BY <1>1, <1>2, <1>3, <1>6, <2>1 DEF HitKnown
    <2> QED
      BY <2>2, <2>3 DEF CapacityInductive
  <1> QED
    BY <1>1, <1>4, <1>5, <1>6

\* A straggler changes nothing of the result.
LEMMA StragglerKeeps ==
  ASSUME CapacityInductive, NEW t \in Transfer, FinishStraggler(t)
  PROVE  CapacityInductive'
  <1>1. /\ process[t] = "straggling" /\ Dismiss(t, "whole") /\ UNCHANGED <<changed, failures, hit>>
    BY DEF FinishStraggler
  <1>2. t \notin hit
    BY <1>1 DEF CapacityInductive, HitKnown
  <1> QED
    BY <1>1, <1>2, EndKeeps

\* A timer that fires, the awaited one or one that is too early, arms the next.
LEMMA PumpKeeps ==
  ASSUME CapacityInductive, Pump
  PROVE  CapacityInductive'
  <1> DEFINE due == {f \in live : delay[f] = 0}
             Hears(u) == /\ group[u] # "armed" => group'[u] = group[u] /\ signals'[u] = signals[u]
                         /\ group[u] = "armed" => group'[u] \in {"none", "armed"}
                         /\ signals[u] \subseteq signals'[u]
                         /\ "abort" \in signals'[u] <=> "abort" \in signals[u]
  <1>1. /\ Touch(due, live, delay, group)
        /\ EnsureWake(live', delay', pumps \ {0}, NoTimer)
        /\ UNCHANGED <<process, changed, failures, hit>>
    BY DEF Pump
  <1>2. CapacityTypes /\ GroupsExact(live, group) /\ \A u \in Transfer : HitKnown(u)
    BY DEF CapacityInductive
  <1>3. /\ group \in [Transfer -> {"none", "armed", "aborted"}]
        /\ live \in SUBSET Flow /\ delay \in [Flow -> 0 .. MaxDelay] /\ pumps \ {0} \in SUBSET Nat
        /\ NoTimer \in (pumps \ {0}) \cup {NoTimer}
    BY <1>2 DEF CapacityTypes
  <1>4. /\ live' \in SUBSET Flow /\ delay' \in [Flow -> 0 .. MaxDelay]
        /\ signals' \in [Transfer -> SUBSET {"partial", "done", "abort"}]
        /\ group' \in [Transfer -> {"none", "armed", "aborted"}]
        /\ live' \subseteq live
        /\ GroupsExact(live, group)'
        /\ \A u \in Transfer : Hears(u)
    <2> HIDE DEF due
    <2> QED
      BY <1>1, <1>2, <1>3, Touched
  <1>5. pumps' \subseteq Nat /\ wake' \in pumps' \cup {NoTimer} /\ Awaited'
    BY <1>1, <1>3, <1>4, Woken
  <1>6. CapacityTypes'
    BY <1>1, <1>2, <1>4, <1>5 DEF CapacityTypes
  <1>7. ASSUME NEW u \in Transfer PROVE HitKnown(u)'
    <2>1. Told(u)
      BY <1>1, <1>4 DEF Told
    <2> QED
      BY <1>2, <2>1, ToldKnows
  <1> QED
    BY <1>4, <1>5, <1>6, <1>7 DEF CapacityInductive

\* All that is timed comes nearer alike.
LEMMA TickKeeps ==
  ASSUME CapacityInductive, Tick
  PROVE  CapacityInductive'
  <1>1. /\ 0 \notin pumps
        /\ pumps' = {n - 1 : n \in pumps} /\ wake' = Nearer(wake)
        /\ delay' = [f \in Flow |-> IF f \in live THEN Nearer(delay[f]) ELSE delay[f]]
        /\ UNCHANGED <<process, changed, group, signals, live, failures, hit>>
    BY DEF Tick
  <1>2. CapacityTypes /\ Awaited /\ GroupsExact(live, group) /\ \A u \in Transfer : HitKnown(u)
    BY DEF CapacityInductive
  <1>3. /\ live \subseteq Flow /\ delay \in [Flow -> 0 .. MaxDelay] /\ MaxDelay \in Nat
        /\ pumps \subseteq Nat /\ wake \in pumps \cup {NoTimer}
    BY <1>2, OwnFlows DEF CapacityTypes
  <1>4. \A n \in pumps : n - 1 \in Nat /\ n > 0
    <2>1. \A n \in pumps : n \in Nat /\ n # 0
      BY <1>1, <1>3
    <2> QED
      BY <2>1
  <1>5. pumps' \subseteq Nat
    BY <1>1, <1>4
  <1>6. \/ wake = NoTimer /\ wake' = NoTimer
        \/ wake \in pumps /\ wake' = wake - 1 /\ wake \in Nat /\ wake' # NoTimer
    BY <1>1, <1>3, <1>4 DEF Nearer, NoTimer
  <1>7. wake' \in pumps' \cup {NoTimer}
    BY <1>1, <1>6
  <1>8. delay' \in [Flow -> 0 .. MaxDelay]
    <2>1. \A n \in 0 .. MaxDelay : Nearer(n) \in 0 .. MaxDelay
      BY <1>3 DEF Nearer
    <2> QED
      BY <1>1, <1>3, <2>1
  <1>9. Awaited'
    <2> SUFFICES ASSUME NEW f \in live PROVE wake' # NoTimer /\ wake' <= delay'[f]
      BY <1>1 DEF Awaited
    <2>1. wake # NoTimer /\ wake <= delay[f] /\ delay[f] \in Nat /\ delay'[f] = Nearer(delay[f])
      BY <1>1, <1>2, <1>3 DEF Awaited
    <2>2. wake \in Nat /\ wake > 0 /\ wake' = wake - 1 /\ wake' # NoTimer
      BY <1>4, <1>6, <2>1
    <2> QED
      BY <2>1, <2>2 DEF Nearer
  <1>10. CapacityTypes'
    BY <1>1, <1>2, <1>5, <1>7, <1>8 DEF CapacityTypes
  <1>11. GroupsExact(live, group)' /\ \A u \in Transfer : HitKnown(u)'
    BY <1>1, <1>2 DEF GroupsExact, HitKnown
  <1> QED
    BY <1>9, <1>10, <1>11 DEF CapacityInductive

\* A failure aborts the groups that watch its worker, and hits the transfers of which
\* not enough has landed.
LEMMA FailKeeps ==
  ASSUME CapacityInductive, NEW w \in Worker, Fail(w)
  PROVE  CapacityInductive'
  <1> DEFINE watching == {t \in Transfer : w \in Watched[t]}
             running == {t \in watching : process[t] \in {"settling", "waiting"}}
             cut == {t \in watching : group[t] = "armed"}
  <1>1. /\ failures < MaxFailures /\ failures' = failures + 1
        /\ changed' = changed \cup running
        /\ group' = [t \in Transfer |-> IF t \in cut THEN "aborted" ELSE group[t]]
        /\ signals' = [t \in Transfer |-> IF t \in cut THEN signals[t] \cup {"abort"}
                                                          ELSE signals[t]]
        /\ hit' = hit \cup {t \in running : process[t] = "settling" \/ ~Enough(t, live)}
        /\ UNCHANGED <<process, live, delay, pumps, wake>>
    BY DEF Fail
  <1>2. CapacityTypes /\ Awaited /\ GroupsExact(live, group) /\ \A u \in Transfer : HitKnown(u)
    BY DEF CapacityInductive
  <1>3. \A t \in Transfer :
          /\ t \in running <=> t \in watching /\ process[t] \in {"settling", "waiting"}
          /\ t \in cut <=> t \in watching /\ group[t] = "armed"
    OBVIOUS
  <1>4. running \subseteq Transfer
    OBVIOUS
  <1> HIDE DEF watching, running, cut
  <1>5. \A t \in Transfer :
          /\ group'[t] = IF t \in cut THEN "aborted" ELSE group[t]
          /\ signals'[t] = IF t \in cut THEN signals[t] \cup {"abort"} ELSE signals[t]
          /\ t \in changed' <=> t \in changed \/ t \in running
          /\ t \in hit' <=> \/ t \in hit
                            \/ t \in running /\ (process[t] = "settling" \/ ~Enough(t, live))
    BY <1>1
  <1>6. CapacityTypes'
    <2>1. failures' \in 0 .. MaxFailures
      BY <1>1, <1>2, OwnFlows DEF CapacityTypes
    <2>2. changed' \subseteq Transfer /\ hit' \subseteq Transfer
      BY <1>1, <1>2, <1>4 DEF CapacityTypes
    <2>3. group' \in [Transfer -> {"none", "armed", "aborted"}]
      BY <1>1, <1>2 DEF CapacityTypes
    <2>4. signals' \in [Transfer -> SUBSET {"partial", "done", "abort"}]
      <3>1. \A t \in Transfer : signals[t] \in SUBSET {"partial", "done", "abort"}
        BY <1>2 DEF CapacityTypes
      <3>2. \A t \in Transfer : signals'[t] \in SUBSET {"partial", "done", "abort"}
        BY <1>5, <3>1
      <3> QED
        BY <1>1, <3>2
    <2> QED
      BY <1>1, <1>2, <2>1, <2>2, <2>3, <2>4 DEF CapacityTypes
  <1>7. Awaited'
    BY <1>1, <1>2 DEF Awaited
  <1>8. GroupsExact(live, group)'
    BY <1>1, <1>2, <1>3, <1>5 DEF GroupsExact
  <1>9. ASSUME NEW t \in Transfer PROVE HitKnown(t)'
    <2>1. HitKnown(t) /\ process'[t] = process[t]
      BY <1>1, <1>2
    <2>2. CASE process[t] = "waiting"
      <3>1. /\ group[t] = "none" => Enough(t, live)
            /\ group[t] = "armed" => "abort" \notin signals[t]
            /\ group[t] = "aborted" => "abort" \in signals[t]
            /\ "partial" \in signals[t] => Enough(t, live)
            /\ group[t] \in {"none", "armed", "aborted"}
        BY <1>2, EnoughFacts DEF GroupsExact, CapacityTypes
      <3>2. group[t] = "armed" /\ Enough(t, live) => "partial" \in signals[t]
        BY <1>2, EnoughFacts DEF GroupsExact
      <3>3. t \in hit <=> "abort" \in signals[t] /\ "partial" \notin signals[t]
        BY <2>1, <2>2 DEF HitKnown
      <3>4. CASE t \in cut
        <4>1. group[t] = "armed" /\ t \in running
          BY <1>3, <2>2, <3>4
        <4>2. t \in hit' <=> ~Enough(t, live)
          BY <1>5, <2>2, <3>1, <3>3, <4>1
        <4>3. "abort" \in signals'[t] /\ ("partial" \in signals'[t] <=> "partial" \in signals[t])
          <5>1. signals'[t] = signals[t] \cup {"abort"}
            BY <1>5, <3>4
          <5> QED
            BY <5>1
        <4>4. t \in hit' <=> "abort" \in signals'[t] /\ "partial" \notin signals'[t]
          BY <3>1, <3>2, <4>1, <4>2, <4>3
        <4> QED
          BY <2>1, <2>2, <4>4 DEF HitKnown
      <3>5. CASE t \notin cut
        <4>1. signals'[t] = signals[t]
          BY <1>5, <3>5
        <4>2. t \in running => Enough(t, live) \/ t \in hit
          BY <1>3, <3>1, <3>3, <3>5
        <4>3. t \in hit' <=> t \in hit
          BY <1>5, <2>2, <4>2
        <4> QED
          BY <2>1, <2>2, <3>3, <4>1, <4>3 DEF HitKnown
      <3> QED
        BY <3>4, <3>5
    <2>3. CASE process[t] # "waiting"
      <3>1. process[t] \in {"idle", "settling", "whole", "failed"} => t \notin cut
        BY <1>3, <2>1 DEF HitKnown
      <3>2. process[t] = "settling" => (t \in changed' <=> t \in hit')
        BY <1>5, <2>1 DEF HitKnown
      <3>3. process[t] # "settling" => (t \in changed' <=> t \in changed) /\ (t \in hit' <=> t \in hit)
        BY <1>3, <1>5, <2>3
      <3> QED
        BY <1>5, <2>1, <2>3, <3>1, <3>2, <3>3 DEF HitKnown
    <2> QED
      BY <2>2, <2>3
  <1> QED
    BY <1>6, <1>7, <1>8, <1>9 DEF CapacityInductive

-----------------------------------------------------------------------------
(* The theorems. *)

\* At the start there is neither a flow nor a timer.
LEMMA InitInductive ==
  ASSUME CapacityInit
  PROVE  CapacityInductive
  <1>1. CapacityTypes
    BY OwnFlows DEF CapacityInit, CapacityTypes, NoTimer
  <1>2. Awaited
    BY DEF CapacityInit, Awaited
  <1>3. GroupsExact(live, group)
    BY DEF CapacityInit, GroupsExact
  <1>4. \A t \in Transfer : HitKnown(t)
    BY DEF CapacityInit, HitKnown
  <1> QED
    BY <1>1, <1>2, <1>3, <1>4 DEF CapacityInductive

\* Every step keeps the invariant.
LEMMA NextKeeps ==
  ASSUME CapacityInductive, [CapacityNext]_capacityVars
  PROVE  CapacityInductive'
  <1>1. CASE UNCHANGED capacityVars
    BY <1>1 DEF capacityVars, CapacityInductive, CapacityTypes, Awaited, GroupsExact, HitKnown
  <1>2. CASE CapacityNext
    BY <1>2, PumpKeeps, TickKeeps, StartKeeps, SettleKeeps, FinishKeeps, FinishCutoffKeeps,
       StragglerKeeps, FailKeeps DEF CapacityNext
  <1> QED
    BY <1>1, <1>2

\* The inductive invariant holds, for any transfers and flows that share any resources.
THEOREM CapacityInvariance == CapacitySpec => []CapacityInductive
  <1>1. CapacityInit => CapacityInductive
    BY InitInductive
  <1>2. CapacityInductive /\ [CapacityNext]_capacityVars => CapacityInductive'
    BY NextKeeps
  <1> QED
    BY <1>1, <1>2, PTL DEF CapacitySpec

\* A live flow always has a timer that fires when it is due or earlier, a transfer that was
\* hit before enough of it had landed never reports success and no other fails, and one
\* that is over holds no bandwidth.
THEOREM TransfersCorrect == CapacitySpec => []TransfersExact
  <1>1. CapacityInductive => TransfersExact
    <2> SUFFICES ASSUME CapacityInductive PROVE TransfersExact
      OBVIOUS
    <2>1. OnTime
      BY DEF CapacityInductive, CapacityTypes, Awaited, OnTime
    <2>2. HitNeverWhole
      BY DEF CapacityInductive, HitKnown, HitNeverWhole
    <2>3. NothingLeft
      BY DEF CapacityInductive, HitKnown, GroupsExact, NothingLeft
    <2> QED
      BY <2>1, <2>2, <2>3 DEF TransfersExact
  <1>2. CapacitySpec => []CapacityInductive
    BY CapacityInvariance
  <1> QED
    BY <1>1, <1>2, PTL

-----------------------------------------------------------------------------
(***************************************************************************)
(* TraceReplay, for any traces, times of iterations and of recoveries.     *)
(***************************************************************************)

ReplayTypes ==
  /\ trace \in Traces /\ clock \in Nat /\ step \in Int /\ landed \in Int /\ boundary \in Int
  /\ flush # <<>> => flush[1] \in Int
  /\ \/ outage = NoOutage
     \/ /\ outage = [kill |-> outage.kill, step |-> outage.step, end |-> outage.end]
        /\ outage.kill \in Nat /\ outage.step \in Int
  /\ account \in [restarts : Nat, resets : Nat, lost : Int, recovery : Int]
  /\ report \in [useful : Int, lost : Int, recovery : Int]

\* The events up to now, and those of this instant alone may be missing.
Delivery ==
  /\ delivered \subseteq Events
  /\ \A event \in delivered : event.t <= clock
  /\ \A event \in Events : event.t < clock => event \in delivered

\* Each instant that struck a running or recovering job was a restart, a reset, or is pending.
Instants == {event.t : event \in delivered}
CountedOnce ==
  /\ IsFiniteSet(Instants)
  /\ ~Over => account.restarts + account.resets + Pending = Cardinality(Instants)

\* The time of so many iterations.
Spent(n) == IterationTime * n

\* The time up to the present iteration, or to the kill that is pending, is that of the
\* iterations that are useful or lost, of the recoveries, and of an iteration that was cut
\* off for each kill.
BooksInTime ==
  /\ boundary # Never => clock <= boundary /\ boundary <= clock + IterationTime
  /\ ~Over =>
       LET kept == IF outage = NoOutage THEN step ELSE outage.step
           until == IF outage = NoOutage THEN boundary - IterationTime ELSE outage.kill
           counted == Spent(kept + account.lost)
       IN  /\ counted <= until - account.recovery
           /\ until - account.recovery
                <= counted + Spent(account.restarts + Pending)

ReplayInductive ==
  ReplayTypes /\ Delivery /\ CountedOnce /\ BooksInTime /\ WindowAccounted

\* The assumption on the constants, in the form that the proofs use.
LEMMA ReplayBounds ==
  /\ IterationTime \in Nat \ {0} /\ Window \in Nat /\ FlushTime \in Nat
  /\ trace \in Traces => \A event \in Events : event.t \in Nat
  <1>1. IterationTime \in Nat \ {0} /\ Window \in Nat /\ FlushTime \in Nat
    BY ReplayAssumption DEF ReplayAssumption
  <1>2. ASSUME trace \in Traces, NEW event \in Events PROVE event.t \in Nat
    BY <1>2, ReplayAssumption DEF ReplayAssumption, Events, Normalized, TargetsOf
  <1> QED
    BY <1>1, <1>2

\* There is one event for an instant.
LEMMA OneEvent ==
  ASSUME NEW d \in Events, NEW e \in Events, d.t = e.t
  PROVE  d = e
  <1>1. PICK i \in TargetsOf(trace) :
          d = [t |-> trace[i].t, targets |-> {k \in TargetsOf(trace) : trace[k].t = trace[i].t}]
    BY DEF Events, Normalized
  <1>2. PICK j \in TargetsOf(trace) :
          e = [t |-> trace[j].t, targets |-> {k \in TargetsOf(trace) : trace[k].t = trace[j].t}]
    BY DEF Events, Normalized
  <1>3. trace[i].t = trace[j].t
    BY <1>1, <1>2
  <1> QED
    BY <1>1, <1>2, <1>3

\* The types of single numbers.
LEMMA Numbers ==
  ASSUME ReplayTypes
  PROVE  /\ clock \in Nat /\ step \in Int /\ landed \in Int /\ boundary \in Int
         /\ account.restarts \in Nat /\ account.resets \in Nat /\ Pending \in Nat
         /\ account.lost \in Int /\ account.recovery \in Int
         /\ outage # NoOutage => outage.kill \in Nat /\ outage.step \in Int
  BY DEF ReplayTypes, Pending

\* An iteration more.
LEMMA OneMore ==
  ASSUME NEW x \in Int
  PROVE  Spent(x + 1) = Spent(x) + IterationTime /\ Spent(x) \in Int
  <1>1. IterationTime \in Nat
    BY ReplayBounds
  <1> QED
    BY <1>1 DEF Spent

\* No iterations take no time.
LEMMA NoTime == Spent(0) = 0
  <1>1. IterationTime \in Nat
    BY ReplayBounds
  <1> QED
    BY <1>1 DEF Spent

\* The initial state.
LEMMA ReplayStarts == ReplayInit => ReplayInductive
  <1> SUFFICES ASSUME ReplayInit PROVE ReplayInductive
    OBVIOUS
  <1>1. ReplayTypes
    BY ReplayBounds DEF ReplayInit, ReplayTypes, NoReport
  <1>2. Delivery
    BY ReplayBounds DEF ReplayInit, Delivery
  <1>3. CountedOnce
    <2>1. Instants = {}
      BY DEF ReplayInit, Instants
    <2> QED
      BY <2>1, FS_EmptySet DEF ReplayInit, CountedOnce, Pending
  <1>4. BooksInTime
    BY ReplayBounds, NoTime DEF ReplayInit, BooksInTime, Pending, Never
  <1>5. WindowAccounted
    BY DEF ReplayInit, WindowAccounted
  <1> QED
    BY <1>1, <1>2, <1>3, <1>4, <1>5 DEF ReplayInductive
\* An iteration ends.
LEMMA IterationBoundaryKept ==
  ASSUME ReplayInductive, IterationBoundary
  PROVE  ReplayInductive'
  <1>1. /\ boundary = clock /\ step' = step + 1
        /\ UNCHANGED <<trace, clock, delivered, landed, outage, account, report>>
        /\ \/ /\ outage # NoOutage \/ step' = ReplayIterations
              /\ boundary' = Never /\ UNCHANGED flush
           \/ /\ outage = NoOutage
              /\ boundary' = clock + IterationTime /\ flush' = <<step', clock + FlushTime>>
    BY DEF IterationBoundary
  <1>2. ReplayTypes /\ IterationTime \in Nat \ {0} /\ FlushTime \in Nat
    BY ReplayBounds DEF ReplayInductive
  <1>3. ~Over
    BY <1>1, <1>2 DEF Over, ReplayTypes, Never
  <1>4. ReplayTypes'
    BY <1>1, <1>2 DEF ReplayTypes, Never
  <1>5. Delivery'
    BY <1>1 DEF ReplayInductive, Delivery, Events, Normalized, TargetsOf
  <1>6. CountedOnce'
    BY <1>1, <1>3 DEF ReplayInductive, CountedOnce, Instants, Pending
  <1>7. BooksInTime'
    <2>1. Spent((step + account.lost) + 1)
            = Spent(step + account.lost) + IterationTime
      BY <1>2, OneMore DEF ReplayTypes
    <2>2. (step + 1) + account.lost = (step + account.lost) + 1
      BY <1>2 DEF ReplayTypes
    <2>3. Spent(step + account.lost) \in Int
      BY <1>2, OneMore DEF ReplayTypes
    <2>4. Spent(account.restarts + Pending) \in Int
      BY <1>2, OneMore DEF ReplayTypes, Pending
    <2>5. CASE outage = NoOutage /\ ~Over'
      <3>1. boundary' = clock + IterationTime
        BY <1>1, <2>5 DEF Over
      <3>2. /\ Spent(step + account.lost) <= (boundary - IterationTime) - account.recovery
            /\ (boundary - IterationTime) - account.recovery
                 <= Spent(step + account.lost) + Spent(account.restarts + Pending)
        BY <1>3, <2>5 DEF ReplayInductive, BooksInTime
      <3>3. /\ outage' = NoOutage /\ Pending' = Pending /\ account' = account
            /\ Spent(step' + account.lost) = Spent(step + account.lost) + IterationTime
        BY <1>1, <2>1, <2>2, <2>5 DEF Pending
      <3>4. /\ Spent(step' + account.lost) <= (boundary' - IterationTime) - account.recovery
            /\ (boundary' - IterationTime) - account.recovery
                 <= Spent(step' + account.lost) + Spent(account.restarts + Pending)
        BY <1>1, <1>2, <2>3, <2>4, <3>1, <3>2, <3>3, Numbers
      <3>5. clock' <= boundary' /\ boundary' <= clock' + IterationTime
        BY <1>1, <1>2, <3>1 DEF ReplayTypes
      <3> QED
        BY <3>3, <3>4, <3>5 DEF BooksInTime
    <2>6. CASE outage # NoOutage
      BY <1>1, <1>3, <2>6 DEF ReplayInductive, BooksInTime, Pending, Over
    <2>7. CASE Over'
      BY <1>1, <2>7 DEF Over, BooksInTime
    <2> QED
      BY <1>1, <2>5, <2>6, <2>7
  <1>8. WindowAccounted'
    BY <1>1, <1>3 DEF ReplayInductive, WindowAccounted, Pending
  <1> QED
    BY <1>4, <1>5, <1>6, <1>7, <1>8 DEF ReplayInductive

\* A checkpoint is complete.
LEMMA LandingKept ==
  ASSUME ReplayInductive, Landing
  PROVE  ReplayInductive'
  <1>1. /\ flush # <<>> /\ landed' = flush[1] /\ flush' = <<>>
        /\ UNCHANGED <<trace, clock, delivered, step, boundary, outage, account, report>>
    BY DEF Landing
  <1> QED
    BY <1>1 DEF ReplayInductive, ReplayTypes, Delivery, CountedOnce, BooksInTime, WindowAccounted,
                Instants, Pending, Over, Events, Normalized, TargetsOf

\* Time passes when nothing is due: every event of this instant has been delivered.
LEMMA PassKept ==
  ASSUME ReplayInductive, Pass
  PROVE  ReplayInductive'
  <1>1. /\ ~Due /\ report = NoReport /\ clock' = clock + 1
        /\ UNCHANGED <<trace, delivered, step, boundary, flush, landed, outage, account, report>>
    BY DEF Pass
  <1>2. ReplayTypes /\ IterationTime \in Nat \ {0}
    BY ReplayBounds DEF ReplayInductive
  <1>3. ReplayTypes'
    BY <1>1, <1>2 DEF ReplayTypes
  <1>4. Delivery'
    <2>1. \A event \in Events : event.t \in Nat
      BY <1>2, ReplayBounds DEF ReplayTypes
    <2>2. \A event \in Events : event.t = clock => event \in delivered
      BY <1>1 DEF Due
    <2>3. Events' = Events
      BY <1>1 DEF Events, Normalized, TargetsOf
    <2> QED
      BY <1>1, <1>2, <2>1, <2>2, <2>3 DEF ReplayInductive, Delivery, ReplayTypes
  <1>5. CountedOnce'
    BY <1>1 DEF ReplayInductive, CountedOnce, Instants, Pending, Over
  <1>6. BooksInTime'
    <2>1. boundary # clock
      BY <1>1 DEF Due
    <2> QED
      BY <1>1, <1>2, <2>1 DEF ReplayInductive, BooksInTime, Pending, Over, ReplayTypes
  <1>7. WindowAccounted'
    BY <1>1 DEF WindowAccounted
  <1> QED
    BY <1>3, <1>4, <1>5, <1>6, <1>7 DEF ReplayInductive

\* The accounting at the end of the window.
LEMMA SnapshotKept ==
  ASSUME ReplayInductive, Snapshot
  PROVE  ReplayInductive'
  <1>1. /\ clock = Window /\ report = NoReport
        /\ report' = IF outage = NoOutage
                     THEN [useful |-> step, lost |-> account.lost, recovery |-> account.recovery]
                     ELSE [useful |-> landed, lost |-> account.lost + outage.step - landed,
                           recovery |-> account.recovery + Window - outage.kill]
        /\ UNCHANGED <<trace, clock, delivered, step, boundary, flush, landed, outage, account>>
    BY DEF Snapshot
  <1>2. ReplayTypes /\ IterationTime \in Nat \ {0} /\ Window \in Nat
    BY ReplayBounds DEF ReplayInductive
  <1>3. ReplayTypes'
    BY <1>1, <1>2 DEF ReplayTypes
  <1>4. Delivery' /\ CountedOnce' /\ BooksInTime'
    BY <1>1 DEF ReplayInductive, Delivery, CountedOnce, BooksInTime, Instants, Pending, Over, Events,
                Normalized, TargetsOf
  <1>5. ASSUME ~Over
        PROVE  /\ Spent(report'.useful + report'.lost) <= Window - report'.recovery
               /\ Window - report'.recovery <= Spent(report'.useful + report'.lost)
                                     + Spent(account.restarts + Pending + 1)
    <2>1. Spent((account.restarts + Pending) + 1)
            = Spent(account.restarts + Pending) + IterationTime
      BY <1>2, OneMore DEF ReplayTypes, Pending
    <2>2. Spent(account.restarts + Pending) \in Int
      BY <1>2, OneMore DEF ReplayTypes, Pending
    <2>3. CASE outage = NoOutage
      <3>1. report'.useful = step /\ report'.lost = account.lost /\ report'.recovery = account.recovery
        BY <1>1, <2>3
      <3>2. boundary # Never
        BY <1>5, <2>3 DEF Over
      <3>3. Spent(step + account.lost) \in Int
        BY <1>2, OneMore DEF ReplayTypes
      <3> QED
        <4>1. /\ Spent(step + account.lost) <= (boundary - IterationTime) - account.recovery
              /\ (boundary - IterationTime) - account.recovery
                   <= Spent(step + account.lost) + Spent(account.restarts + Pending)
              /\ clock <= boundary /\ boundary <= clock + IterationTime
          BY <1>5, <2>3, <3>2 DEF ReplayInductive, BooksInTime
        <4>2. /\ Spent(step + account.lost) <= Window - account.recovery
              /\ Window - account.recovery <= Spent(step + account.lost)
                                                + Spent((account.restarts + Pending) + 1)
          BY <1>1, <1>2, <2>1, <2>2, <3>3, <4>1, Numbers
        <4> QED
          BY <3>1, <4>2
    <2>4. CASE outage # NoOutage
      <3>1. /\ report'.useful = landed /\ report'.lost = account.lost + outage.step - landed
            /\ report'.recovery = account.recovery + Window - outage.kill
        BY <1>1, <2>4
      <3>2. report'.useful + report'.lost = outage.step + account.lost
        BY <1>2, <2>4, <3>1 DEF ReplayTypes
      <3>3. Spent(outage.step + account.lost) \in Int
        BY <1>2, <2>4, OneMore DEF ReplayTypes
      <3>4. Window - report'.recovery = outage.kill - account.recovery
        BY <1>2, <2>4, <3>1 DEF ReplayTypes
      <3> QED
        <4>1. /\ Spent(outage.step + account.lost) <= outage.kill - account.recovery
              /\ outage.kill - account.recovery
                   <= Spent(outage.step + account.lost) + Spent(account.restarts + Pending)
          BY <1>5, <2>4 DEF ReplayInductive, BooksInTime
        <4>2. outage.kill - account.recovery
                <= Spent(outage.step + account.lost) + Spent((account.restarts + Pending) + 1)
          BY <1>2, <2>1, <2>2, <2>4, <3>3, <4>1, Numbers
        <4> QED
          BY <3>2, <3>4, <4>1, <4>2
    <2> QED
      BY <2>3, <2>4
  <1>6. WindowAccounted'
    BY <1>1, <1>5 DEF WindowAccounted, Over, Pending, Spent
  <1> QED
    BY <1>3, <1>4, <1>6 DEF ReplayInductive
\* An instant strikes: as one event, and once.
LEMMA TraceEventKept ==
  ASSUME ReplayInductive, NEW event \in Events, TraceEventNow(event)
  PROVE  ReplayInductive'
  <1> DEFINE ready == clock + Reprovision + RestoreFor(event)
  <1>1. /\ event \notin delivered /\ event.t = clock
        /\ delivered' = delivered \cup {event}
        /\ UNCHANGED <<trace, clock, step, boundary, landed, report>>
        /\ \/ Over /\ UNCHANGED <<flush, outage, account>>
           \/ /\ ~Over /\ outage # NoOutage /\ outage' = [outage EXCEPT !.end = ready]
              /\ account' = [account EXCEPT !.resets = @ + 1] /\ UNCHANGED flush
           \/ /\ ~Over /\ outage = NoOutage
              /\ outage' = [kill |-> clock, step |-> step, end |-> Detect + ready]
              /\ flush' = <<>> /\ UNCHANGED account
    BY DEF TraceEventNow
  <1> HIDE DEF ready
  <1>2. ReplayTypes /\ IterationTime \in Nat \ {0}
    BY ReplayBounds DEF ReplayInductive
  <1>3. ReplayTypes'
    BY <1>1, <1>2 DEF ReplayTypes
  <1>4. Delivery'
    <2>1. Events' = Events
      BY <1>1 DEF Events, Normalized, TargetsOf
    <2> QED
      BY <1>1, <1>2, <2>1 DEF ReplayInductive, Delivery, ReplayTypes
  <1>5. /\ account'.restarts = account.restarts /\ account'.lost = account.lost
        /\ account'.recovery = account.recovery
        /\ ~Over => account'.resets + Pending' = account.resets + Pending + 1 /\ outage' # NoOutage
        /\ outage # NoOutage => outage'.kill = outage.kill /\ outage'.step = outage.step
    <2>1. [kill |-> clock, step |-> step, end |-> Detect + ready] # NoOutage
      BY <1>2 DEF ReplayTypes, NoOutage, Never
    <2>2. CASE Over
      BY <1>1, <2>2
    <2>3. CASE ~Over /\ outage # NoOutage
      <3>1. /\ outage'.kill = outage.kill /\ outage'.step = outage.step
            /\ account'.resets = account.resets + 1
            /\ account'.restarts = account.restarts /\ account'.lost = account.lost
            /\ account'.recovery = account.recovery
        BY <1>1, <1>2, <2>3 DEF ReplayTypes
      <3>2. outage' # NoOutage
        BY <1>2, <2>3, <3>1 DEF ReplayTypes, NoOutage, Never
      <3> QED
        BY <1>2, <2>3, <3>1, <3>2 DEF Pending, ReplayTypes
    <2>4. CASE ~Over /\ outage = NoOutage
      BY <1>1, <1>2, <2>1, <2>4 DEF Pending, ReplayTypes
    <2> QED
      BY <2>2, <2>3, <2>4
  <1>6. Over' <=> Over
    BY <1>1, <1>5 DEF Over
  <1>7. CountedOnce'
    <2>1. clock \notin Instants
      BY <1>1, OneEvent DEF ReplayInductive, Delivery, Instants
    <2>2. \A t : t \in Instants' <=> t \in Instants \/ t = clock
      BY <1>1 DEF Instants
    <2>3. Instants' = Instants \cup {clock}
      BY <2>2
    <2>4. IsFiniteSet(Instants)
      BY DEF ReplayInductive, CountedOnce
    <2> DEFINE S == Instants
               T == Instants'
    <2>5. S \cup {clock} = T /\ IsFiniteSet(S) /\ clock \notin S
      BY <2>1, <2>3, <2>4
    <2> HIDE DEF S, T
    <2>6. IsFiniteSet(T) /\ Cardinality(T) = Cardinality(S) + 1 /\ Cardinality(S) \in Nat
      BY <2>5, FS_AddElement, FS_CardinalityType
    <2>7. ~Over => account.restarts + account.resets + Pending = Cardinality(S)
      BY DEF ReplayInductive, CountedOnce, S
    <2>9. account'.resets \in Nat /\ Pending' \in Nat
      BY <1>3 DEF ReplayTypes, Pending
    <2>8. ~Over => account'.restarts + account'.resets + Pending' = Cardinality(T)
      BY <1>2, <1>5, <2>6, <2>7, <2>9, Numbers
    <2> QED
      BY <1>6, <2>6, <2>8 DEF CountedOnce, T
  <1>8. BooksInTime'
    <2>1. CASE Over
      BY <1>1, <1>6, <2>1 DEF BooksInTime, ReplayInductive
    <2>2. CASE ~Over /\ outage # NoOutage
      <3>1. Pending' = Pending
        BY <1>5, <2>2 DEF Pending
      <3> QED
        BY <1>1, <1>5, <1>6, <2>2, <3>1 DEF BooksInTime, ReplayInductive
    <2>3. CASE ~Over /\ outage = NoOutage
      <3>1. /\ outage'.kill = clock /\ outage'.step = step /\ outage' # NoOutage
            /\ Pending = 0 /\ Pending' = 1 /\ boundary # Never
        BY <1>1, <1>5, <2>3 DEF Pending, Over
      <3>2. /\ Spent(step + account.lost) <= (boundary - IterationTime) - account.recovery
            /\ (boundary - IterationTime) - account.recovery
                 <= Spent(step + account.lost) + Spent(account.restarts + 0)
            /\ clock <= boundary /\ boundary <= clock + IterationTime
        BY <2>3, <3>1 DEF ReplayInductive, BooksInTime
      <3>3. /\ Spent(account.restarts + 1) = Spent(account.restarts) + IterationTime
            /\ Spent(account.restarts) \in Int /\ account.restarts + 0 = account.restarts
            /\ Spent(step + account.lost) \in Int
        BY <1>2, OneMore DEF ReplayTypes
      <3>4. /\ Spent(step + account.lost) <= clock - account.recovery
            /\ clock - account.recovery
                 <= Spent(step + account.lost) + Spent(account.restarts + 1)
        BY <1>2, <3>2, <3>3, Numbers
      <3> QED
        BY <1>1, <1>5, <3>1, <3>2, <3>4 DEF BooksInTime
    <2> QED
      BY <2>1, <2>2, <2>3
  <1>9. WindowAccounted'
    <2>1. CASE Over
      BY <1>6, <2>1 DEF WindowAccounted
    <2>2. CASE ~Over
      <3>1. \/ Pending' = Pending
            \/ Pending' = Pending + 1
        BY <1>5, <2>2 DEF Pending
      <3>2. Spent((account.restarts + Pending) + 1) \in Int
        BY <1>2, OneMore DEF ReplayTypes, Pending
      <3>3. /\ Spent((account.restarts + Pending) + 1) <= Spent((account'.restarts + Pending') + 1)
            /\ Spent((account'.restarts + Pending') + 1) \in Int
        <4>1. Spent(((account.restarts + Pending) + 1) + 1)
                = Spent((account.restarts + Pending) + 1) + IterationTime
          BY <1>2, OneMore DEF ReplayTypes, Pending
        <4>2. CASE Pending' = Pending
          BY <1>2, <1>5, <3>2, <4>2
        <4>3. CASE Pending' = Pending + 1
          <5>1. (account'.restarts + Pending') + 1 = ((account.restarts + Pending) + 1) + 1
            BY <1>2, <1>5, <4>3 DEF ReplayTypes, Pending
          <5> QED
            BY <1>2, <3>2, <4>1, <5>1
        <4> QED
          BY <3>1, <4>2, <4>3
      <3> DEFINE counted == Spent(report.useful + report.lost)
                 trained == Window - report.recovery
      <3>4. counted \in Int /\ trained \in Int
        BY <1>2, OneMore, ReplayBounds DEF ReplayTypes
      <3> HIDE DEF counted, trained
      <3>5. ASSUME report # NoReport, clock = Window
            PROVE  /\ counted <= trained
                   /\ trained <= counted + Spent((account.restarts + Pending) + 1)
        BY <2>2, <3>5 DEF ReplayInductive, WindowAccounted, Spent, counted, trained
      <3>6. ASSUME report # NoReport, clock = Window
            PROVE  trained <= counted + Spent((account'.restarts + Pending') + 1)
        BY <3>2, <3>3, <3>4, <3>5, <3>6
      <3> QED
        BY <1>1, <3>5, <3>6 DEF WindowAccounted, Spent, counted, trained
    <2> QED
      BY <2>1, <2>2
  <1> QED
    BY <1>3, <1>4, <1>7, <1>8, <1>9 DEF ReplayInductive
\* The recovery is over, and the job goes on from its newest complete checkpoint.
LEMMA RestartKept ==
  ASSUME ReplayInductive, Restart
  PROVE  ReplayInductive'
  <1>1. /\ outage # NoOutage /\ outage' = NoOutage
        /\ step' = landed /\ boundary' = clock + IterationTime
        /\ account' = [account EXCEPT !.restarts = @ + 1,
                                      !.lost = @ + outage.step - landed,
                                      !.recovery = @ + clock - outage.kill]
        /\ UNCHANGED <<trace, clock, delivered, flush, landed, report>>
    BY DEF Restart
  <1>2. ReplayTypes /\ IterationTime \in Nat \ {0}
    BY ReplayBounds DEF ReplayInductive
  <1>3. ReplayTypes'
    <2>1. /\ account.restarts + 1 \in Nat /\ account.lost + outage.step - landed \in Int
          /\ account.recovery + clock - outage.kill \in Int
          /\ clock + IterationTime \in Int
      BY <1>1, <1>2, Numbers
    <2>2. account' \in [restarts : Nat, resets : Nat, lost : Int, recovery : Int]
      BY <1>1, <1>2, <2>1 DEF ReplayTypes
    <2> QED
      BY <1>1, <1>2, <2>1, <2>2 DEF ReplayTypes
  <1>4. /\ account'.restarts = account.restarts + 1 /\ account'.resets = account.resets
        /\ account'.lost = account.lost + outage.step - landed
        /\ account'.recovery = account.recovery + clock - outage.kill
        /\ Pending = 1 /\ Pending' = 0
    BY <1>1, <1>2 DEF ReplayTypes, Pending
  <1>5. ~Over /\ ~Over' /\ boundary' # Never
    BY <1>1, <1>2 DEF Over, ReplayTypes, Never
  <1>6. account'.restarts + Pending' = account.restarts + Pending
    BY <1>2, <1>4, Numbers
  <1>7. Delivery'
    BY <1>1 DEF ReplayInductive, Delivery, Events, Normalized, TargetsOf
  <1>8. CountedOnce'
    <2>1. account'.restarts + account'.resets + Pending'
            = account.restarts + account.resets + Pending
      BY <1>2, <1>4, Numbers
    <2> QED
      BY <1>1, <1>5, <2>1 DEF ReplayInductive, CountedOnce, Instants
  <1>9. BooksInTime'
    <2>1. step' + account'.lost = outage.step + account.lost
      BY <1>1, <1>2, <1>4, Numbers
    <2>2. (boundary' - IterationTime) - account'.recovery = outage.kill - account.recovery
      BY <1>1, <1>2, <1>4, Numbers
    <2>3. clock' <= boundary' /\ boundary' <= clock' + IterationTime
      BY <1>1, <1>2, Numbers
    <2>4. /\ Spent(outage.step + account.lost) <= outage.kill - account.recovery
          /\ outage.kill - account.recovery
               <= Spent(outage.step + account.lost) + Spent(account.restarts + Pending)
      BY <1>1, <1>5 DEF ReplayInductive, BooksInTime
    <2> QED
      BY <1>1, <1>6, <2>1, <2>2, <2>3, <2>4 DEF BooksInTime
  <1>10. WindowAccounted'
    BY <1>1, <1>5, <1>6 DEF ReplayInductive, WindowAccounted
  <1> QED
    BY <1>3, <1>7, <1>8, <1>9, <1>10 DEF ReplayInductive

\* What has struck, and when; the time that iterations and recoveries have taken.
THEOREM ReplayInvariance == ReplaySpec => []ReplayInductive
  <1>1. ReplayInit => ReplayInductive
    BY ReplayStarts
  <1>2. ReplayInductive /\ [ReplayNext]_replayVars => ReplayInductive'
    <2> SUFFICES ASSUME ReplayInductive, [ReplayNext]_replayVars
                 PROVE  ReplayInductive'
      OBVIOUS
    <2>1. CASE UNCHANGED replayVars
      BY <2>1 DEF replayVars, ReplayInductive, ReplayTypes, Delivery, CountedOnce, BooksInTime,
                  WindowAccounted, Instants, Pending, Over, Events, Normalized, TargetsOf
    <2>2. CASE ReplayNext
      BY <2>2, IterationBoundaryKept, LandingKept, RestartKept, SnapshotKept, PassKept,
         TraceEventKept DEF ReplayNext
    <2> QED
      BY <2>1, <2>2
  <1> QED
    BY <1>1, <1>2, PTL DEF ReplaySpec

\* The failures of a trace are counted once for each instant in which they strike a job that
\* runs or recovers, and the useful and lost iterations and the recoveries add up to the
\* window, but for an iteration that each kill and the end of the window cut off.
THEOREM ReplayCorrect == ReplaySpec => []ReplayAccounted
  <1>1. ASSUME ReplayInductive PROVE FailuresCounted
    <2> DEFINE hits == {trace[i].t : i \in {j \in DOMAIN trace : trace[j].job = TraceJob}}
    <2>1. \A event \in Events : event.t \in hits
      BY DEF Events, Normalized, TargetsOf
    <2>2. ASSUME NEW t \in hits PROVE \E event \in Events : event.t = t
      <3>1. PICK i \in TargetsOf(trace) : trace[i].t = t
        BY DEF TargetsOf
      <3> DEFINE own == [t |-> trace[i].t,
                         targets |-> {j \in TargetsOf(trace) : trace[j].t = trace[i].t}]
      <3>2. own \in Events
        BY DEF Events, Normalized
      <3>3. own.t = t
        BY <3>1
      <3> QED
        BY <3>2, <3>3
    <2>3. \A event \in Events : event.t \in Nat
      BY <1>1, ReplayBounds DEF ReplayInductive, ReplayTypes
    <2> HIDE DEF hits
    <2>4. Delivery /\ clock \in Nat
      BY <1>1 DEF ReplayInductive, ReplayTypes
    <2>5. \A t \in Instants : t \in hits /\ \E event \in delivered : t <= event.t
      BY <2>1, <2>3, <2>4 DEF Instants, Delivery
    <2>6. ASSUME NEW t \in hits, NEW event \in delivered, t <= event.t
          PROVE  t \in Instants
      <3>1. PICK own \in Events : own.t = t
        BY <2>2
      <3>2. own.t \in Nat /\ event.t \in Nat /\ event.t <= clock
        BY <2>3, <2>4 DEF Delivery
      <3>3. CASE t < clock
        BY <2>4, <3>1, <3>3 DEF Delivery, Instants
      <3>4. CASE ~(t < clock)
        <4>1. event.t = t
          BY <2>4, <2>6, <3>1, <3>2, <3>4
        <4> QED
          BY <4>1 DEF Instants
      <3> QED
        BY <3>3, <3>4
    <2>7. Instants = {t \in hits : \E event \in delivered : t <= event.t}
      BY <2>5, <2>6
    <2> QED
      BY <1>1, <2>7 DEF ReplayInductive, CountedOnce, FailuresCounted, hits
  <1>2. ReplayInductive => ReplayAccounted
    BY <1>1 DEF ReplayInductive, ReplayAccounted
  <1> QED
    BY <1>2, ReplayInvariance, PTL

=============================================================================

------------------------- MODULE TrainingLoopsProofs -------------------------
(***************************************************************************)
(* Proofs about FailureController, for any finite set of workers, any      *)
(* restart delays and any number of signals; about TrainingBenchmark, for  *)
(* any number of ranks, of iterations and of microbatches; about LargeScale*)
(* for any jobs, permits and intervals; and about LegacyTraining, for any  *)
(* number of machines, any interval, memory and schedule of failures.      *)
(***************************************************************************)
EXTENDS FailureController, TrainingBenchmark, LargeScale, LegacyTraining, DataLemmas,
        FiniteSetTheorems, TLAPS

-----------------------------------------------------------------------------
(* FailureController.                                                      *)

\* The assumption on the constants, in the form that the proofs use.
LEMMA Constants ==
  /\ \A t \in FailureType : RestartSeconds[t] \in Nat
  /\ \A targets \in SUBSET Worker : Cardinality(targets) \in 0 .. Cardinality(Worker)
  /\ Cardinality(Worker) \in Nat
  BY FS_Subset, FS_CardinalityType, ControllerAssumption DEF ControllerAssumption

-----------------------------------------------------------------------------
(***************************************************************************)
(* Type correctness.                                                       *)
(***************************************************************************)

\* The initial state is well typed.
LEMMA TypeInit == Init => TypeOK
  <1> SUFFICES ASSUME Init PROVE TypeOK
    OBVIOUS
  <1>1. batch \in [Worker -> 0 .. Cardinality(Worker)]
    BY Constants DEF Init
  <1>2. \A w \in Worker : seen[w] \in Seq(FailureType)
    BY DEF Init
  <1>3. /\ recovery \in [Worker -> RecoveryStep]
        /\ event \in [Worker -> {"none", "pending"}]
        /\ type \in [Worker -> FailureType \cup {"none"}]
    BY DEF Init, RecoveryStep
  <1> QED
    BY <1>1, <1>2, <1>3 DEF Init, TypeOK

\* A sampled batch leaves every variable well typed.
LEMMA SampleType ==
  ASSUME TypeOK, NEW targets \in SUBSET Worker,
         NEW hit \in [targets -> FailureType], Sample(hit)
  PROVE  TypeOK'
  <1>1. DOMAIN hit = targets
    OBVIOUS
  <1>2. Cardinality(targets) \in 0 .. Cardinality(Worker) /\ Cardinality(Worker) \in Nat
    BY Constants
  <1>3. /\ failed' \in [Worker -> BOOLEAN] /\ restarting' \in [Worker -> BOOLEAN]
        /\ recovery' \in [Worker -> RecoveryStep]
        /\ event' \in [Worker -> {"none", "pending"}]
    BY <1>1 DEF Sample, TypeOK, RecoveryStep
  <1>4. type' \in [Worker -> FailureType \cup {"none"}]
    BY <1>1 DEF Sample, TypeOK, RecordedType
  <1>5. generation' \in [Worker -> Nat]
    BY <1>1 DEF Sample, TypeOK
  <1>6. batch' \in [Worker -> 0 .. Cardinality(Worker)]
    BY <1>1, <1>2 DEF Sample, TypeOK, Larger
  <1>7. remaining' \in [Worker -> Nat] /\ owed' \in [Worker -> Nat]
    BY <1>1, Constants DEF Sample, TypeOK, Larger, RestartWindow
  <1>8. ASSUME NEW w \in Worker PROVE seen'[w] \in Seq(FailureType)
    BY <1>1 DEF Sample, TypeOK
  <1> QED
    BY <1>3, <1>4, <1>5, <1>6, <1>7, <1>8 DEF Sample, TypeOK

\* Every step keeps each variable within its type.
LEMMA TypeStep == TypeOK /\ [Next]_vars => TypeOK'
  <1> SUFFICES ASSUME TypeOK, [Next]_vars PROVE TypeOK'
    OBVIOUS
  <1>1. CASE Tick
    BY <1>1 DEF TypeOK, Tick
  <1>2. ASSUME NEW targets \in SUBSET Worker, NEW hit \in [targets -> FailureType], Sample(hit)
        PROVE  TypeOK'
    BY <1>2, SampleType
  <1>3. ASSUME NEW w \in Worker, CallRecover(w) PROVE TypeOK'
    <2>1. batch' \in [Worker -> 0 .. Cardinality(Worker)]
      BY <1>3, Constants DEF TypeOK, CallRecover
    <2>2. ASSUME NEW v \in Worker PROVE seen'[v] \in Seq(FailureType)
      BY <1>3 DEF TypeOK, CallRecover
    <2> QED
      BY <1>3, <2>1, <2>2 DEF TypeOK, CallRecover, RecoveryStep
  <1>4. ASSUME NEW w \in Worker, RecoverReturns(w) PROVE TypeOK'
    BY <1>4 DEF TypeOK, RecoverReturns, RecoveryStep
  <1>5. ASSUME NEW w \in Worker, BackInService(w) PROVE TypeOK'
    BY <1>5 DEF TypeOK, BackInService, RecoveryStep
  <1>6. ASSUME NEW w \in Worker, RecoverAgain(w) PROVE TypeOK'
    BY <1>6 DEF TypeOK, RecoverAgain, RecoveryStep
  <1>7. ASSUME NEW w \in Worker, JobEnds(w) PROVE TypeOK'
    BY <1>7 DEF TypeOK, JobEnds
  <1>8. CASE UNCHANGED vars
    BY <1>8 DEF TypeOK, vars
  <1> QED
    BY <1>1, <1>2, <1>3, <1>4, <1>5, <1>6, <1>7, <1>8 DEF Next

\* Every variable keeps its type in every behaviour of the controller.
THEOREM TypeCorrect == Spec => []TypeOK
  BY TypeInit, TypeStep, PTL DEF Spec

-----------------------------------------------------------------------------
(***************************************************************************)
(* The inductive invariant.                                                *)
(***************************************************************************)

\* What a sampled batch does to a worker that it hits, and to the others.
LEMMA SampleHits ==
  ASSUME TypeOK, NEW targets \in SUBSET Worker, NEW hit \in [targets -> FailureType],
         Sample(hit), NEW w \in Worker, w \in targets
  PROVE  /\ failed'[w] /\ restarting'[w]
         /\ generation'[w] = generation[w] + 1
         /\ event'[w] = "pending"
         /\ recovery'[w] = IF failed[w] THEN recovery[w] ELSE "restart"
         /\ remaining'[w] = RestartWindow(w, hit[w])
         /\ owed'[w] = Larger(owed[w], RestartSeconds[hit[w]])
         /\ type'[w] = RecordedType(w, hit[w])
         /\ seen'[w] = IF Coalesced(w) THEN Append(seen[w], hit[w]) ELSE <<hit[w]>>
  <1>1. DOMAIN hit = targets
    OBVIOUS
  <1> QED
    BY <1>1 DEF Sample, TypeOK

\* A sample changes nothing of the workers it does not hit.
LEMMA SampleSpares ==
  ASSUME TypeOK, NEW targets \in SUBSET Worker, NEW hit \in [targets -> FailureType],
         Sample(hit), NEW w \in Worker, w \notin targets
  PROVE  /\ failed'[w] = failed[w] /\ restarting'[w] = restarting[w]
         /\ generation'[w] = generation[w]
         /\ event'[w] = event[w] /\ recovery'[w] = recovery[w]
         /\ remaining'[w] = remaining[w] /\ owed'[w] = owed[w]
         /\ type'[w] = type[w] /\ seen'[w] = seen[w]
  <1>1. DOMAIN hit = targets
    OBVIOUS
  <1> QED
    BY <1>1 DEF Sample, TypeOK

\* An outage has one recovery process from its first signal to its end.
LEMMA OneRecoveryStep == TypeOK /\ OneRecoveryPerOutage /\ [Next]_vars => OneRecoveryPerOutage'
  <1> SUFFICES ASSUME TypeOK, OneRecoveryPerOutage, [Next]_vars PROVE OneRecoveryPerOutage'
    OBVIOUS
  <1>1. ASSUME NEW targets \in SUBSET Worker, NEW hit \in [targets -> FailureType], Sample(hit)
        PROVE  OneRecoveryPerOutage'
    <2> SUFFICES ASSUME NEW w \in Worker
                 PROVE  /\ failed'[w] <=> recovery'[w] # "none"
                        /\ failed'[w] <=> event'[w] = "pending"
                        /\ restarting'[w] => failed'[w]
      BY DEF OneRecoveryPerOutage
    <2>1. CASE w \in targets
      BY <1>1, <2>1, SampleHits, SampleSpares DEF OneRecoveryPerOutage
    <2>2. CASE w \notin targets
      BY <1>1, <2>2, SampleHits, SampleSpares DEF OneRecoveryPerOutage
    <2> QED
      BY <2>1, <2>2
  <1>2. ASSUME NEW w \in Worker, CallRecover(w) PROVE OneRecoveryPerOutage'
    BY <1>2 DEF OneRecoveryPerOutage, TypeOK, CallRecover
  <1>3. ASSUME NEW w \in Worker, RecoverReturns(w) PROVE OneRecoveryPerOutage'
    BY <1>3 DEF OneRecoveryPerOutage, TypeOK, RecoverReturns
  <1>4. ASSUME NEW w \in Worker, BackInService(w) PROVE OneRecoveryPerOutage'
    BY <1>4 DEF OneRecoveryPerOutage, TypeOK, BackInService, RecoveryAccepted
  <1>5. ASSUME NEW w \in Worker, RecoverAgain(w) PROVE OneRecoveryPerOutage'
    BY <1>5 DEF OneRecoveryPerOutage, TypeOK, RecoverAgain
  <1>6. CASE UNCHANGED <<failed, restarting, event, recovery>>
    BY <1>6 DEF OneRecoveryPerOutage
  <1> QED
    BY <1>1, <1>2, <1>3, <1>4, <1>5, <1>6 DEF Next, Tick, JobEnds, vars

\* The restart delay being waited for covers everything still owed.
LEMMA DelayStep ==
  TypeOK /\ OneRecoveryPerOutage /\ DelayCovers /\ [Next]_vars => DelayCovers'
  <1> SUFFICES ASSUME TypeOK, OneRecoveryPerOutage, DelayCovers, [Next]_vars,
                      NEW w \in Worker
               PROVE  IF restarting'[w] THEN remaining'[w] >= owed'[w] ELSE owed'[w] = 0
    BY DEF DelayCovers
  <1>t. remaining[w] \in Nat /\ owed[w] \in Nat
    BY DEF TypeOK
  <1>1. CASE Tick
    BY <1>1, <1>t DEF DelayCovers, Tick
  <1>2. ASSUME NEW targets \in SUBSET Worker, NEW hit \in [targets -> FailureType], Sample(hit)
        PROVE  IF restarting'[w] THEN remaining'[w] >= owed'[w] ELSE owed'[w] = 0
    <2>1. CASE w \in targets
      <3>1. RestartSeconds[hit[w]] \in Nat
        BY <2>1, Constants
      <3>2. RestartWindow(w, hit[w]) >= Larger(owed[w], RestartSeconds[hit[w]])
        BY <3>1, <1>t DEF DelayCovers, OneRecoveryPerOutage, RestartWindow, Coalesced, Larger
      <3> QED
        BY <1>2, <2>1, <3>2, SampleHits, SampleSpares
    <2>2. CASE w \notin targets
      <3>1. /\ restarting'[w] = restarting[w]
            /\ remaining'[w] = remaining[w] /\ owed'[w] = owed[w]
        BY <1>2, <2>2, SampleHits, SampleSpares
      <3> QED
        BY <3>1 DEF DelayCovers
    <2> QED
      BY <2>1, <2>2
  <1>3. ASSUME NEW v \in Worker, CallRecover(v)
        PROVE  IF restarting'[w] THEN remaining'[w] >= owed'[w] ELSE owed'[w] = 0
    BY <1>3, <1>t DEF DelayCovers, TypeOK, CallRecover
  <1>4. ASSUME NEW v \in Worker, BackInService(v)
        PROVE  IF restarting'[w] THEN remaining'[w] >= owed'[w] ELSE owed'[w] = 0
    BY <1>4, <1>t DEF DelayCovers, TypeOK, BackInService, RecoveryAccepted
  <1>5. CASE UNCHANGED <<restarting, remaining, owed>>
    BY <1>5 DEF DelayCovers
  <1> QED
    BY <1>1, <1>2, <1>3, <1>4, <1>5 DEF Next, RecoverReturns, RecoverAgain, JobEnds, vars

\* Every reachable state satisfies the inductive invariant.
THEOREM Invariance == Spec => []Inductive
  <1>1. Init => Inductive
    BY TypeInit DEF Init, Inductive, OneRecoveryPerOutage, DelayCovers
  <1>2. Inductive /\ [Next]_vars => Inductive'
    BY TypeStep, OneRecoveryStep, DelayStep DEF Inductive
  <1> QED
    BY <1>1, <1>2, PTL DEF Spec

-----------------------------------------------------------------------------
(***************************************************************************)
(* The theorems.                                                           *)
(***************************************************************************)

\* A worker is in service only when every restart delay has passed in full.
THEOREM NeverEarly == Spec => []NeverEarlyInService
  <1>1. Inductive => NeverEarlyInService
    BY DEF Inductive, NeverEarlyInService, OneRecoveryPerOutage, DelayCovers
  <1> QED
    BY <1>1, Invariance, PTL

\* No outage is left without the process that ends it.
THEOREM OneRecovery == Spec => []OneRecoveryPerOutage
  <1>1. Inductive => OneRecoveryPerOutage
    BY DEF Inductive
  <1> QED
    BY <1>1, Invariance, PTL

\* A worker comes back only from a restore that no signal overtook.
THEOREM AcceptedIsCurrent == Spec => AcceptedRecoveryIsCurrent
  <1>1. ASSUME Inductive, [Next]_vars, NEW w \in Worker, failed[w], ~failed'[w]
        PROVE  generation'[w] = called[w] /\ owed[w] = 0
    <2>a. TypeOK /\ DelayCovers
      BY <1>1 DEF Inductive
    <2>1. ASSUME NEW targets \in SUBSET Worker, NEW hit \in [targets -> FailureType], Sample(hit)
          PROVE  FALSE
      BY <1>1, <2>a, <2>1, SampleHits, SampleSpares
    <2>2. BackInService(w)
      BY <1>1, <2>a, <2>1 DEF TypeOK, Next, Tick, CallRecover, RecoverReturns, BackInService,
        RecoverAgain, JobEnds, vars
    <2> QED
      BY <2>a, <2>2 DEF BackInService, RecoveryAccepted, DelayCovers
  <1>2. Inductive /\ [Next]_vars =>
          [\A w \in Worker : failed[w] /\ ~failed'[w] =>
             /\ generation'[w] = called[w]
             /\ owed[w] = 0]_vars
    BY <1>1
  <1> QED
    BY <1>2, Invariance, PTL DEF Spec, AcceptedRecoveryIsCurrent

\* Appending to a sequence adds one element to its range.
LEMMA RangeOfAppend ==
  ASSUME NEW s \in Seq(FailureType), NEW t \in FailureType
  PROVE  /\ Range(Append(s, t)) = Range(s) \cup {t}
         /\ Range(<<t>>) = {t}
         /\ Range(s) \subseteq FailureType
         /\ Append(s, t) # <<>> /\ <<t>> # <<>>
  <1>1. /\ Append(s, t) \in Seq(FailureType) /\ Len(Append(s, t)) = Len(s) + 1
        /\ \A i \in 1 .. Len(s) : Append(s, t)[i] = s[i]
        /\ Append(s, t)[Len(s) + 1] = t
    OBVIOUS
  <1>2. /\ DOMAIN s = 1 .. Len(s) /\ Len(s) \in Nat
        /\ DOMAIN Append(s, t) = 1 .. (Len(s) + 1)
    BY <1>1
  <1>3. Range(Append(s, t)) \subseteq Range(s) \cup {t}
    BY <1>1, <1>2 DEF Range
  <1>4. Range(s) \subseteq Range(Append(s, t))
    BY <1>1, <1>2 DEF Range
  <1>5. t \in Range(Append(s, t))
    BY <1>1, <1>2 DEF Range
  <1>6. Range(<<t>>) = {t}
    BY DEF Range
  <1>7. Range(s) \subseteq FailureType
    BY <1>2 DEF Range
  <1>8. Append(s, t) # <<>> /\ <<t>> # <<>>
    BY <1>1
  <1> QED
    BY <1>3, <1>4, <1>5, <1>6, <1>7, <1>8

\* The type recorded for a batch of coalesced signals is the most severe.
THEOREM HighestSeverity == Spec => []CoalescedAtHighestSeverity
  <1>1. Init => CoalescedAtHighestSeverity
    BY DEF Init, CoalescedAtHighestSeverity
  <1>2. Inductive /\ CoalescedAtHighestSeverity /\ Inductive' /\ [Next]_vars
          => CoalescedAtHighestSeverity'
    <2> SUFFICES ASSUME Inductive, CoalescedAtHighestSeverity, Inductive', [Next]_vars,
                        NEW w \in Worker, restarting'[w]
                 PROVE  /\ seen'[w] # <<>>
                        /\ type'[w] \in Range(seen'[w])
                        /\ \A t \in Range(seen'[w]) : Severity(t) <= Severity(type'[w])
                        /\ remaining'[w] >= owed'[w]
      BY DEF CoalescedAtHighestSeverity
    <2>a. TypeOK
      BY DEF Inductive
    <2>b. remaining'[w] >= owed'[w]
      BY DEF Inductive, DelayCovers
    <2>1. ASSUME NEW targets \in SUBSET Worker, NEW hit \in [targets -> FailureType],
                 Sample(hit), w \in targets
          PROVE  /\ seen'[w] # <<>>
                 /\ type'[w] \in Range(seen'[w])
                 /\ \A t \in Range(seen'[w]) : Severity(t) <= Severity(type'[w])
      <3>1. hit[w] \in FailureType /\ seen[w] \in Seq(FailureType)
        BY <2>1, <2>a DEF TypeOK
      <3>2. CASE Coalesced(w)
        <4>1. seen'[w] = Append(seen[w], hit[w]) /\ type'[w] = RecordedType(w, hit[w])
          BY <2>1, <2>a, <3>2, SampleHits
        <4>2. Range(seen'[w]) = Range(seen[w]) \cup {hit[w]} /\ seen'[w] # <<>>
          BY <3>1, <4>1, RangeOfAppend
        <4>3. /\ type[w] \in Range(seen[w]) /\ Range(seen[w]) \subseteq FailureType
              /\ \A t \in Range(seen[w]) : Severity(t) <= Severity(type[w])
          BY <3>1, <3>2, RangeOfAppend DEF CoalescedAtHighestSeverity, Coalesced
        <4>4. \A t \in FailureType : Severity(t) \in Nat
          BY DEF Severity, FailureType
        <4> QED
          BY <3>1, <3>2, <4>1, <4>2, <4>3, <4>4 DEF RecordedType
      <3>3. CASE ~Coalesced(w)
        <4>0. seen'[w] = <<hit[w]>> /\ type'[w] = RecordedType(w, hit[w])
          BY <2>1, <2>a, <3>3, SampleHits
        <4>1. seen'[w] = <<hit[w]>> /\ type'[w] = hit[w]
          BY <3>3, <4>0 DEF RecordedType
        <4>2. Severity(hit[w]) \in Nat
          BY <3>1 DEF Severity, FailureType
        <4> QED
          BY <3>1, <4>1, <4>2, RangeOfAppend
      <3> QED
        BY <3>2, <3>3
    <2>2. ASSUME restarting[w], seen'[w] = seen[w], type'[w] = type[w]
          PROVE  /\ seen'[w] # <<>>
                 /\ type'[w] \in Range(seen'[w])
                 /\ \A t \in Range(seen'[w]) : Severity(t) <= Severity(type'[w])
      BY <2>2 DEF CoalescedAtHighestSeverity
    <2>3. ASSUME NEW targets \in SUBSET Worker, NEW hit \in [targets -> FailureType],
                 Sample(hit), w \notin targets
          PROVE  restarting[w] /\ seen'[w] = seen[w] /\ type'[w] = type[w]
      BY <2>3, <2>a, SampleSpares
    <2>4. ASSUME NEW v \in Worker, CallRecover(v)
          PROVE  restarting[w] /\ seen'[w] = seen[w] /\ type'[w] = type[w]
      <3>1. v # w
        BY <2>4, <2>a DEF CallRecover, TypeOK
      <3>2. restarting[w] /\ type'[w] = type[w]
        BY <2>4, <2>a, <3>1 DEF CallRecover, TypeOK
      <3>3. seen'[w] = seen[w]
        BY <2>4, <3>1 DEF CallRecover
      <3> QED
        BY <3>2, <3>3
    <2>5. CASE UNCHANGED <<restarting, seen, type>>
      BY <2>5, <2>2, <2>b
    <2> QED
      BY <2>1, <2>2, <2>3, <2>4, <2>5, <2>b DEF Next, Tick, RecoverReturns, BackInService,
        RecoverAgain, JobEnds, vars
  <1> QED
    BY <1>1, <1>2, Invariance, PTL DEF Spec

\* A sampled batch is a signal to all the workers it hits, the end of a
\* restart delay and of a restore are the abstract ones.
LEMMA OutageStep == Inductive /\ [Next]_vars => [Abstract!Next]_(Abstract!vars)
  <1> SUFFICES ASSUME Inductive, [Next]_vars
               PROVE  Abstract!Next \/ UNCHANGED Abstract!vars
    OBVIOUS
  <1>a. TypeOK /\ OneRecoveryPerOutage
    BY DEF Inductive
  <1> DEFINE phases == [w \in Worker |-> PhaseOf(w)]
  <1>1. ASSUME NEW targets \in SUBSET Worker, NEW hit \in [targets -> FailureType], Sample(hit)
        PROVE  Abstract!Next \/ UNCHANGED Abstract!vars
    <2>1. phases' = [v \in Worker |-> IF v \in targets THEN "restart" ELSE phases[v]]
      <3>1. ASSUME NEW v \in Worker
            PROVE  PhaseOf(v)' = IF v \in targets THEN "restart" ELSE PhaseOf(v)
        BY <1>1, <1>a, SampleHits, SampleSpares DEF PhaseOf
      <3> QED
        BY <3>1
    <2>2. generation' = [v \in Worker |-> generation[v] + (IF v \in targets THEN 1 ELSE 0)]
      <3>1. \A v \in Worker : generation[v] \in Nat /\ generation[v] + 0 = generation[v]
        BY <1>a DEF TypeOK
      <3>2. generation' \in [Worker -> Nat]
        BY TypeStep, <1>a DEF TypeOK
      <3>3. ASSUME NEW v \in Worker
            PROVE  generation'[v] = generation[v] + (IF v \in targets THEN 1 ELSE 0)
        <4>1. CASE v \in targets
          BY <1>1, <1>a, <4>1, SampleHits, SampleSpares
        <4>2. CASE v \notin targets
          BY <1>1, <1>a, <3>1, <4>2, SampleHits, SampleSpares
        <4> QED
          BY <4>1, <4>2
      <3> QED
        BY <3>2, <3>3
    <2>3. \A v \in targets : generation[v] < MaxSignals[v]
      BY <1>1 DEF Sample
    <2>4. Abstract!Signal(targets)
      BY <2>1, <2>2, <2>3 DEF Abstract!Signal
    <2>5. CASE targets = {}
      <3>1. phases' = phases /\ generation' = generation
        BY <2>1, <2>2, <2>5, <1>a DEF TypeOK
      <3> QED
        BY <3>1 DEF Abstract!vars
    <2>6. CASE targets # {}
      <3>1. targets \in (SUBSET Worker) \ {{}}
        BY <2>6
      <3> QED
        BY <2>4, <3>1 DEF Abstract!Next
    <2> QED
      BY <2>5, <2>6
  <1>2. ASSUME NEW w \in Worker, CallRecover(w) PROVE Abstract!Next \/ UNCHANGED Abstract!vars
    <2>1. failed[w] /\ generation' = generation /\ failed' = failed
      BY <1>2, <1>a DEF CallRecover, OneRecoveryPerOutage
    <2>2. restarting' = [restarting EXCEPT ![w] = FALSE]
      BY <1>2 DEF CallRecover
    <2>3. CASE restarting[w]
      <3>1. phases[w] = "restart" /\ phases' = [phases EXCEPT ![w] = "restore"]
        BY <2>1, <2>2, <2>3, <1>a DEF PhaseOf, TypeOK
      <3>2. Abstract!Restarted(w)
        BY <3>1, <2>1 DEF Abstract!Restarted
      <3> QED
        BY <3>2 DEF Abstract!Next
    <2>4. CASE ~restarting[w]
      <3>1. restarting' = restarting
        BY <2>2, <2>4, <1>a DEF TypeOK
      <3> QED
        BY <3>1, <2>1 DEF Abstract!vars, PhaseOf
    <2> QED
      BY <2>3, <2>4
  <1>3. ASSUME NEW w \in Worker, BackInService(w) PROVE Abstract!Next
    <2>1. /\ failed[w] /\ ~restarting[w] /\ failed' = [failed EXCEPT ![w] = FALSE]
          /\ generation' = generation /\ restarting' = restarting
      BY <1>3, <1>a DEF BackInService, RecoveryAccepted, OneRecoveryPerOutage
    <2>2. phases[w] = "restore" /\ phases' = [phases EXCEPT ![w] = "up"]
      BY <2>1, <1>a DEF PhaseOf, TypeOK
    <2>3. Abstract!Restored(w)
      BY <2>1, <2>2 DEF Abstract!Restored
    <2> QED
      BY <2>3 DEF Abstract!Next
  <1>4. CASE UNCHANGED <<failed, restarting, generation>>
    BY <1>4 DEF Abstract!vars, PhaseOf
  <1> QED
    BY <1>1, <1>2, <1>3, <1>4 DEF Next, vars, Tick, RecoverReturns, RecoverAgain, JobEnds

\* The controller behaves as the abstract outage.
THEOREM ImplementsOutageCorrect == Spec => ImplementsOutageSafely
  <1>1. Init => Abstract!Init
    BY DEF Init, Abstract!Init, PhaseOf
  <1> QED
    BY <1>1, OutageStep, Invariance, PTL DEF Spec, ImplementsOutageSafely, Abstract!Safe

-----------------------------------------------------------------------------
(***************************************************************************)
(* TrainingBenchmark: the inductive invariant.                             *)
(***************************************************************************)

Label == Collectives \cup Ended \cup
  {"setup", "iteration", "microbatch", "receive_activation", "forward", "send_activation",
   "receive_gradient", "backward", "send_gradient", "optimizer", "checkpoint", "drain", "write"}

\* What only a stage of the pipeline does.
StageOnly == {"microbatch", "receive_activation", "forward", "send_activation",
              "receive_gradient", "backward", "send_gradient"}

\* A rank has ended its last iteration.
LoopOver == {"drain", "final_barrier", "write", "done"}

BenchmarkTyped ==
  /\ BenchmarkTypes
  /\ pc \in [Ranks -> Label]
  /\ operation \in [Ranks -> (Collectives \cup {"none", "send_activation", "send_gradient"})
                               \X (0 .. Total - 1) \X Nat]

\* What the point of the program says of the state of a rank.
AtPoint(r) ==
  /\ pc[r] \in {"origin", "setup"} => loop[r] = 0
  /\ pc[r] \in LoopOver => loop[r] + 1 = Total
  /\ pc[r] = "reduce" => ~Pipeline
  /\ pc[r] \in StageOnly => Pipeline
  /\ pc[r] = "microbatch" => microbatch[r] + 1 < Microbatches
  /\ pc[r] = "checkpoint" => Measured(r) /\ Due(Iteration(r)) /\ (Pipeline \/ r = 0)

\* Collectives of the first k iterations.
CollectivesOf(k) == IF Pipeline THEN k ELSE 2 * k

\* The number of a collective of iteration k.
Number(label, k) ==
  IF label = "origin" THEN 1
  ELSE IF label = "reduce" THEN 2 + CollectivesOf(k)
  ELSE IF label = "iteration_barrier" THEN 1 + CollectivesOf(k + 1)
  ELSE 2 + CollectivesOf(Total)

\* Collectives a rank is through with.
Through(r) ==
  IF pc[r] = "origin" THEN 0
  ELSE IF pc[r] \in {"optimizer", "checkpoint", "iteration_barrier"}
         THEN CollectivesOf(loop[r] + 1)
  ELSE IF pc[r] \in {"drain", "final_barrier"} THEN 1 + CollectivesOf(Total)
  ELSE IF pc[r] \in {"write", "done"} THEN 2 + CollectivesOf(Total)
  ELSE 1 + CollectivesOf(loop[r])

Waits(r) == pc[r] \in Collectives /\ operation[r] = <<pc[r], loop[r], entered[r]>>

\* A rank numbers the collectives as its program has them.
InStep(r) ==
  /\ pc[r] # "failed" => entered[r] = IF Waits(r) THEN Through(r) + 1 ELSE Through(r)
  /\ operation[r][1] \in Collectives =>
       /\ operation[r][3] = entered[r]
       /\ entered[r] = Number(operation[r][1], operation[r][2])
       /\ operation[r][1] = "origin" => operation[r][2] = 0
       /\ operation[r][1] = "final_barrier" => operation[r][2] + 1 = Total
       /\ operation[r][1] = "reduce" => ~Pipeline

\* Nobody is through with a collective before everybody has entered it, and of the
\* ranks that failed one did before the last.
Gathered ==
  /\ \A r, s \in Ranks :
       /\ pc[r] # "origin" => entered[s] >= 1
       /\ pc[r] \in {"write", "done"} => entered[s] >= 2 + CollectivesOf(Total)
  /\ (\E r \in Ranks : pc[r] = "failed") =>
       \E r \in Ranks : pc[r] = "failed" /\ entered[r] <= 1 + CollectivesOf(Total)

\* The checkpoints of a rank that are due so far.
DueBy(r) ==
  {i \in 1 .. Iterations :
     /\ Due(i) /\ (Pipeline \/ r = 0)
     /\ i + Warmup <= loop[r] + (IF pc[r] \in {"iteration_barrier"} \cup LoopOver THEN 1 ELSE 0)}

\* Each of them is complete, in a thread or in error, and none in the end.
Kept(r) ==
  /\ pc[r] # "failed" => complete[r] \cup threads[r] \cup errors[r] = DueBy(r)
  /\ pc[r] \in LoopOver \ {"drain"} => threads[r] = {} /\ errors[r] = {}
  /\ pc[r] = "done" => written[r] = complete[r]

\* Microbatches a stage has ended with the next one, and with the previous one.
WithNext(r) ==
  IF pc[r] \in {"origin", "setup", "iteration"} THEN 0
  ELSE IF pc[r] \in {"receive_activation", "forward", "send_activation", "receive_gradient"}
         THEN microbatch[r]
  ELSE IF pc[r] \in {"microbatch", "backward", "send_gradient"} THEN microbatch[r] + 1
  ELSE Microbatches
WithPrevious(r) ==
  IF pc[r] \in {"backward", "send_gradient"} THEN microbatch[r] ELSE WithNext(r)

\* How far a stage is with the next one, and with the previous one.
NextAt(r) == loop[r] * Microbatches + WithNext(r)
PreviousAt(r) == loop[r] * Microbatches + WithPrevious(r)

\* What a stage does at a microbatch while the previous stage waits for its gradient.
Busy == {"forward", "send_activation", "receive_gradient", "backward", "send_gradient"}

\* Neighbours are at the same microbatch, and one waits for the gradient as long as
\* the other works on it.
Abreast ==
  Pipeline => \A r \in Ranks : r + 1 \in Ranks =>
    /\ NextAt(r) = PreviousAt(r + 1)
    /\ pc[r] = "receive_gradient" <=> pc[r + 1] \in Busy

BenchmarkInductive ==
  /\ BenchmarkTyped
  /\ \A r \in Ranks : AtPoint(r) /\ InStep(r) /\ Kept(r)
  /\ Gathered
  /\ Abreast

-----------------------------------------------------------------------------
(* Numbers. *)

\* The assumption on the constants, in the form that the proofs use.
LEMMA Sizes ==
  /\ World \in Nat /\ World > 1 /\ Total \in Nat /\ Total > 0
  /\ Warmup \in Nat /\ Iterations \in Nat /\ Total = Warmup + Iterations
  /\ Microbatches \in Nat /\ Microbatches > 0 /\ MaxFaults \in Nat
  /\ Ranks = {r \in Nat : r < World} /\ 0 \in Ranks
  BY BenchmarkAssumption DEF BenchmarkAssumption, Ranks, Total

\* What the types say of a rank.
LEMMA Types ==
  ASSUME BenchmarkTyped, NEW u \in Ranks
  PROVE  /\ mode \in Modes /\ faults \in Nat /\ faults <= MaxFaults
         /\ pc[u] \in Label /\ loop[u] \in Nat /\ loop[u] + 1 <= Total
         /\ microbatch[u] \in Nat /\ microbatch[u] + 1 <= Microbatches /\ entered[u] \in Nat
         /\ operation[u] \in (Collectives \cup {"none", "send_activation", "send_gradient"})
                               \X (0 .. Total - 1) \X Nat
         /\ threads[u] \subseteq 1 .. Iterations /\ errors[u] \subseteq 1 .. Iterations
         /\ complete[u] \subseteq 1 .. Iterations /\ written[u] \subseteq 1 .. Iterations
         /\ DOMAIN pc = Ranks /\ DOMAIN loop = Ranks /\ DOMAIN microbatch = Ranks
         /\ DOMAIN entered = Ranks /\ DOMAIN operation = Ranks /\ DOMAIN threads = Ranks
         /\ DOMAIN errors = Ranks /\ DOMAIN complete = Ranks /\ DOMAIN written = Ranks
  <1>1. loop \in [Ranks -> 0 .. Total - 1] /\ entered \in [Ranks -> 0 .. 2 + 2 * Total]
    BY DEF BenchmarkTyped, BenchmarkTypes
  <1>2. /\ threads \in [Ranks -> SUBSET (1 .. Iterations)]
        /\ errors \in [Ranks -> SUBSET (1 .. Iterations)]
        /\ complete \in [Ranks -> SUBSET (1 .. Iterations)]
        /\ written \in [Ranks -> SUBSET (1 .. Iterations)]
    BY DEF BenchmarkTyped, BenchmarkTypes
  <1>3. loop[u] \in Nat /\ loop[u] + 1 <= Total /\ entered[u] \in Nat
    BY <1>1, Sizes
  <1>4. /\ microbatch \in [Ranks -> 0 .. Microbatches - 1] /\ mode \in Modes
        /\ faults \in 0 .. MaxFaults
    BY DEF BenchmarkTyped, BenchmarkTypes
  <1>5. microbatch[u] \in Nat /\ microbatch[u] + 1 <= Microbatches
    BY <1>4, Sizes
  <1>6. faults \in Nat /\ faults <= MaxFaults
    BY <1>4, Sizes
  <1>7. /\ operation[u] \in (Collectives \cup {"none", "send_activation", "send_gradient"})
                               \X (0 .. Total - 1) \X Nat
        /\ DOMAIN operation = Ranks /\ pc[u] \in Label /\ DOMAIN pc = Ranks
    BY DEF BenchmarkTyped
  <1> QED
    BY <1>1, <1>2, <1>3, <1>4, <1>5, <1>6, <1>7

\* Each iteration has as many collectives.
LEMMA Counting ==
  /\ \A k \in Nat : CollectivesOf(k) \in Nat /\ CollectivesOf(k) <= 2 * k
  /\ \A k, l \in Nat : k <= l => CollectivesOf(k) <= CollectivesOf(l)
  /\ \A k \in Nat : CollectivesOf(k + 1) = CollectivesOf(k) + (IF Pipeline THEN 1 ELSE 2)
  /\ CollectivesOf(0) = 0
  BY DEF CollectivesOf

\* The microbatches of an iteration make up a whole iteration, and a microbatch belongs to one.
LEMMA Multiples ==
  /\ \A k \in Nat : /\ k * Microbatches \in Nat
                     /\ (k + 1) * Microbatches = k * Microbatches + Microbatches
  /\ \A k, l \in Nat : k < l => k * Microbatches + Microbatches <= l * Microbatches
  <1>1. Microbatches \in Nat
    BY Sizes
  <1>2. ASSUME NEW k \in Nat
        PROVE  k * Microbatches \in Nat /\ (k + 1) * Microbatches = k * Microbatches + Microbatches
    BY <1>1
  <1>3. ASSUME NEW k \in Nat, NEW l \in Nat, k < l
        PROVE  k * Microbatches + Microbatches <= l * Microbatches
    <2>1. PICK d \in Nat : l = k + 1 + d
      <3>1. l - k - 1 \in Nat /\ l = k + 1 + (l - k - 1)
        BY <1>3
      <3> QED
        BY <3>1
    <2>2. l * Microbatches = (k + 1) * Microbatches + d * Microbatches
      BY <1>1, <2>1
    <2>3. d * Microbatches \in Nat
      BY <1>1, <2>1
    <2>4. /\ k * Microbatches \in Nat /\ l * Microbatches \in Nat
          /\ (k + 1) * Microbatches = k * Microbatches + Microbatches
      BY <1>1, <1>2
    <2> QED
      BY <1>1, <2>2, <2>3, <2>4
  <1> QED
    BY <1>2, <1>3

\* Two stages that have ended as many microbatches are in the same one.
LEMMA SamePosition ==
  \A k, l \in Nat : \A a, b \in 0 .. Microbatches - 1 :
    k * Microbatches + a = l * Microbatches + b => k = l /\ a = b
  <1> TAKE k, l \in Nat
  <1> TAKE a, b \in 0 .. Microbatches - 1
  <1> HAVE k * Microbatches + a = l * Microbatches + b
  <1> DEFINE km == k * Microbatches
             lm == l * Microbatches
  <1>1. km \in Nat /\ lm \in Nat /\ Microbatches \in Nat
    BY Multiples, Sizes
  <1>2. (k < l => km + Microbatches <= lm) /\ (l < k => lm + Microbatches <= km)
    BY Multiples
  <1>3. km + a = lm + b
    OBVIOUS
  <1> HIDE DEF km, lm
  <1>4. k = l
    BY <1>1, <1>2, <1>3
  <1>5. km = lm
    BY <1>4 DEF km, lm
  <1> QED
    BY <1>1, <1>3, <1>4, <1>5

-----------------------------------------------------------------------------
(* What a rank does alone. *)

\* Nothing happens to a rank.
Still(u) ==
  /\ pc'[u] = pc[u] /\ loop'[u] = loop[u] /\ microbatch'[u] = microbatch[u]
  /\ entered'[u] = entered[u] /\ operation'[u] = operation[u]
  /\ threads'[u] = threads[u] /\ errors'[u] = errors[u]
  /\ complete'[u] = complete[u] /\ written'[u] = written[u]

\* Then what holds of it still does.
LEMMA StillHolds ==
  ASSUME NEW u \in Ranks, Still(u), mode' = mode, AtPoint(u), InStep(u), Kept(u)
  PROVE  AtPoint(u)' /\ InStep(u)' /\ Kept(u)'
  <1>1. Pipeline' = Pipeline /\ \A k : CollectivesOf(k)' = CollectivesOf(k)
    BY DEF Pipeline, CollectivesOf
  <1>2. AtPoint(u)'
    BY <1>1 DEF AtPoint, Still, Measured, Iteration
  <1>3. Through(u)' = Through(u) /\ Waits(u)' = Waits(u)
    BY <1>1 DEF Through, Waits, Still
  <1>4. \A label, k : Number(label, k)' = Number(label, k)
    BY <1>1 DEF Number
  <1>5. InStep(u)'
    BY <1>1, <1>3, <1>4 DEF InStep, Still
  <1>6. DueBy(u)' = DueBy(u)
    BY <1>1 DEF DueBy, Still
  <1>7. Kept(u)'
    BY <1>6 DEF Kept, Still
  <1> QED
    BY <1>2, <1>5, <1>7

\* A rank that goes on from a point that is no collective, and through none, is in
\* step: where it arrives at a collective it has not entered it.
LEMMA GoesOnInStep ==
  ASSUME NEW u \in Ranks, BenchmarkTyped, BenchmarkTyped', mode' = mode, InStep(u), AtPoint(u)',
         entered'[u] = entered[u], operation'[u] = operation[u],
         pc[u] \notin Collectives \cup {"failed"}, pc'[u] # "origin", Through(u)' = Through(u)
  PROVE  InStep(u)'
  <1>1. Pipeline' = Pipeline /\ \A k : CollectivesOf(k)' = CollectivesOf(k)
    BY DEF Pipeline, CollectivesOf
  <1>2. \A label, k : Number(label, k)' = Number(label, k)
    BY <1>1 DEF Number
  <1>3. entered[u] = Through(u)
    BY DEF InStep, Waits
  <1>4. ~Waits(u)'
    <2> SUFFICES ASSUME Waits(u)' PROVE FALSE
      OBVIOUS
    <2>1. /\ pc'[u] \in {"reduce", "iteration_barrier", "final_barrier"}
          /\ operation[u] = <<pc'[u], loop'[u], entered[u]>>
      BY DEF Waits, Collectives
    <2>2. operation[u][1] = pc'[u] /\ operation[u][2] = loop'[u]
      BY <2>1
    <2>3. entered[u] = Number(pc'[u], loop'[u])
      BY <2>1, <2>2 DEF InStep, Collectives
    <2>4. loop'[u] \in Nat /\ loop'[u] + 1 \in Nat /\ Total \in Nat
      <3>1. loop' \in [Ranks -> 0 .. Total - 1]
        BY DEF BenchmarkTyped, BenchmarkTypes
      <3>2. loop'[u] \in Nat
        BY <3>1, Sizes
      <3> QED
        BY <3>2, Sizes
    <2>5. Number(pc'[u], loop'[u]) = Through(u)' + 1 /\ Through(u)' \in Nat
      <3>1. /\ CollectivesOf(loop'[u]) \in Nat /\ CollectivesOf(loop'[u] + 1) \in Nat
            /\ CollectivesOf(Total) \in Nat
        BY <2>4, Counting
      <3>2. Through(u)' = IF pc'[u] = "reduce" THEN 1 + CollectivesOf(loop'[u])
                          ELSE IF pc'[u] = "iteration_barrier" THEN CollectivesOf(loop'[u] + 1)
                          ELSE 1 + CollectivesOf(Total)
        BY <1>1, <2>1 DEF Through
      <3> QED
        BY <2>1, <3>1, <3>2 DEF Number
    <2> QED
      BY <1>3, <2>3, <2>5
  <1>5. pc'[u] # "failed" => entered'[u] = IF Waits(u)' THEN Through(u)' + 1 ELSE Through(u)'
    BY <1>3, <1>4
  <1> QED
    BY <1>1, <1>2, <1>5 DEF InStep

-----------------------------------------------------------------------------
(* Types. *)

\* Where a collective leads.
LEMMA Afterwards ==
  ASSUME NEW r \in Ranks
  PROVE  /\ After(r, "origin") = "setup"
         /\ After(r, "reduce") = "optimizer"
         /\ loop[r] + 1 < Total => After(r, "iteration_barrier") = "iteration"
         /\ ~(loop[r] + 1 < Total) => After(r, "iteration_barrier") = "drain"
         /\ After(r, "final_barrier") = "write"
  BY ZenonT(30) DEF After

\* The initial state is typed.
LEMMA TypedInit == BenchmarkInit => BenchmarkTyped
  <1> SUFFICES ASSUME BenchmarkInit PROVE BenchmarkTyped
    OBVIOUS
  <1>1. 0 \in 0 .. Total - 1 /\ 0 \in 0 .. Microbatches - 1 /\ 0 \in 0 .. 2 + 2 * Total
        /\ 0 \in 0 .. MaxFaults
    BY Sizes
  <1>2. BenchmarkTypes
    <2>1. /\ threads \in [Ranks -> SUBSET (1 .. Iterations)]
          /\ errors \in [Ranks -> SUBSET (1 .. Iterations)]
          /\ complete \in [Ranks -> SUBSET (1 .. Iterations)]
          /\ written \in [Ranks -> SUBSET (1 .. Iterations)]
      BY DEF BenchmarkInit
    <2> QED
      BY <1>1, <2>1 DEF BenchmarkInit, BenchmarkTypes
  <1>3. /\ "origin" \in Label
        /\ "none" \in Collectives \cup {"none", "send_activation", "send_gradient"}
    BY DEF Label, Collectives
  <1> QED
    BY <1>1, <1>2, <1>3 DEF BenchmarkInit, BenchmarkTyped

\* What a rank enters next is not beyond the last collective.
LEMMA EntersFits ==
  ASSUME BenchmarkTyped, NEW r \in Ranks, InStep(r), AtPoint(r), Enter(r)
  PROVE  /\ entered[r] = Through(r) /\ Through(r) + 1 = Number(pc[r], loop[r])
         /\ entered[r] + 1 \in 0 .. 2 + 2 * Total
  <1>1. pc[r] \in Collectives /\ ~Waits(r)
    BY DEF Enter, Waits
  <1>2. entered[r] = Through(r)
    BY <1>1 DEF InStep, Collectives
  <1>3. loop[r] \in Nat /\ loop[r] + 1 \in Nat /\ loop[r] + 1 <= Total /\ Total \in Nat
    <2>1. loop[r] \in Nat /\ loop[r] + 1 <= Total
      BY Types
    <2> QED
      BY <2>1, Sizes
  <1>4. /\ CollectivesOf(loop[r]) \in Nat /\ CollectivesOf(loop[r] + 1) \in Nat
        /\ CollectivesOf(Total) \in Nat /\ CollectivesOf(loop[r]) <= 2 * loop[r]
        /\ CollectivesOf(loop[r] + 1) <= 2 * (loop[r] + 1) /\ CollectivesOf(Total) <= 2 * Total
    BY <1>3, Counting
  <1>5. Through(r) + 1 = Number(pc[r], loop[r])
    BY <1>1, <1>3, <1>4 DEF Through, Number, Collectives
  <1>6. Through(r) \in Nat /\ Through(r) <= 1 + 2 * Total
    BY <1>1, <1>3, <1>4 DEF Through, Collectives
  <1> QED
    BY <1>2, <1>3, <1>5, <1>6

\* A step keeps the types.
LEMMA TypedStep ==
  ASSUME BenchmarkTyped, \A u \in Ranks : AtPoint(u) /\ InStep(u) /\ Kept(u),
         NEW r \in Ranks, Step(r)
  PROVE  BenchmarkTyped'
  <1> DEFINE Op == (Collectives \cup {"none", "send_activation", "send_gradient"})
                     \X (0 .. Total - 1) \X Nat
             Sets == [Ranks -> SUBSET (1 .. Iterations)]
             Rest == /\ mode \in Modes /\ loop \in [Ranks -> 0 .. Total - 1]
                     /\ microbatch \in [Ranks -> 0 .. Microbatches - 1]
                     /\ entered \in [Ranks -> 0 .. 2 + 2 * Total]
                     /\ faults \in 0 .. MaxFaults /\ operation \in [Ranks -> Op]
             Books == threads \in Sets /\ errors \in Sets /\ complete \in Sets /\ written \in Sets
  <1>1. Rest /\ Books /\ pc \in [Ranks -> Label]
    BY DEF BenchmarkTyped, BenchmarkTypes
  <1>2. Rest' /\ Books' /\ (pc \in [Ranks -> Label])' => BenchmarkTyped'
    BY DEF BenchmarkTyped, BenchmarkTypes
  <1>3. ASSUME NEW label \in Label, Goto(r, label) PROVE (pc \in [Ranks -> Label])'
    BY <1>1, <1>3 DEF Goto
  <1>4. ASSUME UNCHANGED <<mode, loop, microbatch, entered, operation, faults>> PROVE Rest'
    BY <1>1, <1>4
  <1>5. ASSUME UNCHANGED <<threads, errors, complete, written>> PROVE Books'
    BY <1>1, <1>5
  <1>6. /\ loop[r] \in Nat /\ loop[r] + 1 <= Total /\ microbatch[r] \in Nat
        /\ microbatch[r] + 1 <= Microbatches /\ loop[r] \in 0 .. Total - 1
        /\ microbatch[r] \in 0 .. Microbatches - 1
    BY <1>1, Types, Sizes
  <1>7. /\ threads[r] \in SUBSET (1 .. Iterations) /\ errors[r] \in SUBSET (1 .. Iterations)
        /\ complete[r] \in SUBSET (1 .. Iterations)
    BY <1>1
  <1> HIDE DEF Rest, Books, Op, Sets
  <1>8. /\ "setup" \in Label /\ "iteration" \in Label /\ "reduce" \in Label
        /\ "optimizer" \in Label /\ "checkpoint" \in Label /\ "iteration_barrier" \in Label
        /\ "forward" \in Label /\ "receive_activation" \in Label /\ "send_activation" \in Label
        /\ "backward" \in Label /\ "send_gradient" \in Label /\ "receive_gradient" \in Label
        /\ "microbatch" \in Label /\ "failed" \in Label /\ "final_barrier" \in Label
        /\ "drain" \in Label /\ "write" \in Label /\ "done" \in Label
    BY DEF Label, Collectives, Ended
  <1>9. AfterMicrobatch(r) \in Label
    BY <1>8 DEF AfterMicrobatch
  <1>10. CASE Enter(r)
    <2>1. entered' \in [Ranks -> 0 .. 2 + 2 * Total]
      BY <1>10, <1>1, EntersFits DEF Enter, Rest
    <2>2. operation' \in [Ranks -> Op]
      <3>1. <<pc[r], loop[r], entered[r] + 1>> \in Op
        <4>1. entered[r] + 1 \in Nat /\ pc[r] \in Collectives
          <5>1. entered[r] + 1 \in 0 .. 2 + 2 * Total
            BY <1>10, EntersFits
          <5>2. pc[r] \in Collectives
            BY <1>10 DEF Enter
          <5> QED
            BY <5>1, <5>2, Sizes
        <4> QED
          BY <1>6, <4>1 DEF Op
      <3> QED
        BY <1>10, <1>1, <3>1 DEF Enter, Rest
    <2>3. Rest'
      BY <1>10, <1>1, <2>1, <2>2 DEF Enter, Rest
    <2> QED
      BY <1>10, <1>1, <1>2, <1>5, <2>3 DEF Enter
  <1>11. CASE Leave(r)
    <2>1. After(r, pc[r]) \in Label
      BY <1>11, <1>8, Afterwards DEF Leave, Collectives
    <2>2. loop' \in [Ranks -> 0 .. Total - 1]
      <3>1. loop[r] + 1 < Total => loop[r] + 1 \in 0 .. Total - 1
        BY <1>6, Sizes
      <3> QED
        BY <1>11, <1>1, <3>1 DEF Leave, Rest
    <2>3. Rest'
      BY <1>11, <1>1, <2>2 DEF Leave, Rest
    <2> QED
      BY <1>11, <1>1, <1>2, <1>3, <1>5, <2>1, <2>3 DEF Leave
  <1>12. CASE SetupReplica(r) \/ SetupStage(r) \/ ReplicaPass(r)
    BY <1>12, <1>2, <1>3, <1>4, <1>5, <1>8 DEF SetupReplica, SetupStage, ReplicaPass
  <1>13. CASE OptimizeReplica(r) \/ OptimizeStage(r)
    <2>1. \E label \in Label : Goto(r, label)
      BY <1>13, <1>8 DEF OptimizeReplica, OptimizeStage
    <2> QED
      BY <1>13, <1>2, <1>3, <1>4, <1>5, <2>1 DEF OptimizeReplica, OptimizeStage
  <1>14. CASE StartMicrobatch(r)
    <2>1. \E label \in Label : Goto(r, label)
      BY <1>14, <1>8 DEF StartMicrobatch
    <2>2. NextMicrobatch(r) \in 0 .. Microbatches - 1
      <3>1. pc[r] = "microbatch" => microbatch[r] + 1 < Microbatches
        BY DEF AtPoint
      <3> QED
        BY <1>14, <1>6, <3>1, Sizes DEF StartMicrobatch, NextMicrobatch
    <2>3. Rest'
      BY <1>14, <1>1, <2>2 DEF StartMicrobatch, Rest
    <2> QED
      BY <1>14, <1>2, <1>3, <1>5, <2>1, <2>3 DEF StartMicrobatch
  <1>15. CASE Forward(r) \/ Backward(r)
    <2>1. \E label \in Label : Goto(r, label)
      BY <1>15, <1>8, <1>9 DEF Forward, Backward
    <2> QED
      BY <1>15, <1>2, <1>3, <1>4, <1>5, <2>1 DEF Forward, Backward
  <1>16. ASSUME NEW s \in Ranks, NEW t \in Ranks, NEW send \in {"send_activation", "send_gradient"},
                NEW receive, NEW sent \in Label, NEW received \in Label,
                Transfer(s, t, send, receive, sent, received),
                UNCHANGED <<mode, loop, microbatch, entered, threads, errors, complete,
                            written, faults>>
         PROVE  BenchmarkTyped'
    <2>1. (pc \in [Ranks -> Label])'
      BY <1>16, <1>1 DEF Transfer
    <2>2. <<send, loop[s], microbatch[s]>> \in Op /\ <<send, loop[t], microbatch[t]>> \in Op
      <3>1. /\ loop[s] \in 0 .. Total - 1 /\ microbatch[s] \in Nat
            /\ loop[t] \in 0 .. Total - 1 /\ microbatch[t] \in Nat
        BY <1>1, Sizes DEF Rest
      <3> QED
        BY <1>16, <3>1 DEF Op
    <2>3. operation' \in [Ranks -> Op]
      BY <1>16, <1>1, <2>2 DEF Transfer, Rest
    <2>4. Rest'
      BY <1>16, <1>1, <2>3 DEF Rest
    <2> QED
      BY <1>16, <1>2, <1>5, <2>1, <2>4
  <1>17. CASE ActivationTransfer(r)
    BY <1>17, <1>8, <1>16 DEF ActivationTransfer
  <1>18. CASE GradientTransfer(r)
    BY <1>18, <1>8, <1>9, <1>16 DEF GradientTransfer
  <1>19. CASE Checkpoint(r)
    <2>1. \E label \in Label : Goto(r, label)
      BY <1>19, <1>8 DEF Checkpoint
    <2>2. Iteration(r) \in 1 .. Iterations
      <3>1. loop[r] >= Warmup
        BY <1>19 DEF Checkpoint, AtPoint, Measured
      <3> QED
        BY <1>6, <3>1, Sizes DEF Iteration
    <2>3. Rest'
      BY <1>19, <1>1, Sizes DEF Checkpoint, Rest
    <2>4. Books'
      BY <1>19, <1>1, <1>7, <2>2 DEF Checkpoint, Persisted, Books, Sets
    <2> QED
      BY <1>2, <1>3, <2>1, <2>3, <2>4
  <1>20. CASE Drain(r)
    <2>1. \E label \in Label : Goto(r, label)
      BY <1>20, <1>8 DEF Drain, DrainOutcome
    <2> QED
      BY <1>20, <1>2, <1>3, <1>4, <1>5, <2>1 DEF Drain
  <1>21. CASE Write(r)
    <2>1. Books'
      BY <1>21, <1>1, <1>7 DEF Write, Books, Sets
    <2> QED
      BY <1>21, <1>2, <1>3, <1>4, <1>8, <2>1 DEF Write
  <1>22. CASE TimeOut(r)
    BY <1>22, <1>2, <1>3, <1>4, <1>5, <1>8 DEF TimeOut
  <1>23. CASE \E i \in 1 .. Iterations : ThreadEnds(r, i)
    <2>1. PICK i \in 1 .. Iterations : ThreadEnds(r, i)
      BY <1>23
    <2>2. Rest'
      BY <1>1, <2>1, Sizes DEF ThreadEnds, Rest
    <2>3. Books'
      BY <1>1, <1>7, <2>1 DEF ThreadEnds, Persisted, Books, Sets
    <2> QED
      BY <1>1, <1>2, <2>1, <2>2, <2>3 DEF ThreadEnds
  <1> QED
    BY <1>10, <1>11, <1>12, <1>13, <1>14, <1>15, <1>17, <1>18, <1>19, <1>20, <1>21, <1>22, <1>23
       DEF Step

-----------------------------------------------------------------------------
(* One rank. *)

\* A step changes nothing of a rank that does not take part in it.
LEMMA OthersStill ==
  ASSUME BenchmarkTyped, NEW r \in Ranks, Step(r), NEW u \in Ranks, u # r,
         ~(ActivationTransfer(r) /\ u = r + 1), ~(GradientTransfer(r) /\ u = r - 1)
  PROVE  Still(u)
  <1>1. /\ DOMAIN pc = Ranks /\ DOMAIN loop = Ranks /\ DOMAIN microbatch = Ranks
        /\ DOMAIN entered = Ranks /\ DOMAIN operation = Ranks /\ DOMAIN threads = Ranks
        /\ DOMAIN errors = Ranks /\ DOMAIN complete = Ranks /\ DOMAIN written = Ranks
    BY Types
  <1>2. CASE Enter(r)
    BY <1>1, <1>2 DEF Enter, Still
  <1>3. CASE Leave(r)
    BY <1>1, <1>3 DEF Leave, Goto, Still
  <1>4. CASE SetupReplica(r) \/ ReplicaPass(r) \/ OptimizeReplica(r)
    BY <1>1, <1>4 DEF SetupReplica, ReplicaPass, OptimizeReplica, Goto, Still
  <1>5. CASE SetupStage(r) \/ StartMicrobatch(r) \/ Forward(r) \/ Backward(r) \/ OptimizeStage(r)
    BY <1>1, <1>5 DEF SetupStage, StartMicrobatch, Forward, Backward, OptimizeStage, Goto, Still
  <1>6. CASE ActivationTransfer(r)
    BY <1>1, <1>6 DEF ActivationTransfer, Transfer, Still
  <1>7. CASE GradientTransfer(r)
    BY <1>1, <1>7 DEF GradientTransfer, Transfer, Still
  <1>8. CASE Checkpoint(r)
    BY <1>1, <1>8 DEF Checkpoint, Persisted, Goto, Still
  <1>9. CASE Drain(r) \/ Write(r) \/ TimeOut(r)
    BY <1>1, <1>9 DEF Drain, Write, TimeOut, Goto, Still
  <1>10. CASE \E i \in 1 .. Iterations : ThreadEnds(r, i)
    BY <1>1, <1>10 DEF ThreadEnds, Persisted, Still
  <1> QED
    BY <1>2, <1>3, <1>4, <1>5, <1>6, <1>7, <1>8, <1>9, <1>10 DEF Step

\* The mode stays.
LEMMA ModeStays ==
  ASSUME NEW r \in Ranks, Step(r)
  PROVE  mode' = mode
  BY DEF Step, Enter, Leave, SetupReplica, ReplicaPass, OptimizeReplica, SetupStage,
         StartMicrobatch, Forward, Backward, OptimizeStage, ActivationTransfer,
         GradientTransfer, Checkpoint, Drain, Write, TimeOut, ThreadEnds

\* No more checkpoints are due while a rank is at work in an iteration, nor in the end.
LEMMA DueSame ==
  ASSUME NEW r \in Ranks, mode' = mode, loop'[r] = loop[r],
         pc[r] \in {"iteration_barrier"} \cup LoopOver
           <=> pc'[r] \in {"iteration_barrier"} \cup LoopOver
  PROVE  DueBy(r)' = DueBy(r)
  <1>1. Pipeline' = Pipeline
    BY DEF Pipeline
  <1> QED
    BY <1>1 DEF DueBy, LoopOver

\* When a rank is through with the work of an iteration, the checkpoint of the iteration
\* becomes due, if it is.
LEMMA DueNow ==
  ASSUME BenchmarkTyped, NEW r \in Ranks, mode' = mode, loop'[r] = loop[r],
         pc[r] \notin {"iteration_barrier"} \cup LoopOver, pc'[r] = "iteration_barrier"
  PROVE  DueBy(r)' = DueBy(r) \cup
                     (IF Measured(r) /\ Due(Iteration(r)) /\ (Pipeline \/ r = 0)
                        THEN {Iteration(r)} ELSE {})
  <1> DEFINE n == loop[r]
  <1>1. n \in Nat /\ n + 1 <= Total
    BY Types
  <1>2. Pipeline' = Pipeline
    BY DEF Pipeline
  <1>3. DueBy(r) = {i \in 1 .. Iterations : Due(i) /\ (Pipeline \/ r = 0) /\ i + Warmup <= n}
    BY <1>1, Sizes DEF DueBy
  <1>4. DueBy(r)' = {i \in 1 .. Iterations : Due(i) /\ (Pipeline \/ r = 0) /\ i + Warmup <= n + 1}
    BY <1>1, <1>2, Sizes DEF DueBy
  <1>5. \A i \in 1 .. Iterations :
          i + Warmup <= n + 1 <=> (i + Warmup <= n \/ (n >= Warmup /\ i = n + 1 - Warmup))
    BY <1>1, Sizes
  <1>6. n >= Warmup => n + 1 - Warmup \in 1 .. Iterations
    BY <1>1, Sizes
  <1>7. Measured(r) = (n >= Warmup) /\ Iteration(r) = n + 1 - Warmup
    BY DEF Measured, Iteration
  <1> HIDE DEF n
  <1> QED
    BY <1>3, <1>4, <1>5, <1>6, <1>7

\* What the work of a rank does to its point of the program.
From(r, a, b) == pc[r] = a /\ pc'[r] = b
Proceeds(r) ==
  \/ From(r, "setup", "iteration")
  \/ ~Pipeline /\ From(r, "iteration", "reduce")
  \/ From(r, "optimizer", "checkpoint")
       /\ Measured(r) /\ Due(Iteration(r)) /\ (Pipeline \/ r = 0)
  \/ From(r, "optimizer", "iteration_barrier")
       /\ ~(Measured(r) /\ Due(Iteration(r)) /\ (Pipeline \/ r = 0))
  \/ /\ Pipeline /\ pc[r] \in {"iteration", "microbatch"}
     /\ pc'[r] = (IF r = 0 THEN "forward" ELSE "receive_activation")
     /\ microbatch'[r] = (IF pc[r] = "iteration" THEN 0 ELSE microbatch[r] + 1)
  \/ From(r, "forward", "send_activation") /\ microbatch'[r] = microbatch[r]
  \/ From(r, "forward", "backward") /\ microbatch'[r] = microbatch[r] /\ r + 1 \notin Ranks
  \/ From(r, "backward", "send_gradient") /\ microbatch'[r] = microbatch[r]
  \/ /\ From(r, "backward", "microbatch") /\ microbatch'[r] = microbatch[r]
     /\ microbatch[r] + 1 < Microbatches /\ r = 0
  \/ From(r, "backward", "optimizer") /\ microbatch[r] + 1 = Microbatches /\ r = 0
  \/ From(r, "drain", "failed")
  \/ From(r, "drain", "final_barrier") /\ threads[r] = {} /\ errors[r] = {}

\* They are all the moves of a rank that works.
LEMMA WorkMoves ==
  ASSUME BenchmarkTyped, NEW r \in Ranks,
         \/ SetupReplica(r) \/ ReplicaPass(r) \/ OptimizeReplica(r)
         \/ SetupStage(r) \/ StartMicrobatch(r) \/ Forward(r) \/ Backward(r)
         \/ OptimizeStage(r) \/ Drain(r)
  PROVE  Proceeds(r)
  <1>1. /\ DOMAIN pc = Ranks /\ DOMAIN microbatch = Ranks /\ microbatch[r] \in Nat
        /\ microbatch[r] + 1 <= Microbatches
    BY Types
  <1>2. CASE SetupReplica(r) \/ SetupStage(r) \/ ReplicaPass(r)
    BY <1>1, <1>2 DEF SetupReplica, SetupStage, ReplicaPass, Goto, Proceeds, From
  <1>3. CASE OptimizeReplica(r) \/ OptimizeStage(r)
    BY <1>1, <1>3 DEF OptimizeReplica, OptimizeStage, Goto, Proceeds, From
  <1>4. CASE StartMicrobatch(r)
    BY <1>1, <1>4 DEF StartMicrobatch, NextMicrobatch, Goto, Proceeds, From
  <1>5. CASE Forward(r)
    <2>1. ~(r < World - 1) => r + 1 \notin Ranks
      BY Sizes
    <2> QED
      BY <1>1, <1>5, <2>1 DEF Forward, Goto, Proceeds, From
  <1>6. CASE Backward(r)
    <2>1. ~(r > 0) => r = 0
      BY Sizes
    <2>2. \/ From(r, "backward", "send_gradient") /\ microbatch'[r] = microbatch[r]
          \/ /\ From(r, "backward", "microbatch") /\ microbatch'[r] = microbatch[r]
             /\ microbatch[r] + 1 < Microbatches /\ r = 0
          \/ From(r, "backward", "optimizer") /\ microbatch[r] + 1 = Microbatches /\ r = 0
      BY <1>1, <1>6, <2>1, Sizes DEF Backward, AfterMicrobatch, Goto, From
    <2> QED
      BY <2>2 DEF Proceeds
  <1>7. CASE Drain(r)
    BY <1>1, <1>7 DEF Drain, DrainOutcome, Drained, Goto, Proceeds, From
  <1> QED
    BY <1>2, <1>3, <1>4, <1>5, <1>6, <1>7

\* The own steps of a rank that persist nothing and meet nobody.
LEMMA WorkStep ==
  ASSUME BenchmarkTyped, BenchmarkTyped', NEW r \in Ranks, AtPoint(r), InStep(r), Kept(r),
         \/ SetupReplica(r) \/ ReplicaPass(r) \/ OptimizeReplica(r)
         \/ SetupStage(r) \/ StartMicrobatch(r) \/ Forward(r) \/ Backward(r)
         \/ OptimizeStage(r) \/ Drain(r)
  PROVE  AtPoint(r)' /\ InStep(r)' /\ Kept(r)'
  <1>1. /\ mode' = mode /\ loop'[r] = loop[r] /\ entered'[r] = entered[r]
        /\ operation'[r] = operation[r] /\ threads'[r] = threads[r] /\ errors'[r] = errors[r]
        /\ complete'[r] = complete[r] /\ written'[r] = written[r]
    BY DEF SetupReplica, ReplicaPass, OptimizeReplica, SetupStage, StartMicrobatch, Forward,
           Backward, OptimizeStage, Drain
  <1>3. /\ Pipeline' = Pipeline /\ Measured(r)' = Measured(r) /\ Iteration(r)' = Iteration(r)
        /\ \A k : CollectivesOf(k)' = CollectivesOf(k)
    BY <1>1 DEF Pipeline, Measured, Iteration, CollectivesOf
  <1>4. /\ loop[r] \in Nat /\ loop[r] + 1 <= Total /\ microbatch[r] \in Nat
        /\ microbatch[r] + 1 <= Microbatches
    BY Types
  <1>5. /\ CollectivesOf(loop[r]) \in Nat
        /\ CollectivesOf(loop[r] + 1) = CollectivesOf(loop[r]) + (IF Pipeline THEN 1 ELSE 2)
        /\ CollectivesOf(0) = 0
    BY <1>4, Counting
  <1>6. Proceeds(r)
    BY WorkMoves
  <1>7. AtPoint(r)'
    BY <1>1, <1>3, <1>6 DEF Proceeds, From, AtPoint, LoopOver, StageOnly
  <1>8. /\ pc[r] \notin Collectives \cup {"failed"} /\ pc'[r] # "origin"
    BY <1>6 DEF Proceeds, From, Collectives
  <1>9. pc'[r] # "failed" => Through(r)' = Through(r)
    BY <1>1, <1>3, <1>4, <1>5, <1>6 DEF Proceeds, From, Through, AtPoint, StageOnly
  <1>10. InStep(r)'
    <2>1. CASE pc'[r] = "failed"
      <3>1. \A label, k : Number(label, k)' = Number(label, k)
        BY <1>3 DEF Number
      <3> QED
        BY <1>1, <1>3, <2>1, <3>1 DEF InStep
    <2>2. CASE pc'[r] # "failed"
      BY <1>1, <1>7, <1>8, <1>9, <2>2, GoesOnInStep
    <2> QED
      BY <2>1, <2>2
  <1>11. pc'[r] # "failed" => DueBy(r)' = DueBy(r)
    <2>1. CASE From(r, "optimizer", "iteration_barrier")
                 /\ ~(Measured(r) /\ Due(Iteration(r)) /\ (Pipeline \/ r = 0))
      BY <1>1, <2>1, DueNow DEF From, LoopOver
    <2>2. CASE ~(From(r, "optimizer", "iteration_barrier")) /\ pc'[r] # "failed"
      <3>1. pc[r] \in {"iteration_barrier"} \cup LoopOver
             <=> pc'[r] \in {"iteration_barrier"} \cup LoopOver
        BY <1>6, <2>2 DEF Proceeds, From, LoopOver
      <3> QED
        BY <1>1, <3>1, DueSame
    <2> QED
      BY <1>6, <2>1, <2>2 DEF Proceeds, From
  <1>12. Kept(r)'
    BY <1>1, <1>6, <1>11 DEF Proceeds, From, Kept, LoopOver
  <1> QED
    BY <1>7, <1>10, <1>12

\* The two stages of a transfer.
LEMMA TransferStep ==
  ASSUME BenchmarkTyped, NEW u \in Ranks, AtPoint(u), InStep(u), Kept(u), mode' = mode,
         loop'[u] = loop[u], microbatch'[u] = microbatch[u], entered'[u] = entered[u],
         threads'[u] = threads[u], errors'[u] = errors[u], complete'[u] = complete[u],
         written'[u] = written[u], operation'[u][1] \in {"send_activation", "send_gradient"},
         \/ pc[u] = "send_activation" /\ pc'[u] = "receive_gradient"
         \/ pc[u] = "receive_activation" /\ pc'[u] = "forward"
         \/ pc[u] = "send_gradient" /\ pc'[u] = AfterMicrobatch(u)
         \/ pc[u] = "receive_gradient" /\ pc'[u] = "backward"
  PROVE  AtPoint(u)' /\ InStep(u)' /\ Kept(u)'
  <1>1. /\ Pipeline' = Pipeline /\ \A k : CollectivesOf(k)' = CollectivesOf(k)
        /\ Pipeline /\ Measured(u)' = Measured(u) /\ Iteration(u)' = Iteration(u)
    BY DEF Pipeline, Measured, Iteration, CollectivesOf, AtPoint, StageOnly
  <1>2. \/ pc'[u] \in {"receive_gradient", "forward", "backward"}
        \/ pc'[u] = "microbatch" /\ microbatch[u] + 1 < Microbatches
        \/ pc'[u] = "optimizer"
    BY DEF AfterMicrobatch
  <1>3. AtPoint(u)'
    BY <1>1, <1>2 DEF AtPoint, LoopOver, StageOnly
  <1>4. entered[u] = Through(u)
    BY DEF InStep, Waits, Collectives
  <1>5. Through(u)' = Through(u)
    <2>1. loop[u] \in Nat
      BY Types
    <2>2. CollectivesOf(loop[u]) \in Nat /\ CollectivesOf(loop[u] + 1) = CollectivesOf(loop[u]) + 1
      BY <1>1, <2>1, Counting
    <2> QED
      BY <1>1, <1>2, <2>2 DEF Through
  <1>6. InStep(u)'
    <2>1. ~Waits(u)' /\ operation'[u][1] \notin Collectives
      BY <1>2 DEF Waits, Collectives
    <2> QED
      BY <1>4, <1>5, <2>1 DEF InStep
  <1>7. DueBy(u)' = DueBy(u)
    BY <1>2, DueSame DEF LoopOver
  <1>8. Kept(u)'
    BY <1>2, <1>7 DEF Kept, LoopOver
  <1> QED
    BY <1>3, <1>6, <1>8

\* A rank that enters a collective numbers it as its program has it.
LEMMA EnterStep ==
  ASSUME BenchmarkTyped, NEW r \in Ranks, AtPoint(r), InStep(r), Kept(r), Enter(r)
  PROVE  AtPoint(r)' /\ InStep(r)' /\ Kept(r)'
  <1>1. /\ mode' = mode /\ pc' = pc /\ loop' = loop /\ microbatch' = microbatch
        /\ threads' = threads /\ errors' = errors /\ complete' = complete /\ written' = written
        /\ pc[r] \in Collectives
    BY DEF Enter
  <1>2. /\ Pipeline' = Pipeline /\ \A k : CollectivesOf(k)' = CollectivesOf(k)
        /\ Measured(r)' = Measured(r) /\ Iteration(r)' = Iteration(r)
    BY <1>1 DEF Pipeline, Measured, Iteration, CollectivesOf
  <1>3. /\ entered'[r] = entered[r] + 1
        /\ operation'[r] = <<pc[r], loop[r], entered[r] + 1>>
    <2>1. DOMAIN entered = Ranks /\ DOMAIN operation = Ranks
      BY Types
    <2> QED
      BY <2>1 DEF Enter
  <1>4. AtPoint(r)' /\ Kept(r)'
    BY <1>1, <1>2 DEF AtPoint, Kept, DueBy
  <1>5. Through(r)' = Through(r) /\ \A label, k : Number(label, k)' = Number(label, k)
    BY <1>1, <1>2 DEF Through, Number
  <1>6. entered[r] = Through(r) /\ Through(r) + 1 = Number(pc[r], loop[r])
    BY EntersFits
  <1>7. Waits(r)'
    BY <1>1, <1>3 DEF Waits
  <1>8. /\ operation'[r][1] = pc[r] /\ operation'[r][2] = loop[r]
        /\ operation'[r][3] = entered[r] + 1
    BY <1>3
  <1>9. /\ pc[r] = "origin" => loop[r] = 0
        /\ pc[r] = "final_barrier" => loop[r] + 1 = Total
        /\ pc[r] = "reduce" => ~Pipeline
    BY DEF AtPoint, LoopOver
  <1>10. InStep(r)'
    BY <1>1, <1>2, <1>3, <1>5, <1>6, <1>7, <1>8, <1>9 DEF InStep
  <1> QED
    BY <1>4, <1>10

\* A rank that leaves one is through with one more.
LEMMA LeaveStep ==
  ASSUME BenchmarkTyped, BenchmarkTyped', NEW r \in Ranks, AtPoint(r), InStep(r), Kept(r),
         Leave(r)
  PROVE  /\ AtPoint(r)' /\ InStep(r)' /\ Kept(r)'
         /\ \/ pc[r] = "origin" /\ pc'[r] = "setup" /\ loop'[r] = loop[r]
            \/ pc[r] = "reduce" /\ pc'[r] = "optimizer" /\ loop'[r] = loop[r]
            \/ /\ pc[r] = "iteration_barrier" /\ pc'[r] = "iteration"
               /\ loop'[r] = loop[r] + 1
            \/ pc[r] = "iteration_barrier" /\ pc'[r] = "drain" /\ loop'[r] = loop[r]
            \/ pc[r] = "final_barrier" /\ pc'[r] = "write" /\ loop'[r] = loop[r]
         /\ entered[r] = Through(r) + 1
  <1> DEFINE Goes(a, b) == pc[r] = a /\ pc'[r] = b
  <1>1. /\ mode' = mode /\ microbatch' = microbatch /\ entered' = entered
        /\ operation' = operation /\ threads' = threads /\ errors' = errors
        /\ complete' = complete /\ written' = written
        /\ pc[r] \in Collectives /\ Waits(r)
    BY DEF Leave, Waits
  <1>2. DOMAIN pc = Ranks /\ DOMAIN loop = Ranks
    BY Types
  <1>3. /\ Pipeline' = Pipeline /\ \A k : CollectivesOf(k)' = CollectivesOf(k)
    BY <1>1 DEF Pipeline, CollectivesOf
  <1>4. loop[r] \in Nat /\ loop[r] + 1 <= Total /\ Total \in Nat
    BY Types, Sizes
  <1>5. \/ Goes("origin", "setup") /\ loop'[r] = loop[r]
        \/ Goes("reduce", "optimizer") /\ loop'[r] = loop[r]
        \/ Goes("iteration_barrier", "iteration") /\ loop'[r] = loop[r] + 1
        \/ Goes("iteration_barrier", "drain") /\ loop'[r] = loop[r] /\ loop[r] + 1 = Total
        \/ Goes("final_barrier", "write") /\ loop'[r] = loop[r]
    <2>1. pc'[r] = After(r, pc[r])
      BY <1>2 DEF Leave, Goto
    <2>2. loop'[r] = IF pc[r] = "iteration_barrier" /\ loop[r] + 1 < Total
                       THEN loop[r] + 1 ELSE loop[r]
      BY <1>2 DEF Leave
    <2>3. pc[r] \in {"origin", "reduce", "iteration_barrier", "final_barrier"}
      BY <1>1 DEF Collectives
    <2> QED
      <3>1. /\ After(r, "origin") = "setup" /\ After(r, "reduce") = "optimizer"
            /\ loop[r] + 1 < Total => After(r, "iteration_barrier") = "iteration"
            /\ ~(loop[r] + 1 < Total) => After(r, "iteration_barrier") = "drain"
            /\ After(r, "final_barrier") = "write"
        BY Afterwards
      <3> QED
        BY <1>4, <2>1, <2>2, <2>3, <3>1
  <1>6. entered[r] = Through(r) + 1
    BY <1>1 DEF InStep, Collectives
  <1>7. AtPoint(r)'
    BY <1>1, <1>3, <1>5 DEF AtPoint, LoopOver, StageOnly
  <1>8. Through(r)' = Through(r) + 1
    <2>1. /\ CollectivesOf(loop[r]) \in Nat /\ CollectivesOf(Total) \in Nat
          /\ CollectivesOf(loop[r] + 1) = CollectivesOf(loop[r]) + (IF Pipeline THEN 1 ELSE 2)
          /\ CollectivesOf(0) = 0
      BY <1>4, Counting
    <2>2. CASE Goes("origin", "setup") /\ loop'[r] = loop[r]
      BY <1>3, <2>1, <2>2 DEF Through, AtPoint
    <2>3. CASE Goes("reduce", "optimizer") /\ loop'[r] = loop[r]
      BY <1>3, <2>1, <2>3 DEF Through, AtPoint
    <2>4. CASE Goes("iteration_barrier", "iteration") /\ loop'[r] = loop[r] + 1
      BY <1>3, <2>1, <2>4 DEF Through
    <2>5. CASE Goes("iteration_barrier", "drain") /\ loop'[r] = loop[r] /\ loop[r] + 1 = Total
      BY <1>3, <2>1, <2>5 DEF Through
    <2>6. CASE Goes("final_barrier", "write") /\ loop'[r] = loop[r]
      BY <1>3, <2>1, <2>6 DEF Through
    <2> QED
      BY <1>5, <2>2, <2>3, <2>4, <2>5, <2>6
  <1>9. InStep(r)'
    <2>1. ~Waits(r)'
      BY <1>5 DEF Waits, Collectives
    <2>2. \A label, k : Number(label, k)' = Number(label, k)
      BY <1>3 DEF Number
    <2> QED
      BY <1>1, <1>3, <1>6, <1>8, <2>1, <2>2 DEF InStep
  <1>10. DueBy(r)' = DueBy(r)
    <2>1. CASE Goes("iteration_barrier", "iteration") /\ loop'[r] = loop[r] + 1
      BY <1>3, <1>4, <2>1, Sizes DEF DueBy, LoopOver
    <2>2. CASE loop'[r] = loop[r] /\ ~Goes("iteration_barrier", "iteration")
      BY <1>1, <1>5, <2>2, DueSame DEF LoopOver
    <2> QED
      BY <1>5, <2>1, <2>2
  <1>11. Kept(r)'
    BY <1>1, <1>5, <1>10 DEF Kept, LoopOver
  <1> QED
    BY <1>5, <1>6, <1>7, <1>9, <1>11

\* A checkpoint that is due is persisted, left to a thread, or the rank fails.
LEMMA CheckpointStep ==
  ASSUME BenchmarkTyped, BenchmarkTyped', NEW r \in Ranks, AtPoint(r), InStep(r), Kept(r),
         Checkpoint(r)
  PROVE  AtPoint(r)' /\ InStep(r)' /\ Kept(r)'
  <1>1. /\ mode' = mode /\ loop'[r] = loop[r] /\ entered'[r] = entered[r]
        /\ operation'[r] = operation[r] /\ errors'[r] = errors[r] /\ written'[r] = written[r]
        /\ pc[r] = "checkpoint"
    BY DEF Checkpoint
  <1>2. DOMAIN pc = Ranks /\ DOMAIN threads = Ranks /\ DOMAIN complete = Ranks
    BY Types
  <1>3. /\ Pipeline' = Pipeline /\ \A k : CollectivesOf(k)' = CollectivesOf(k)
        /\ Measured(r) /\ Due(Iteration(r)) /\ (Pipeline \/ r = 0)
    BY <1>1 DEF Pipeline, CollectivesOf, AtPoint
  <1>4. CASE pc'[r] = "failed"
    <2>1. \A label, k : Number(label, k)' = Number(label, k)
      BY <1>3 DEF Number
    <2> QED
      BY <1>1, <1>3, <1>4, <2>1 DEF AtPoint, InStep, Kept, LoopOver, StageOnly
  <1>5. CASE pc'[r] # "failed"
    <2>1. /\ pc'[r] = "iteration_barrier"
          /\ \/ threads'[r] = threads[r] \cup {Iteration(r)} /\ complete'[r] = complete[r]
             \/ threads'[r] = threads[r] /\ complete'[r] = complete[r] \cup {Iteration(r)}
      BY <1>2, <1>5 DEF Checkpoint, Goto, Persisted
    <2>2. AtPoint(r)'
      BY <2>1 DEF AtPoint, LoopOver, StageOnly
    <2>3. Through(r)' = Through(r)
      BY <1>1, <1>3, <2>1 DEF Through
    <2>4. InStep(r)'
      <3>1. pc[r] \notin Collectives \cup {"failed"}
        BY <1>1 DEF Collectives
      <3> QED
        BY <1>1, <2>1, <2>2, <2>3, <3>1, GoesOnInStep
    <2>5. DueBy(r)' = DueBy(r) \cup {Iteration(r)}
      BY <1>1, <1>3, <2>1, DueNow DEF LoopOver
    <2>6. Kept(r)'
      BY <1>1, <2>1, <2>5 DEF Kept, LoopOver
    <2> QED
      BY <2>2, <2>4, <2>6
  <1> QED
    BY <1>4, <1>5

\* A thread ends: its checkpoint is not lost.
LEMMA ThreadStep ==
  ASSUME BenchmarkTyped, NEW r \in Ranks, AtPoint(r), InStep(r), Kept(r),
         NEW i \in 1 .. Iterations, ThreadEnds(r, i)
  PROVE  AtPoint(r)' /\ InStep(r)' /\ Kept(r)'
  <1>1. /\ mode' = mode /\ pc' = pc /\ loop' = loop /\ microbatch' = microbatch
        /\ entered' = entered /\ operation' = operation /\ written' = written
        /\ i \in threads[r]
    BY DEF ThreadEnds
  <1>2. DOMAIN threads = Ranks /\ DOMAIN complete = Ranks /\ DOMAIN errors = Ranks
    BY Types
  <1>3. /\ threads'[r] = threads[r] \ {i}
        /\ \/ complete'[r] = complete[r] \cup {i} /\ errors'[r] = errors[r]
           \/ complete'[r] = complete[r] /\ errors'[r] = errors[r] \cup {i}
    BY <1>2 DEF ThreadEnds, Persisted
  <1>4. /\ Pipeline' = Pipeline /\ \A k : CollectivesOf(k)' = CollectivesOf(k)
        /\ Measured(r)' = Measured(r) /\ Iteration(r)' = Iteration(r)
    BY <1>1 DEF Pipeline, Measured, Iteration, CollectivesOf
  <1>5. AtPoint(r)'
    BY <1>1, <1>4 DEF AtPoint
  <1>6. /\ Through(r)' = Through(r) /\ Waits(r)' = Waits(r)
        /\ \A label, k : Number(label, k)' = Number(label, k)
    BY <1>1, <1>4 DEF Through, Waits, Number
  <1>7. InStep(r)'
    BY <1>1, <1>4, <1>6 DEF InStep
  <1>8. DueBy(r)' = DueBy(r)
    BY <1>1, <1>4 DEF DueBy
  <1>9. pc[r] \notin LoopOver \ {"drain"}
    BY <1>1 DEF Kept
  <1>10. Kept(r)'
    <2>1. complete[r]' \cup threads[r]' \cup errors[r]' = complete[r] \cup threads[r] \cup errors[r]
      BY <1>1, <1>3
    <2>2. pc[r] # "done"
      BY <1>9 DEF LoopOver
    <2> QED
      BY <1>1, <1>8, <1>9, <2>1, <2>2 DEF Kept
  <1> QED
    BY <1>5, <1>7, <1>10

\* The trace of a rank has its complete checkpoints.
LEMMA WriteStep ==
  ASSUME BenchmarkTyped, BenchmarkTyped', NEW r \in Ranks, AtPoint(r), InStep(r), Kept(r),
         Write(r)
  PROVE  AtPoint(r)' /\ InStep(r)' /\ Kept(r)'
  <1>1. /\ mode' = mode /\ loop'[r] = loop[r] /\ entered'[r] = entered[r]
        /\ operation'[r] = operation[r] /\ threads'[r] = threads[r] /\ errors'[r] = errors[r]
        /\ complete'[r] = complete[r] /\ pc[r] = "write"
    BY DEF Write
  <1>2. pc'[r] = "done" /\ written'[r] = complete[r]
    <2>1. DOMAIN pc = Ranks /\ DOMAIN written = Ranks
      BY Types
    <2> QED
      BY <2>1 DEF Write, Goto
  <1>3. /\ Pipeline' = Pipeline /\ \A k : CollectivesOf(k)' = CollectivesOf(k)
    BY <1>1 DEF Pipeline, CollectivesOf
  <1>4. AtPoint(r)'
    BY <1>1, <1>2 DEF AtPoint, LoopOver, StageOnly
  <1>5. Through(r)' = Through(r)
    BY <1>1, <1>2, <1>3 DEF Through
  <1>6. InStep(r)'
    <2>1. pc[r] \notin Collectives \cup {"failed"}
      BY <1>1 DEF Collectives
    <2> QED
      BY <1>1, <1>2, <1>4, <1>5, <2>1, GoesOnInStep
  <1>7. DueBy(r)' = DueBy(r)
    BY <1>1, <1>2, DueSame DEF LoopOver
  <1>8. Kept(r)'
    BY <1>1, <1>2, <1>7 DEF Kept, LoopOver
  <1> QED
    BY <1>4, <1>6, <1>8

\* A rank that waits for one that failed fails.
LEMMA TimeOutStep ==
  ASSUME BenchmarkTyped, NEW r \in Ranks, AtPoint(r), InStep(r), Kept(r), TimeOut(r)
  PROVE  AtPoint(r)' /\ InStep(r)' /\ Kept(r)'
  <1>1. /\ mode' = mode /\ loop'[r] = loop[r] /\ entered'[r] = entered[r]
        /\ operation'[r] = operation[r]
    BY DEF TimeOut
  <1>2. pc'[r] = "failed"
    <2>1. DOMAIN pc = Ranks
      BY Types
    <2> QED
      BY <2>1 DEF TimeOut, Goto
  <1>3. /\ Pipeline' = Pipeline /\ \A k : CollectivesOf(k)' = CollectivesOf(k)
    BY <1>1 DEF Pipeline, CollectivesOf
  <1>4. \A label, k : Number(label, k)' = Number(label, k)
    BY <1>3 DEF Number
  <1> QED
    BY <1>1, <1>2, <1>3, <1>4 DEF AtPoint, InStep, Kept, LoopOver, StageOnly

\* A step keeps what holds of each rank.
LEMMA RanksStep ==
  ASSUME BenchmarkTyped, BenchmarkTyped',
         \A u \in Ranks : AtPoint(u) /\ InStep(u) /\ Kept(u), NEW r \in Ranks, Step(r)
  PROVE  \A u \in Ranks : AtPoint(u)' /\ InStep(u)' /\ Kept(u)'
  <1>1. mode' = mode
    BY ModeStays
  <1>2. ASSUME NEW u \in Ranks, u # r, ~(ActivationTransfer(r) /\ u = r + 1),
               ~(GradientTransfer(r) /\ u = r - 1)
        PROVE  AtPoint(u)' /\ InStep(u)' /\ Kept(u)'
    <2>1. Still(u)
      BY <1>2, OthersStill
    <2> QED
      BY <1>1, <2>1, StillHolds
  <1>3. CASE ActivationTransfer(r)
    <2>1. /\ r + 1 \in Ranks /\ r + 1 # r /\ pc[r] = "send_activation"
          /\ pc[r + 1] = "receive_activation" /\ pc'[r] = "receive_gradient"
          /\ pc'[r + 1] = "forward"
          /\ operation'[r][1] = "send_activation" /\ operation'[r + 1][1] = "send_activation"
      <3>1. DOMAIN pc = Ranks /\ DOMAIN operation = Ranks /\ r \in Nat
        BY Types, Sizes
      <3> QED
        BY <1>3, <3>1 DEF ActivationTransfer, Transfer
    <2>2. UNCHANGED <<loop, microbatch, entered, threads, errors, complete, written>>
      BY <1>3 DEF ActivationTransfer
    <2>3. /\ AtPoint(r)' /\ InStep(r)' /\ Kept(r)'
      BY <1>1, <2>1, <2>2, TransferStep
    <2>4. /\ AtPoint(r + 1)' /\ InStep(r + 1)' /\ Kept(r + 1)'
      BY <1>1, <2>1, <2>2, TransferStep
    <2>5. ~GradientTransfer(r)
      BY <2>1 DEF GradientTransfer, Transfer
    <2> QED
      BY <1>2, <2>3, <2>4, <2>5
  <1>4. CASE GradientTransfer(r)
    <2>1. /\ r - 1 \in Ranks /\ r - 1 # r /\ pc[r] = "send_gradient"
          /\ pc[r - 1] = "receive_gradient" /\ pc'[r] = AfterMicrobatch(r)
          /\ pc'[r - 1] = "backward"
          /\ operation'[r][1] = "send_gradient" /\ operation'[r - 1][1] = "send_gradient"
      <3>1. DOMAIN pc = Ranks /\ DOMAIN operation = Ranks /\ r \in Nat
        BY Types, Sizes
      <3> QED
        BY <1>4, <3>1 DEF GradientTransfer, Transfer
    <2>2. UNCHANGED <<loop, microbatch, entered, threads, errors, complete, written>>
      BY <1>4 DEF GradientTransfer
    <2>3. /\ AtPoint(r)' /\ InStep(r)' /\ Kept(r)'
      BY <1>1, <2>1, <2>2, TransferStep
    <2>4. /\ AtPoint(r - 1)' /\ InStep(r - 1)' /\ Kept(r - 1)'
      BY <1>1, <2>1, <2>2, TransferStep
    <2>5. ~ActivationTransfer(r)
      BY <2>1 DEF ActivationTransfer, Transfer
    <2> QED
      BY <1>2, <2>3, <2>4, <2>5
  <1>5. CASE ~ActivationTransfer(r) /\ ~GradientTransfer(r)
    <2>1. AtPoint(r)' /\ InStep(r)' /\ Kept(r)'
      BY <1>5, EnterStep, LeaveStep, WorkStep, CheckpointStep, WriteStep, TimeOutStep, ThreadStep
         DEF Step
    <2> QED
      BY <1>2, <1>5, <2>1
  <1> QED
    BY <1>3, <1>4, <1>5

-----------------------------------------------------------------------------
(* All ranks. *)

\* Where ranks come from, and that what failed takes no step with the others.
LEMMA Comings ==
  ASSUME BenchmarkTyped, BenchmarkTyped', NEW r \in Ranks, AtPoint(r), InStep(r), Kept(r),
         Step(r), NEW a \in Ranks
  PROVE  /\ entered'[a] \in {entered[a], entered[a] + 1}
         /\ pc[a] = "failed" => pc'[a] = "failed" /\ entered'[a] = entered[a]
         /\ pc[a] = "origin" /\ pc'[a] # "origin" => a = r /\ (Leave(r) \/ TimeOut(r))
         /\ pc'[a] \in {"write", "done"} =>
              \/ pc[a] \in {"write", "done"}
              \/ a = r /\ Leave(r) /\ pc[a] = "final_barrier"
         /\ pc'[a] = "failed" /\ pc[a] # "failed" =>
              a = r /\ (pc[a] \in {"checkpoint", "drain"} \/ TimeOut(r))
  <1>1. DOMAIN pc = Ranks /\ DOMAIN entered = Ranks /\ entered[a] \in Nat
    BY Types
  <1>2. CASE Enter(r)
    BY <1>1, <1>2 DEF Enter, Collectives
  <1>3. CASE Leave(r)
    <2>1. entered' = entered /\ (a # r => pc'[a] = pc[a])
      BY <1>1, <1>3 DEF Leave, Goto
    <2>2. \/ pc[r] = "origin" /\ pc'[r] = "setup"
          \/ pc[r] = "reduce" /\ pc'[r] = "optimizer"
          \/ pc[r] = "iteration_barrier" /\ pc'[r] \in {"iteration", "drain"}
          \/ pc[r] = "final_barrier" /\ pc'[r] = "write"
      BY <1>3, LeaveStep
    <2> QED
      BY <1>3, <2>1, <2>2
  <1>4. CASE SetupReplica(r) \/ ReplicaPass(r) \/ OptimizeReplica(r)
    BY <1>1, <1>4 DEF SetupReplica, ReplicaPass, OptimizeReplica, Goto
  <1>5. CASE SetupStage(r) \/ StartMicrobatch(r) \/ Forward(r) \/ Backward(r) \/ OptimizeStage(r)
    BY <1>1, <1>5 DEF SetupStage, StartMicrobatch, Forward, Backward, OptimizeStage, Goto,
                      AfterMicrobatch
  <1>6. CASE ActivationTransfer(r)
    BY <1>1, <1>6 DEF ActivationTransfer, Transfer
  <1>7. CASE GradientTransfer(r)
    BY <1>1, <1>7 DEF GradientTransfer, Transfer, AfterMicrobatch
  <1>8. CASE Checkpoint(r)
    BY <1>1, <1>8 DEF Checkpoint, Goto
  <1>9. CASE Drain(r)
    BY <1>1, <1>9 DEF Drain, DrainOutcome, Goto
  <1>10. CASE Write(r)
    BY <1>1, <1>10 DEF Write, Goto
  <1>11. CASE TimeOut(r)
    BY <1>1, <1>11 DEF TimeOut, PeerLost, Collectives, Goto
  <1>12. CASE \E i \in 1 .. Iterations : ThreadEnds(r, i)
    BY <1>1, <1>12 DEF ThreadEnds
  <1> QED
    BY <1>2, <1>3, <1>4, <1>5, <1>6, <1>7, <1>8, <1>9, <1>10, <1>11, <1>12 DEF Step

\* A step keeps them together.
LEMMA GatheredStep ==
  ASSUME BenchmarkTyped, BenchmarkTyped',
         \A u \in Ranks : AtPoint(u) /\ InStep(u) /\ Kept(u), Gathered, NEW r \in Ranks, Step(r)
  PROVE  Gathered'
  <1>1. \A k : CollectivesOf(k)' = CollectivesOf(k)
    <2>1. mode' = mode
      BY ModeStays
    <2> QED
      BY <2>1 DEF CollectivesOf, Pipeline
  <1> DEFINE last == CollectivesOf(Total)
  <1>2. last \in Nat /\ Total \in Nat /\ \A a \in Ranks : entered[a] \in Nat
    BY Types, Sizes, Counting
  <1>3. \A a \in Ranks :
          /\ entered'[a] \in {entered[a], entered[a] + 1}
          /\ pc[a] = "failed" => pc'[a] = "failed" /\ entered'[a] = entered[a]
          /\ pc[a] = "origin" /\ pc'[a] # "origin" => a = r /\ (Leave(r) \/ TimeOut(r))
          /\ pc'[a] \in {"write", "done"} =>
               \/ pc[a] \in {"write", "done"}
               \/ a = r /\ Leave(r) /\ pc[a] = "final_barrier"
          /\ pc'[a] = "failed" /\ pc[a] # "failed" =>
               a = r /\ (pc[a] \in {"checkpoint", "drain"} \/ TimeOut(r))
    BY Comings
  <1>4. Leave(r) => /\ \A s \in Ranks : entered[s] >= entered[r]
                    /\ entered[r] = Through(r) + 1
    BY LeaveStep DEF Leave
  <1>5. TimeOut(r) => \E s \in Ranks : pc[s] = "failed"
    BY DEF TimeOut, PeerLost
  <1>6. /\ \A a, s \in Ranks : /\ pc[a] # "origin" => entered[s] >= 1
                               /\ pc[a] \in {"write", "done"} => entered[s] >= 2 + last
        /\ (\E a \in Ranks : pc[a] = "failed") =>
             \E a \in Ranks : pc[a] = "failed" /\ entered[a] <= 1 + last
    BY DEF Gathered
  <1>7. pc[r] \in {"checkpoint", "drain"} => entered[r] <= 1 + last
    <2>1. pc[r] \in {"checkpoint", "drain"} => entered[r] = Through(r)
      BY DEF InStep, Waits, Collectives
    <2>2. CollectivesOf(loop[r] + 1) <= last
      <3>1. loop[r] \in Nat /\ loop[r] + 1 <= Total
        BY Types
      <3>2. loop[r] + 1 \in Nat
        BY <3>1
      <3> QED
        BY <1>2, <3>1, <3>2, Counting
    <2>3. CollectivesOf(loop[r] + 1) \in Nat
      <3>1. loop[r] \in Nat
        BY Types
      <3>2. loop[r] + 1 \in Nat
        BY <3>1
      <3> QED
        BY <3>2, Counting
    <2> QED
      BY <1>2, <2>1, <2>2, <2>3 DEF Through
  <1>8. /\ pc[r] = "origin" => Through(r) = 0
        /\ pc[r] = "final_barrier" => Through(r) = 1 + last
    BY DEF Through
  <1> HIDE DEF last
  <1>9. ASSUME NEW a \in Ranks, NEW s \in Ranks, pc'[a] # "origin"
        PROVE  entered'[s] >= 1
    <2>1. entered[s] >= 1
      <3>1. CASE pc[a] # "origin"
        BY <1>6, <3>1
      <3>2. CASE pc[a] = "origin" /\ a = r /\ Leave(r)
        BY <1>2, <1>4, <1>8, <3>2
      <3>3. CASE TimeOut(r)
        <4>1. PICK f \in Ranks : pc[f] = "failed"
          BY <1>5, <3>3
        <4> QED
          BY <1>6, <4>1
      <3> QED
        BY <1>3, <1>9, <3>1, <3>2, <3>3
    <2> QED
      BY <1>2, <1>3, <2>1
  <1>10. ASSUME NEW a \in Ranks, NEW s \in Ranks, pc'[a] \in {"write", "done"}
         PROVE  entered'[s] >= 2 + last
    <2>1. entered[s] >= 2 + last
      <3>1. CASE pc[a] \in {"write", "done"}
        BY <1>6, <3>1
      <3>2. CASE a = r /\ Leave(r) /\ pc[a] = "final_barrier"
        BY <1>2, <1>4, <1>8, <3>2
      <3> QED
        BY <1>3, <1>10, <3>1, <3>2
    <2> QED
      BY <1>2, <1>3, <2>1
  <1>11. ASSUME NEW a \in Ranks, pc'[a] = "failed"
         PROVE  \E f \in Ranks : pc'[f] = "failed" /\ entered'[f] <= 1 + last
    <2>1. CASE \E f \in Ranks : pc[f] = "failed"
      <3>1. PICK f \in Ranks : pc[f] = "failed" /\ entered[f] <= 1 + last
        BY <1>6, <2>1
      <3> QED
        BY <1>3, <3>1
    <2>2. CASE ~(\E f \in Ranks : pc[f] = "failed")
      <3>1. a = r /\ pc[r] \in {"checkpoint", "drain"}
        BY <1>3, <1>5, <1>11, <2>2
      <3>2. entered'[r] = entered[r]
        BY <3>1 DEF Step, Enter, Leave, SetupReplica, ReplicaPass, OptimizeReplica, SetupStage,
                    StartMicrobatch, Forward, Backward, OptimizeStage, ActivationTransfer,
                    GradientTransfer, Checkpoint, Drain, Write, TimeOut, ThreadEnds, Collectives
      <3> QED
        BY <1>7, <1>11, <3>1, <3>2
    <2> QED
      BY <2>1, <2>2
  <1>12. last' = last
    BY <1>1 DEF last
  <1>13. CollectivesOf(Total)' = last
    BY <1>1 DEF last
  <1> QED
    BY <1>9, <1>10, <1>11, <1>13 DEF Gathered

-----------------------------------------------------------------------------
(* Neighbours. *)

\* A stage alone gets no further with its neighbours.
LEMMA AlonePlace ==
  ASSUME BenchmarkTyped, BenchmarkTyped', \A u \in Ranks : AtPoint(u) /\ InStep(u) /\ Kept(u),
         Gathered, Pipeline, NEW r \in Ranks, Step(r),
         ~ActivationTransfer(r), ~GradientTransfer(r)
  PROVE  /\ r + 1 \in Ranks => /\ NextAt(r)' = NextAt(r)
                               /\ pc'[r] = "receive_gradient" <=> pc[r] = "receive_gradient"
         /\ r - 1 \in Ranks => /\ PreviousAt(r)' = PreviousAt(r)
                               /\ pc'[r] \in Busy <=> pc[r] \in Busy
  <1> DEFINE l == loop[r]
             m == microbatch[r]
  <1>1. /\ l \in Nat /\ m \in Nat /\ m + 1 <= Microbatches /\ Microbatches \in Nat
        /\ DOMAIN pc = Ranks /\ DOMAIN loop = Ranks /\ DOMAIN microbatch = Ranks
    <2>1. /\ l \in Nat /\ m \in Nat /\ m + 1 <= Microbatches
          /\ DOMAIN pc = Ranks /\ DOMAIN loop = Ranks /\ DOMAIN microbatch = Ranks
      BY Types
    <2> QED
      BY <2>1, Sizes
  <1>2. /\ l * Microbatches \in Nat
        /\ (l + 1) * Microbatches = l * Microbatches + Microbatches
    BY <1>1, Multiples
  <1>3. CASE /\ loop'[r] = l
             /\ WithNext(r)' = WithNext(r) /\ WithPrevious(r)' = WithPrevious(r)
             /\ pc[r] \notin Busy /\ pc'[r] \notin Busy
    BY <1>3 DEF NextAt, PreviousAt, Busy
  <1>4. CASE Enter(r) \/ \E i \in 1 .. Iterations : ThreadEnds(r, i)
    <2>1. pc' = pc /\ loop' = loop /\ microbatch' = microbatch
      BY <1>4 DEF Enter, ThreadEnds
    <2> QED
      BY <2>1 DEF NextAt, PreviousAt, WithNext, WithPrevious
  <1>5. CASE Leave(r)
    <2>1. \/ pc[r] = "origin" /\ pc'[r] = "setup" /\ loop'[r] = l
          \/ pc[r] = "reduce" /\ pc'[r] = "optimizer" /\ loop'[r] = l
          \/ pc[r] = "iteration_barrier" /\ pc'[r] = "iteration" /\ loop'[r] = l + 1
          \/ pc[r] = "iteration_barrier" /\ pc'[r] = "drain" /\ loop'[r] = l
          \/ pc[r] = "final_barrier" /\ pc'[r] = "write" /\ loop'[r] = l
      BY <1>5, LeaveStep
    <2>2. pc[r] # "reduce"
      BY DEF AtPoint
    <2>3. CASE pc[r] = "iteration_barrier" /\ pc'[r] = "iteration" /\ loop'[r] = l + 1
      <3>1. /\ WithNext(r) = Microbatches /\ WithPrevious(r) = Microbatches
            /\ WithNext(r)' = 0 /\ WithPrevious(r)' = 0
        BY <2>3 DEF WithNext, WithPrevious
      <3>2. NextAt(r)' = NextAt(r) /\ PreviousAt(r)' = PreviousAt(r)
        BY <1>1, <1>2, <2>3, <3>1 DEF NextAt, PreviousAt
      <3> QED
        BY <2>3, <3>2 DEF Busy
    <2>4. CASE loop'[r] = l /\ ~(pc[r] = "iteration_barrier" /\ pc'[r] = "iteration")
      <3>1. /\ WithNext(r)' = WithNext(r) /\ WithPrevious(r)' = WithPrevious(r)
            /\ pc[r] \notin Busy /\ pc'[r] \notin Busy
        BY <2>1, <2>2, <2>4 DEF WithNext, WithPrevious, Busy
      <3> QED
        BY <1>3, <2>4, <3>1
    <2> QED
      BY <2>1, <2>3, <2>4
  <1>6. CASE Checkpoint(r) \/ Write(r)
    <2>1. loop'[r] = l /\ pc[r] \in {"checkpoint", "write"}
          /\ pc'[r] \in {"iteration_barrier", "failed", "done"}
      BY <1>1, <1>6 DEF Checkpoint, Write, Goto
    <2>2. /\ WithNext(r)' = WithNext(r) /\ WithPrevious(r)' = WithPrevious(r)
          /\ pc[r] \notin Busy /\ pc'[r] \notin Busy
      BY <2>1 DEF WithNext, WithPrevious, Busy
    <2> QED
      BY <1>3, <2>1, <2>2
  <1>7. CASE TimeOut(r)
    <2>1. loop'[r] = l /\ pc'[r] = "failed" /\ pc[r] \in Collectives
      BY <1>1, <1>7 DEF TimeOut, PeerLost, Goto
    <2>2. pc[r] # "reduce"
      BY DEF AtPoint
    <2>3. pc[r] # "origin"
      <3>1. PICK f, s \in Ranks : pc[f] = "failed" /\ entered[s] < entered[r]
        BY <1>7 DEF TimeOut, PeerLost
      <3>2. entered[s] >= 1
        BY <3>1 DEF Gathered
      <3>3. pc[r] = "origin" => entered[r] <= 1
        BY DEF InStep, Through
      <3>4. entered[s] \in Nat /\ entered[r] \in Nat
        BY Types
      <3> QED
        BY <3>1, <3>2, <3>3, <3>4
    <2>4. /\ WithNext(r)' = WithNext(r) /\ WithPrevious(r)' = WithPrevious(r)
          /\ pc[r] \notin Busy /\ pc'[r] \notin Busy
      BY <2>1, <2>2, <2>3 DEF WithNext, WithPrevious, Busy, Collectives
    <2> QED
      BY <1>3, <2>1, <2>4
  <1>8. CASE \/ SetupReplica(r) \/ ReplicaPass(r) \/ OptimizeReplica(r)
             \/ SetupStage(r) \/ StartMicrobatch(r) \/ Forward(r) \/ Backward(r)
             \/ OptimizeStage(r) \/ Drain(r)
    <2>1. Proceeds(r)
      BY <1>8, WorkMoves
    <2>2. loop'[r] = l
      BY <1>8 DEF SetupReplica, ReplicaPass, OptimizeReplica, SetupStage, StartMicrobatch, Forward,
                  Backward, OptimizeStage, Drain
    <2>3. r \in Nat /\ (r = 0 => r - 1 \notin Ranks)
      BY Sizes
    <2>4. r + 1 \in Ranks => /\ WithNext(r)' = WithNext(r)
                             /\ pc'[r] = "receive_gradient" <=> pc[r] = "receive_gradient"
      BY <1>1, <2>1 DEF Proceeds, From, WithNext
    <2>5. r - 1 \in Ranks => /\ WithPrevious(r)' = WithPrevious(r)
                             /\ pc'[r] \in Busy <=> pc[r] \in Busy
      BY <1>1, <2>1, <2>3 DEF Proceeds, From, WithNext, WithPrevious, Busy
    <2> QED
      BY <2>2, <2>4, <2>5 DEF NextAt, PreviousAt
  <1> QED
    BY <1>4, <1>5, <1>6, <1>7, <1>8 DEF Step

\* Two stages at a transfer are at the same microbatch of the same iteration.
LEMMA Meets ==
  ASSUME BenchmarkTyped, Pipeline, Abreast, NEW r \in Ranks, r + 1 \in Ranks,
         \/ pc[r] = "send_activation" /\ pc[r + 1] = "receive_activation"
         \/ pc[r] = "receive_gradient" /\ pc[r + 1] = "send_gradient"
  PROVE  loop[r] = loop[r + 1] /\ microbatch[r] = microbatch[r + 1]
  <1>1. /\ loop[r] \in Nat /\ loop[r + 1] \in Nat
        /\ microbatch[r] \in 0 .. Microbatches - 1 /\ microbatch[r + 1] \in 0 .. Microbatches - 1
    <2>1. /\ loop[r] \in Nat /\ microbatch[r] \in Nat /\ microbatch[r] + 1 <= Microbatches
      BY Types
    <2>2. /\ loop[r + 1] \in Nat /\ microbatch[r + 1] \in Nat
          /\ microbatch[r + 1] + 1 <= Microbatches
      BY Types
    <2> QED
      BY <2>1, <2>2, Sizes
  <1>2. NextAt(r) = PreviousAt(r + 1)
    BY DEF Abreast
  <1>3. WithNext(r) = microbatch[r] /\ WithPrevious(r + 1) = microbatch[r + 1]
    BY DEF WithNext, WithPrevious
  <1>4. loop[r] * Microbatches + microbatch[r] = loop[r + 1] * Microbatches + microbatch[r + 1]
    BY <1>2, <1>3 DEF NextAt, PreviousAt
  <1> QED
    BY <1>1, <1>4, SamePosition

\* An activation takes both stages no further, and the sender now waits for the gradient.
LEMMA ActivationPlace ==
  ASSUME BenchmarkTyped, NEW r \in Ranks, ActivationTransfer(r)
  PROVE  /\ r + 1 \in Ranks
         /\ NextAt(r)' = NextAt(r) /\ PreviousAt(r)' = PreviousAt(r)
         /\ NextAt(r + 1)' = NextAt(r + 1) /\ PreviousAt(r + 1)' = PreviousAt(r + 1)
         /\ pc'[r] = "receive_gradient" /\ pc'[r + 1] \in Busy
         /\ pc[r] \in Busy /\ pc'[r] \in Busy
         /\ pc[r + 1] # "receive_gradient" /\ pc'[r + 1] # "receive_gradient"
  <1>1. DOMAIN pc = Ranks /\ r \in Nat
    BY Types, Sizes
  <1>2. /\ r + 1 \in Ranks /\ pc[r] = "send_activation" /\ pc[r + 1] = "receive_activation"
        /\ pc'[r] = "receive_gradient" /\ pc'[r + 1] = "forward"
        /\ loop' = loop /\ microbatch' = microbatch
    BY <1>1 DEF ActivationTransfer, Transfer
  <1> QED
    BY <1>2 DEF NextAt, PreviousAt, WithNext, WithPrevious, Busy

\* A gradient takes both stages to the next microbatch with one another.
LEMMA GradientPlace ==
  ASSUME BenchmarkTyped, NEW r \in Ranks, GradientTransfer(r)
  PROVE  /\ r - 1 \in Ranks
         /\ NextAt(r - 1)' = NextAt(r - 1) + 1 /\ PreviousAt(r)' = PreviousAt(r) + 1
         /\ NextAt(r)' = NextAt(r) /\ PreviousAt(r - 1)' = PreviousAt(r - 1)
         /\ pc'[r - 1] # "receive_gradient" /\ pc'[r] \notin Busy
         /\ pc[r] # "receive_gradient" /\ pc'[r] # "receive_gradient"
         /\ pc[r - 1] \in Busy /\ pc'[r - 1] \in Busy
  <1>1. DOMAIN pc = Ranks /\ r \in Nat
    BY Types, Sizes
  <1>2. /\ r - 1 \in Ranks /\ r - 1 # r /\ pc[r] = "send_gradient"
        /\ pc[r - 1] = "receive_gradient"
        /\ pc'[r] = AfterMicrobatch(r) /\ pc'[r - 1] = "backward"
        /\ loop' = loop /\ microbatch' = microbatch
    BY <1>1 DEF GradientTransfer, Transfer
  <1>3. /\ loop[r] \in Nat /\ microbatch[r] \in Nat /\ microbatch[r] + 1 <= Microbatches
    BY Types
  <1>4. /\ loop[r - 1] \in Nat /\ microbatch[r - 1] \in Nat
    BY <1>2, Types
  <1>5. /\ loop[r] * Microbatches \in Nat /\ loop[r - 1] * Microbatches \in Nat
        /\ Microbatches \in Nat
    BY <1>3, <1>4, Multiples, Sizes
  <1>6. \/ pc'[r] = "microbatch"
        \/ pc'[r] = "optimizer" /\ microbatch[r] + 1 = Microbatches
    BY <1>2, <1>3, <1>5 DEF AfterMicrobatch
  <1>7. /\ WithNext(r) = microbatch[r] + 1 /\ WithNext(r)' = microbatch[r] + 1
        /\ WithPrevious(r) = microbatch[r] /\ WithPrevious(r)' = microbatch[r] + 1
    BY <1>2, <1>6 DEF WithNext, WithPrevious
  <1>8. /\ WithNext(r - 1) = microbatch[r - 1] /\ WithNext(r - 1)' = microbatch[r - 1] + 1
        /\ WithPrevious(r - 1) = microbatch[r - 1] /\ WithPrevious(r - 1)' = microbatch[r - 1]
    BY <1>2 DEF WithNext, WithPrevious
  <1>9. NextAt(r - 1)' = NextAt(r - 1) + 1 /\ PreviousAt(r - 1)' = PreviousAt(r - 1)
    BY <1>2, <1>4, <1>5, <1>8 DEF NextAt, PreviousAt
  <1>10. PreviousAt(r)' = PreviousAt(r) + 1 /\ NextAt(r)' = NextAt(r)
    BY <1>2, <1>3, <1>5, <1>7 DEF NextAt, PreviousAt
  <1> QED
    BY <1>2, <1>6, <1>9, <1>10 DEF Busy

\* A step keeps neighbours abreast.
LEMMA AbreastStep ==
  ASSUME BenchmarkTyped, BenchmarkTyped',
         \A u \in Ranks : AtPoint(u) /\ InStep(u) /\ Kept(u), Gathered, Abreast,
         NEW r \in Ranks, Step(r)
  PROVE  Abreast'
  <1>1. mode' = mode
    BY ModeStays
  <1>2. Pipeline' = Pipeline
    BY <1>1 DEF Pipeline
  <1> SUFFICES ASSUME Pipeline, NEW a \in Ranks, a + 1 \in Ranks
               PROVE  /\ NextAt(a)' = PreviousAt(a + 1)'
                      /\ pc'[a] = "receive_gradient" <=> pc'[a + 1] \in Busy
    BY <1>2 DEF Abreast, Busy
  <1>3. /\ NextAt(a) = PreviousAt(a + 1)
        /\ pc[a] = "receive_gradient" <=> pc[a + 1] \in Busy
    BY DEF Abreast
  <1>4. a \in Nat /\ r \in Nat /\ a + 1 # a /\ a + 1 - 1 = a /\ a + 1 - 1 \in Ranks
    BY Sizes
  <1>5. ASSUME NEW u \in Ranks, Still(u)
        PROVE  /\ NextAt(u)' = NextAt(u) /\ PreviousAt(u)' = PreviousAt(u)
               /\ pc'[u] = pc[u]
    BY <1>5 DEF Still, NextAt, PreviousAt, WithNext, WithPrevious
  <1>6. CASE ActivationTransfer(r)
    <2>1. /\ r + 1 \in Ranks
          /\ NextAt(r)' = NextAt(r) /\ PreviousAt(r)' = PreviousAt(r)
          /\ NextAt(r + 1)' = NextAt(r + 1) /\ PreviousAt(r + 1)' = PreviousAt(r + 1)
          /\ pc'[r] = "receive_gradient" /\ pc'[r + 1] \in Busy
          /\ pc[r] \in Busy /\ pc'[r] \in Busy
          /\ pc[r + 1] # "receive_gradient" /\ pc'[r + 1] # "receive_gradient"
      BY <1>6, ActivationPlace
    <2>2. ~GradientTransfer(r)
      BY <1>6 DEF ActivationTransfer, GradientTransfer, Transfer
    <2>3. \A u \in Ranks : u # r /\ u # r + 1 => Still(u)
      BY <2>2, OthersStill
    <2>4. CASE a = r
      BY <1>3, <2>1, <2>4
    <2>5. CASE a + 1 = r
      <3>1. a # r /\ a # r + 1
        BY <1>4, <2>5
      <3>2. Still(a)
        BY <2>3, <3>1
      <3> QED
        BY <1>3, <1>5, <2>1, <2>5, <3>2
    <2>6. CASE a = r + 1
      <3>1. a + 1 # r /\ a + 1 # r + 1
        BY <1>4, <2>6
      <3>2. Still(a + 1)
        BY <2>3, <3>1
      <3>3. NextAt(a + 1)' = NextAt(a + 1) /\ PreviousAt(a + 1)' = PreviousAt(a + 1)
            /\ pc'[a + 1] = pc[a + 1]
        BY <1>5, <3>2
      <3> QED
        BY <1>3, <2>1, <2>6, <3>3
    <2>7. CASE a # r /\ a # r + 1 /\ a + 1 # r
      <3>1. a + 1 # r + 1
        BY <1>4, <2>7
      <3>2. Still(a) /\ Still(a + 1)
        BY <2>3, <2>7, <3>1
      <3> QED
        BY <1>3, <1>5, <3>2
    <2> QED
      BY <2>4, <2>5, <2>6, <2>7
  <1>7. CASE GradientTransfer(r)
    <2>1. /\ r - 1 \in Ranks
          /\ NextAt(r - 1)' = NextAt(r - 1) + 1 /\ PreviousAt(r)' = PreviousAt(r) + 1
          /\ NextAt(r)' = NextAt(r) /\ PreviousAt(r - 1)' = PreviousAt(r - 1)
          /\ pc'[r - 1] # "receive_gradient" /\ pc'[r] \notin Busy
          /\ pc[r] # "receive_gradient" /\ pc'[r] # "receive_gradient"
          /\ pc[r - 1] \in Busy /\ pc'[r - 1] \in Busy
      BY <1>7, GradientPlace
    <2>2. ~ActivationTransfer(r)
      BY <1>7 DEF ActivationTransfer, GradientTransfer, Transfer
    <2>3. \A u \in Ranks : u # r /\ u # r - 1 => Still(u)
      BY <2>2, OthersStill
    <2>4. CASE a + 1 = r
      <3>1. r - 1 = a
        BY <1>4, <2>4
      <3> QED
        BY <1>3, <2>1, <2>4, <3>1
    <2>5. CASE a = r
      <3>1. a + 1 # r /\ a + 1 # r - 1
        BY <1>4, <2>5
      <3>2. Still(a + 1)
        BY <2>3, <3>1
      <3>3. NextAt(a + 1)' = NextAt(a + 1) /\ PreviousAt(a + 1)' = PreviousAt(a + 1)
            /\ pc'[a + 1] = pc[a + 1]
        BY <1>5, <3>2
      <3> QED
        BY <1>3, <2>1, <2>5, <3>3
    <2>6. CASE a + 1 = r - 1
      <3>1. a # r /\ a # r - 1
        BY <1>4, <2>6
      <3>2. Still(a)
        BY <2>3, <3>1
      <3> QED
        BY <1>3, <1>5, <2>1, <2>6, <3>2
    <2>7. CASE a # r /\ a + 1 # r /\ a + 1 # r - 1
      <3>1. a # r - 1
        BY <1>4, <2>7
      <3>2. Still(a) /\ Still(a + 1)
        BY <2>3, <2>7, <3>1
      <3> QED
        BY <1>3, <1>5, <3>2
    <2> QED
      BY <2>4, <2>5, <2>6, <2>7
  <1>8. CASE ~ActivationTransfer(r) /\ ~GradientTransfer(r)
    <2>1. /\ r + 1 \in Ranks => /\ NextAt(r)' = NextAt(r)
                                /\ pc'[r] = "receive_gradient" <=> pc[r] = "receive_gradient"
          /\ r - 1 \in Ranks => /\ PreviousAt(r)' = PreviousAt(r)
                                /\ pc'[r] \in Busy <=> pc[r] \in Busy
      BY <1>8, AlonePlace
    <2>2. \A u \in Ranks : u # r => Still(u)
      BY <1>8, OthersStill
    <2>3. NextAt(a)' = NextAt(a) /\ (pc'[a] = "receive_gradient" <=> pc[a] = "receive_gradient")
      BY <1>5, <2>1, <2>2
    <2>4. PreviousAt(a + 1)' = PreviousAt(a + 1) /\ (pc'[a + 1] \in Busy <=> pc[a + 1] \in Busy)
      <3>1. CASE a + 1 = r
        BY <1>4, <2>1, <3>1
      <3>2. CASE a + 1 # r
        <4>1. Still(a + 1)
          BY <2>2, <3>2
        <4>2. PreviousAt(a + 1)' = PreviousAt(a + 1) /\ pc'[a + 1] = pc[a + 1]
          BY <1>5, <4>1
        <4> QED
          BY <4>2
      <3> QED
        BY <3>1, <3>2
    <2> QED
      BY <1>3, <2>3, <2>4
  <1> QED
    BY <1>6, <1>7, <1>8

-----------------------------------------------------------------------------
(* The invariant. *)

\* The initial states satisfy it.
LEMMA BenchmarkStarts == BenchmarkInit => BenchmarkInductive
  <1> SUFFICES ASSUME BenchmarkInit PROVE BenchmarkInductive
    OBVIOUS
  <1>1. BenchmarkTyped
    BY TypedInit
  <1>2. ASSUME NEW r \in Ranks
        PROVE  /\ pc[r] = "origin" /\ loop[r] = 0 /\ microbatch[r] = 0 /\ entered[r] = 0
               /\ operation[r] = <<"none", 0, 0>> /\ threads[r] = {} /\ errors[r] = {}
               /\ complete[r] = {} /\ written[r] = {}
    BY <1>2 DEF BenchmarkInit
  <1>3. ASSUME NEW r \in Ranks
        PROVE  AtPoint(r) /\ InStep(r) /\ Kept(r)
    <2>1. AtPoint(r)
      BY <1>2 DEF AtPoint, LoopOver, StageOnly
    <2>2. operation[r][1] = "none"
      BY <1>2
    <2>3. InStep(r)
      <3>1. ~Waits(r)
        BY <1>2, <2>2 DEF Waits
      <3>2. Through(r) = 0
        BY <1>2 DEF Through
      <3>3. operation[r][1] \notin Collectives
        BY <2>2 DEF Collectives
      <3> QED
        BY <1>2, <3>1, <3>2, <3>3 DEF InStep
    <2>4. DueBy(r) = {}
      <3>1. \A i \in 1 .. Iterations : ~(i + Warmup <= 0 + 0)
        BY Sizes
      <3> QED
        BY <1>2, <3>1 DEF DueBy, LoopOver
    <2>5. Kept(r)
      BY <1>2, <2>4 DEF Kept, LoopOver
    <2> QED
      BY <2>1, <2>3, <2>5
  <1>4. Gathered
    BY <1>2 DEF Gathered
  <1>5. Abreast
    BY <1>2 DEF Abreast, NextAt, PreviousAt, WithNext, WithPrevious, Busy
  <1> QED
    BY <1>1, <1>3, <1>4, <1>5 DEF BenchmarkInductive

\* Every step keeps it.
LEMMA BenchmarkKept ==
  BenchmarkInductive /\ [BenchmarkNext]_benchmarkVars => BenchmarkInductive'
  <1> SUFFICES ASSUME BenchmarkInductive, [BenchmarkNext]_benchmarkVars
               PROVE  BenchmarkInductive'
    OBVIOUS
  <1>1. /\ BenchmarkTyped /\ Gathered /\ Abreast
        /\ \A u \in Ranks : AtPoint(u) /\ InStep(u) /\ Kept(u)
    BY DEF BenchmarkInductive
  <1>2. CASE BenchmarkNext
    <2>1. PICK r \in Ranks : Step(r)
      BY <1>2 DEF BenchmarkNext
    <2>2. BenchmarkTyped'
      BY <1>1, <2>1, TypedStep
    <2>3. \A u \in Ranks : AtPoint(u)' /\ InStep(u)' /\ Kept(u)'
      BY <1>1, <2>1, <2>2, RanksStep
    <2>4. Gathered'
      BY <1>1, <2>1, <2>2, GatheredStep
    <2>5. Abreast'
      BY <1>1, <2>1, <2>2, AbreastStep
    <2> QED
      BY <2>2, <2>3, <2>4, <2>5 DEF BenchmarkInductive
  <1>3. CASE UNCHANGED benchmarkVars
    <2>1. /\ mode' = mode /\ pc' = pc /\ loop' = loop /\ microbatch' = microbatch
          /\ entered' = entered /\ operation' = operation /\ threads' = threads
          /\ errors' = errors /\ complete' = complete /\ written' = written /\ faults' = faults
      BY <1>3 DEF benchmarkVars
    <2>2. BenchmarkTyped'
      BY <1>1, <2>1 DEF BenchmarkTyped, BenchmarkTypes
    <2>3. \A u \in Ranks : AtPoint(u)' /\ InStep(u)' /\ Kept(u)'
      BY <1>1, <2>1, StillHolds DEF Still
    <2>4. Gathered' /\ Abreast'
      BY <1>1, <2>1 DEF Gathered, CollectivesOf, Pipeline, Abreast, NextAt, PreviousAt,
                        WithNext, WithPrevious
    <2> QED
      BY <2>2, <2>3, <2>4 DEF BenchmarkInductive
  <1> QED
    BY <1>2, <1>3

\* The ranks number the collectives alike, are never more than one apart at any of them,
\* and neighbouring stages are at the same microbatch.
THEOREM BenchmarkInvariance == BenchmarkSpec => []BenchmarkInductive
  <1>1. BenchmarkInit => BenchmarkInductive
    BY BenchmarkStarts
  <1>2. BenchmarkInductive /\ [BenchmarkNext]_benchmarkVars => BenchmarkInductive'
    BY BenchmarkKept
  <1> QED
    BY <1>1, <1>2, PTL DEF BenchmarkSpec

\* When a rank is done every rank has entered the final barrier, and the trace of a rank
\* that is done is whole.
LEMMA WholeWhenDone == BenchmarkInductive => TraceIsWhole
  <1> SUFFICES ASSUME BenchmarkInductive, NEW r \in Ranks, pc[r] = "done"
               PROVE  /\ \A s \in Ranks : threads[s] = {} /\ errors[s] = {} /\ pc[s] # "failed"
                      /\ written[r] = {i \in 1 .. Iterations : Due(i) /\ (Pipeline \/ r = 0)}
    BY DEF TraceIsWhole
  <1>1. /\ BenchmarkTyped /\ Gathered
        /\ \A u \in Ranks : AtPoint(u) /\ InStep(u) /\ Kept(u)
    BY DEF BenchmarkInductive
  <1> DEFINE last == CollectivesOf(Total)
  <1>2. last \in Nat /\ \A s \in Ranks : entered[s] \in Nat
    BY <1>1, Types, Sizes, Counting
  <1>3. \A s \in Ranks : entered[s] >= 2 + last
    BY <1>1 DEF Gathered
  <1>4. \A s \in Ranks : pc[s] # "failed"
    <2>1. (\E s \in Ranks : pc[s] = "failed") =>
            \E s \in Ranks : pc[s] = "failed" /\ entered[s] <= 1 + last
      BY <1>1 DEF Gathered
    <2> HIDE DEF last
    <2> QED
      BY <1>2, <1>3, <2>1
  <1>5. ASSUME NEW s \in Ranks
        PROVE  threads[s] = {} /\ errors[s] = {}
    <2>1. entered[s] = IF Waits(s) THEN Through(s) + 1 ELSE Through(s)
      BY <1>1, <1>4 DEF InStep
    <2>2. loop[s] \in Nat /\ loop[s] + 1 <= Total /\ Total \in Nat
      BY <1>1, Types, Sizes
    <2>3. loop[s] + 1 \in Nat
      BY <2>2
    <2>4. /\ CollectivesOf(loop[s]) \in Nat /\ CollectivesOf(loop[s] + 1) \in Nat
          /\ CollectivesOf(loop[s] + 1) <= last
          /\ CollectivesOf(loop[s] + 1) = CollectivesOf(loop[s]) + (IF Pipeline THEN 1 ELSE 2)
      BY <2>2, <2>3, Counting
    <2> HIDE DEF last
    <2>5. CASE pc[s] = "drain"
      <3>1. ~Waits(s) /\ Through(s) = 1 + last
        BY <2>5 DEF Waits, Collectives, Through, last
      <3> QED
        BY <1>2, <1>3, <2>1, <3>1
    <2>6. CASE pc[s] \in LoopOver \ {"drain"}
      BY <1>1, <2>6 DEF Kept
    <2>7. CASE pc[s] \notin LoopOver
      <3>1. \/ Through(s) = 0
            \/ pc[s] # "reduce" /\ ~Waits(s) /\ Through(s) <= 1 + last
            \/ Through(s) <= last
        <4>1. CASE pc[s] = "origin"
          BY <4>1 DEF Through
        <4>2. CASE pc[s] \in {"optimizer", "checkpoint", "iteration_barrier"}
          BY <2>4, <4>2 DEF Through
        <4>3. CASE pc[s] = "reduce"
          <5>1. ~Pipeline
            BY <1>1, <4>3 DEF AtPoint
          <5>2. Through(s) = 1 + CollectivesOf(loop[s])
            BY <4>3 DEF Through
          <5> QED
            BY <1>2, <2>4, <5>1, <5>2
        <4>4. CASE pc[s] \notin {"origin", "optimizer", "checkpoint", "iteration_barrier", "reduce"}
          <5>1. ~Waits(s)
            BY <2>7, <4>4 DEF Waits, Collectives, LoopOver
          <5>2. Through(s) = 1 + CollectivesOf(loop[s])
            BY <2>7, <4>4 DEF Through, LoopOver
          <5> QED
            BY <1>2, <2>4, <4>4, <5>1, <5>2
        <4> QED
          BY <4>1, <4>2, <4>3, <4>4
      <3>2. entered[s] <= 1 + last
        <4>1. CASE Through(s) = 0
          BY <1>2, <2>1, <4>1
        <4>2. CASE ~Waits(s) /\ Through(s) <= 1 + last
          BY <2>1, <4>2
        <4>3. CASE Through(s) <= last /\ Through(s) \in Nat
          BY <1>2, <2>1, <4>3
        <4>4. Through(s) \in Nat
          <5>1. 1 + last \in Nat /\ 2 + last \in Nat /\ 1 + CollectivesOf(loop[s]) \in Nat
            BY <1>2, <2>4
          <5> QED
            BY <2>4, <5>1 DEF Through, last
        <4> QED
          BY <3>1, <4>1, <4>2, <4>3, <4>4
      <3> QED
        BY <1>2, <1>3, <3>2
    <2> QED
      BY <2>5, <2>6, <2>7
  <1>6. written[r] = DueBy(r)
    <2>1. threads[r] = {} /\ errors[r] = {}
      BY <1>5
    <2> QED
      BY <1>1, <2>1 DEF Kept
  <1>7. DueBy(r) = {i \in 1 .. Iterations : Due(i) /\ (Pipeline \/ r = 0)}
    <2>1. loop[r] + 1 = Total
      BY <1>1 DEF AtPoint, LoopOver
    <2>2. \A i \in 1 .. Iterations : i + Warmup <= Total
      BY Sizes
    <2> QED
      BY <2>1, <2>2 DEF DueBy, LoopOver
  <1> QED
    BY <1>4, <1>5, <1>6, <1>7

\* A rank reports success only when no checkpoint failed or is still being persisted,
\* and its trace then names each checkpoint that was due.
THEOREM TracesWhole == BenchmarkSpec => []TraceIsWhole
  <1>1. BenchmarkSpec => []BenchmarkInductive
    BY BenchmarkInvariance
  <1> QED
    BY <1>1, WholeWhenDone, PTL

-----------------------------------------------------------------------------
(* The peers. *)

\* The number of a collective tells which one of which iteration it is.
Numbered ==
  \A r, s \in Ranks :
    (operation[r][1] \in Collectives /\ operation[s][1] \in Collectives
       /\ entered[r] = entered[s]) => operation[r] = operation[s]

\* It does in the reachable states.
LEMMA NumbersTell == BenchmarkInductive => Numbered
  <1> SUFFICES ASSUME BenchmarkInductive, NEW r \in Ranks, NEW s \in Ranks,
                      operation[r][1] \in Collectives, operation[s][1] \in Collectives,
                      entered[r] = entered[s]
               PROVE  operation[r] = operation[s]
    BY DEF Numbered
  <1>1. BenchmarkTyped /\ InStep(r) /\ InStep(s)
    BY DEF BenchmarkInductive
  <1> DEFINE i == operation[r][1]
             k == operation[r][2]
             j == operation[s][1]
             l == operation[s][2]
  <1>2. /\ operation[r] = <<i, k, operation[r][3]>> /\ k \in 0 .. Total - 1
        /\ operation[s] = <<j, l, operation[s][3]>> /\ l \in 0 .. Total - 1
    <2>1. operation[r] \in (Collectives \cup {"none", "send_activation", "send_gradient"})
                             \X (0 .. Total - 1) \X Nat
      BY <1>1, Types
    <2>2. operation[s] \in (Collectives \cup {"none", "send_activation", "send_gradient"})
                             \X (0 .. Total - 1) \X Nat
      BY <1>1, Types
    <2> QED
      BY <2>1, <2>2
  <1>3. operation[r][3] = operation[s][3] /\ Number(i, k) = Number(j, l)
    BY <1>1 DEF InStep
  <1>4. /\ i \in Collectives /\ j \in Collectives
        /\ i = "origin" => k = 0
        /\ j = "origin" => l = 0
        /\ i = "final_barrier" => k + 1 = Total
        /\ j = "final_barrier" => l + 1 = Total
        /\ i = "reduce" => ~Pipeline
        /\ j = "reduce" => ~Pipeline
    BY <1>1 DEF InStep
  <1>5. i = j /\ k = l
    <2>1. Total \in Nat /\ k \in Nat /\ l \in Nat /\ k + 1 <= Total /\ l + 1 <= Total
      <3>1. k \in Nat /\ k + 1 <= Total
        BY <1>2, Sizes
      <3>2. l \in Nat /\ l + 1 <= Total
        BY <1>2, Sizes
      <3> QED
        BY <3>1, <3>2, Sizes
    <2> HIDE DEF i, j, k, l
    <2>2. CASE Pipeline
      <3>1. Number(i, k) = IF i = "origin" THEN 1 ELSE IF i = "iteration_barrier" THEN 2 + k
                           ELSE 2 + Total
        BY <1>4, <2>1, <2>2 DEF Number, CollectivesOf, Collectives
      <3>2. Number(j, l) = IF j = "origin" THEN 1 ELSE IF j = "iteration_barrier" THEN 2 + l
                           ELSE 2 + Total
        BY <1>4, <2>1, <2>2 DEF Number, CollectivesOf, Collectives
      <3>3. /\ i \in {"origin", "iteration_barrier", "final_barrier"}
            /\ j \in {"origin", "iteration_barrier", "final_barrier"}
        BY <1>4, <2>2 DEF Collectives
      <3>4. (IF i = "origin" THEN 1 ELSE IF i = "iteration_barrier" THEN 2 + k ELSE 2 + Total)
            = (IF j = "origin" THEN 1 ELSE IF j = "iteration_barrier" THEN 2 + l ELSE 2 + Total)
        BY <1>3, <3>1, <3>2
      <3>5. i = j
        BY <1>4, <2>1, <3>3, <3>4
      <3> QED
        BY <1>4, <2>1, <3>3, <3>4, <3>5
    <2>3. CASE ~Pipeline
      <3>1. Number(i, k) = IF i = "origin" THEN 1 ELSE IF i = "reduce" THEN 2 + 2 * k
                           ELSE IF i = "iteration_barrier" THEN 3 + 2 * k ELSE 2 + 2 * Total
        BY <1>4, <2>1, <2>3 DEF Number, CollectivesOf, Collectives
      <3>2. Number(j, l) = IF j = "origin" THEN 1 ELSE IF j = "reduce" THEN 2 + 2 * l
                           ELSE IF j = "iteration_barrier" THEN 3 + 2 * l ELSE 2 + 2 * Total
        BY <1>4, <2>1, <2>3 DEF Number, CollectivesOf, Collectives
      <3>3. /\ i \in {"origin", "reduce", "iteration_barrier", "final_barrier"}
            /\ j \in {"origin", "reduce", "iteration_barrier", "final_barrier"}
        BY <1>4 DEF Collectives
      <3>4. (IF i = "origin" THEN 1 ELSE IF i = "reduce" THEN 2 + 2 * k
             ELSE IF i = "iteration_barrier" THEN 3 + 2 * k ELSE 2 + 2 * Total)
            = (IF j = "origin" THEN 1 ELSE IF j = "reduce" THEN 2 + 2 * l
               ELSE IF j = "iteration_barrier" THEN 3 + 2 * l ELSE 2 + 2 * Total)
        BY <1>3, <3>1, <3>2
      <3>5. i = j
        BY <1>4, <2>1, <3>3, <3>4
      <3> QED
        BY <1>4, <2>1, <3>3, <3>4, <3>5
    <2> QED
      BY <2>2, <2>3
  <1> HIDE DEF i, j, k, l
  <1> QED
    BY <1>2, <1>3, <1>5

\* Only the two ends of a transfer record an operation in the same step, the same one.
LEMMA EndsOfTransfer ==
  ASSUME BenchmarkInductive, NEW x \in Ranks, Step(x), NEW u \in Ranks, u # x,
         operation'[u] # operation[u]
  PROVE  /\ (ActivationTransfer(x) /\ u = x + 1) \/ (GradientTransfer(x) /\ u = x - 1)
         /\ operation'[u] = operation'[x]
  <1>1. (ActivationTransfer(x) /\ u = x + 1) \/ (GradientTransfer(x) /\ u = x - 1)
    <2>1. BenchmarkTyped /\ ~Still(u)
      BY DEF BenchmarkInductive, Still
    <2>2. (~(ActivationTransfer(x) /\ u = x + 1) /\ ~(GradientTransfer(x) /\ u = x - 1)) => Still(u)
      BY <2>1, OthersStill
    <2> QED
      BY <2>1, <2>2
  <1>2. /\ BenchmarkTyped /\ Abreast /\ AtPoint(x)
    BY DEF BenchmarkInductive
  <1>3. DOMAIN operation = Ranks /\ x \in Nat
    BY <1>2, Types, Sizes
  <1>4. CASE ActivationTransfer(x) /\ u = x + 1
    <2>1. /\ pc[x] = "send_activation" /\ pc[x + 1] = "receive_activation"
          /\ operation'[x] = <<"send_activation", loop[x], microbatch[x]>>
          /\ operation'[u] = <<"send_activation", loop[u], microbatch[u]>>
      BY <1>3, <1>4 DEF ActivationTransfer, Transfer
    <2>2. Pipeline
      BY <1>2, <2>1 DEF AtPoint, StageOnly
    <2>3. loop[x] = loop[u] /\ microbatch[x] = microbatch[u]
      BY <1>2, <1>4, <2>1, <2>2, Meets
    <2> QED
      BY <1>1, <2>1, <2>3
  <1>5. CASE GradientTransfer(x) /\ u = x - 1
    <2>1. /\ pc[x] = "send_gradient" /\ pc[u] = "receive_gradient"
          /\ operation'[x] = <<"send_gradient", loop[x], microbatch[x]>>
          /\ operation'[u] = <<"send_gradient", loop[u], microbatch[u]>>
      BY <1>3, <1>5 DEF GradientTransfer, Transfer
    <2>2. Pipeline
      BY <1>2, <2>1 DEF AtPoint, StageOnly
    <2>3. u + 1 = x
      BY <1>3, <1>5
    <2>4. loop[u] = loop[x] /\ microbatch[u] = microbatch[x]
      BY <1>2, <2>1, <2>2, <2>3, Meets
    <2> QED
      BY <1>1, <2>1, <2>4
  <1> QED
    BY <1>1, <1>4, <1>5

\* Ranks that meet are at the same point of the program: two ranks in the collective of
\* the same number are in the same one of the same iteration, and the two ends of a
\* transfer in the same microbatch.
THEOREM PeersMeet == BenchmarkSpec => PeersAgree
  <1>1. BenchmarkSpec => []BenchmarkInductive
    BY BenchmarkInvariance
  <1>2. BenchmarkInductive => Numbered
    BY NumbersTell
  <1>3. BenchmarkInductive /\ Numbered' /\ [BenchmarkNext]_benchmarkVars =>
          [\A r, s \in Ranks :
             /\ (operation'[r][1] \in Collectives /\ operation'[s][1] \in Collectives
                   /\ entered'[r] = entered'[s]) => operation'[r] = operation'[s]
             /\ (r # s /\ operation'[r] # operation[r] /\ operation'[s] # operation[s])
                   => operation'[r] = operation'[s]]_benchmarkVars
    <2> SUFFICES ASSUME BenchmarkInductive, Numbered', BenchmarkNext,
                        NEW r \in Ranks, NEW s \in Ranks
                 PROVE  /\ (operation'[r][1] \in Collectives /\ operation'[s][1] \in Collectives
                              /\ entered'[r] = entered'[s]) => operation'[r] = operation'[s]
                        /\ (r # s /\ operation'[r] # operation[r] /\ operation'[s] # operation[s])
                              => operation'[r] = operation'[s]
      OBVIOUS
    <2>1. (operation'[r][1] \in Collectives /\ operation'[s][1] \in Collectives
             /\ entered'[r] = entered'[s]) => operation'[r] = operation'[s]
      BY DEF Numbered, Collectives
    <2>2. ASSUME r # s, operation'[r] # operation[r], operation'[s] # operation[s]
          PROVE  operation'[r] = operation'[s]
      <3>1. PICK x \in Ranks : Step(x)
        BY DEF BenchmarkNext
      <3>2. CASE r = x
        BY <2>2, <3>1, <3>2, EndsOfTransfer
      <3>3. CASE s = x
        BY <2>2, <3>1, <3>3, EndsOfTransfer
      <3>4. CASE r # x /\ s # x
        <4>1. operation'[r] = operation'[x]
          BY <2>2, <3>1, <3>4, EndsOfTransfer
        <4>2. operation'[s] = operation'[x]
          BY <2>2, <3>1, <3>4, EndsOfTransfer
        <4> QED
          BY <4>1, <4>2
      <3> QED
        BY <3>2, <3>3, <3>4
    <2> QED
      BY <2>1, <2>2
  <1> QED
    BY <1>1, <1>2, <1>3, PTL DEF BenchmarkSpec, PeersAgree

-----------------------------------------------------------------------------
(* LargeScale. *)

\* How far a checkpoint is.
Place(at) ==
  CASE at = "none" -> 0 [] at = "staging" -> 1 [] at \in {"permit", "local"} -> 2
    [] at \in {"uploading", "peer_dram"} -> 3 [] at = "peer_ssd" -> 4 [] at = "done" -> 5

\* Its steps, and those at which it holds or awaits the CPU of an aggregate job.
Paths(j) == {"none", "staging", "done"} \cup
              IF setting[j].tiered THEN {"local", "peer_dram", "peer_ssd"}
                                   ELSE {"permit", "uploading"}
OnCpu == {"staging", "uploading", "local", "peer_dram", "peer_ssd"}
OnGpu == {"forward", "backward", "allreduce", "optimizer"}
IterationOver == {"waiting", "finishing", "inactive", "ended"}

LargeTypes ==
  /\ setting \in Settings
  /\ stage \in [Jobs -> OnGpu \cup IterationOver]
  /\ iteration \in [Jobs -> CheckpointNumber]
  /\ DOMAIN copy = Jobs /\ \A j \in Jobs : copy[j] \in [CheckpointNumber -> Paths(j)]
  /\ gpu \in [Jobs -> Seq(0 .. JobIterations)] /\ cpu \in [Jobs -> Seq(0 .. JobIterations)]
  /\ store \in Seq(Jobs \X CheckpointNumber)

\* The checkpoints that have been started are those due in the iterations that have ended.
Started ==
  \A j \in Jobs : \A i \in CheckpointNumber :
    (copy[j][i] # "none") <=>
      /\ i \in DueOf(j)
      /\ i < iteration[j] \/ (i = iteration[j] /\ stage[j] \in IterationOver)

\* Who is in the queues of an aggregate job, and in that of the store.
JobQueued(j) ==
  /\ IsInjective(cpu[j]) /\ ToSet(cpu[j]) = {i \in CheckpointNumber : copy[j][i] \in OnCpu}
  /\ IsInjective(gpu[j])
  /\ ToSet(gpu[j]) = {i \in CheckpointNumber : copy[j][i] = "staging"}
                       \cup (IF stage[j] \in OnGpu THEN {Training} ELSE {})
QueuesHold == \A j \in Jobs : ~setting[j].chunked => JobQueued(j)
StoreHolds ==
  /\ IsInjective(store)
  /\ ToSet(store) = {x \in Jobs \X CheckpointNumber : copy[x[1]][x[2]] \in {"permit", "uploading"}}

\* A checkpoint is as far as any later one.
FartherAlong ==
  \A j \in Jobs : \A k, i \in DueOf(j) : k < i => Place(copy[j][k]) >= Place(copy[j][i])

\* Those of an aggregate job wait for the same thing in their order, and a copy to the
\* tiers that has begun is at the head.
Lined(j) ==
  /\ \A k, i \in CheckpointNumber :
       /\ k < i /\ copy[j][k] \in OnCpu /\ copy[j][i] \in OnCpu
       /\ (copy[j][k] = "staging") <=> (copy[j][i] = "staging")
       => Before(cpu[j], k, i)
  /\ \A k, i \in CheckpointNumber :
       k < i /\ copy[j][k] = "permit" /\ copy[j][i] = "permit" => Before(store, <<j, k>>, <<j, i>>)
  /\ \A i \in CheckpointNumber :
       copy[j][i] \in {"peer_dram", "peer_ssd"} => cpu[j] # <<>> /\ Head(cpu[j]) = i
InLine == \A j \in Jobs : ~setting[j].chunked => Lined(j)

\* Training that has asked for the GPU again is behind the checkpoint to be staged.
Behind ==
  \A j \in Jobs : \A i \in CheckpointNumber :
    ~setting[j].chunked /\ copy[j][i] = "staging" /\ stage[j] = "backward"
      => Before(gpu[j], i, Training)

LargeInductive ==
  /\ LargeTypes /\ Started /\ QueuesHold /\ StoreHolds /\ FartherAlong /\ InLine /\ Behind
  /\ CapturesItsIteration

\* The queue of a resource when a process leaves its head, or was not in it, and perhaps
\* joins it again: the others keep their order, and it is behind them.
LEMMA QueuedOrder ==
  ASSUME NEW T, NEW q \in Seq(T), IsInjective(q), NEW p \in T, NEW resource, NEW Held, NEW Needed,
         IF resource \in Held THEN q # <<>> /\ Head(q) = p ELSE p \notin ToSet(q)
  PROVE  LET r == Queued(q, p, resource \in Held, resource \in Needed)
         IN  /\ r \in Seq(T) /\ IsInjective(r)
             /\ ToSet(r) = (ToSet(q) \ {p}) \cup (IF resource \in Needed THEN {p} ELSE {})
             /\ \A x, y : x # p /\ y # p => (Before(r, x, y) <=> Before(q, x, y))
             /\ resource \in Needed => \A x \in ToSet(q) \ {p} : Before(r, x, p)
  <1> DEFINE t == IF resource \in Held THEN Tail(q) ELSE q
             r == t \o (IF resource \in Needed THEN <<p>> ELSE <<>>)
  <1>1. /\ t \in Seq(T) /\ IsInjective(t) /\ ToSet(t) = ToSet(q) \ {p}
        /\ \A x, y : x # p /\ y # p => (Before(t, x, y) <=> Before(q, x, y))
    <2>1. CASE resource \notin Held
      BY <2>1 DEF t
    <2>2. CASE resource \in Held
      <3>1. q # <<>> /\ Head(q) = p /\ Len(q) \in Nat /\ Len(q) >= 1 /\ q[1] = p /\ DOMAIN q = 1 .. Len(q)
        BY <2>2
      <3>2. /\ Tail(q) \in Seq(T) /\ DOMAIN Tail(q) = 1 .. (Len(q) - 1)
            /\ \A i \in 1 .. (Len(q) - 1) : Tail(q)[i] = q[i + 1]
        BY <3>1
      <3>3. t = Tail(q)
        BY <2>2 DEF t
      <3> HIDE DEF t
      <3>4. IsInjective(t)
        BY <3>1, <3>2, <3>3 DEF IsInjective
      <3>5. ToSet(t) = ToSet(q) \ {p}
        BY <3>1, <3>3, HeadFirst
      <3>6. ASSUME NEW x, NEW y, x # p, y # p PROVE Before(t, x, y) <=> Before(q, x, y)
        <4>1. ASSUME Before(t, x, y) PROVE Before(q, x, y)
          <5>1. PICK i, j \in 1 .. (Len(q) - 1) : i < j /\ t[i] = x /\ t[j] = y
            BY <3>2, <3>3, <4>1 DEF Before
          <5>2. i + 1 \in DOMAIN q /\ j + 1 \in DOMAIN q /\ i + 1 < j + 1 /\ q[i + 1] = x /\ q[j + 1] = y
            BY <3>1, <3>2, <3>3, <5>1
          <5> QED
            BY <5>2 DEF Before
        <4>2. ASSUME Before(q, x, y) PROVE Before(t, x, y)
          <5>1. PICK i, j \in 1 .. Len(q) : i < j /\ q[i] = x /\ q[j] = y
            BY <3>1, <4>2 DEF Before
          <5>2. i # 1 /\ j # 1
            BY <3>1, <3>6, <5>1
          <5>3. /\ i - 1 \in 1 .. (Len(q) - 1) /\ j - 1 \in 1 .. (Len(q) - 1) /\ i - 1 < j - 1
                /\ (i - 1) + 1 = i /\ (j - 1) + 1 = j
            BY <3>1, <5>1, <5>2
          <5>4. t[i - 1] = x /\ t[j - 1] = y
            BY <3>2, <3>3, <5>1, <5>3
          <5> QED
            BY <3>2, <3>3, <5>3, <5>4 DEF Before
        <4> QED
          BY <4>1, <4>2
      <3> QED
        BY <3>2, <3>3, <3>4, <3>5, <3>6
    <2> QED
      BY <2>1, <2>2
  <1> HIDE DEF t
  <1>2. r = Queued(q, p, resource \in Held, resource \in Needed)
    BY DEF Queued, t
  <1>3. CASE resource \notin Needed
    <2>1. r = t
      BY <1>1, <1>3
    <2> QED
      BY <1>1, <1>2, <1>3, <2>1
  <1>4. CASE resource \in Needed
    <2>1. p \notin ToSet(t)
      BY <1>1
    <2>2. r = Append(t, p)
      BY <1>1, <1>4
    <2> HIDE DEF r
    <2>3. /\ r \in Seq(T) /\ IsInjective(r) /\ ToSet(r) = ToSet(t) \cup {p}
          /\ \A x, y : x # p /\ y # p => (Before(r, x, y) <=> Before(t, x, y))
          /\ \A x \in ToSet(t) : Before(r, x, p)
      BY <1>1, <2>1, <2>2, AppendOrder
    <2> QED
      BY <1>1, <1>2, <1>4, <2>3
  <1> QED
    BY <1>3, <1>4

\* A process that neither held nor asks for a resource changes nothing in its queue, and one
\* that joins it is the last.
LEMMA QueuedPlain ==
  ASSUME NEW T, NEW q \in Seq(T), NEW p
  PROVE  Queued(q, p, FALSE, FALSE) = q /\ (p \in T => Queued(q, p, FALSE, TRUE) = Append(q, p))
  BY DEF Queued

\* The assumption on the constants, in the form that the proofs use.
LEMMA LargeBounds ==
  /\ JobIterations \in Nat /\ JobIterations >= 1 /\ Permits \in Nat
  /\ CheckpointNumber = 1 .. JobIterations
  /\ \A s \in Settings, j \in Jobs :
       /\ s[j].chunked \in BOOLEAN /\ s[j].tiered \in BOOLEAN /\ s[j].synchronous \in BOOLEAN
       /\ s[j].every \in Nat \ {0}
  BY LargeAssumption DEF LargeAssumption, CheckpointNumber

\* A step of a checkpoint that follows another one, and what it does to the store.
Follows(j, at, next) ==
  IF setting[j].tiered
  THEN <<at, next>> \in {<<"staging", "local">>, <<"local", "peer_dram">>,
                        <<"peer_dram", "peer_ssd">>, <<"peer_ssd", "done">>}
  ELSE <<at, next>> \in {<<"staging", "permit">>, <<"permit", "uploading">>, <<"uploading", "done">>}

StoreFollows(j, i, at, next) ==
  /\ store' = IF next = "permit" THEN Append(store, <<j, i>>)
              ELSE IF at = "uploading" THEN RemoveFirst(store, <<j, i>>) ELSE store
  /\ at = "permit" => Permitted(j, i)

\* Each step of a checkpoint is the next one of its path.
LEMMA PlacesFollow ==
  ASSUME NEW j, NEW at, NEW next, Follows(j, at, next)
  PROVE  /\ next \in Paths(j) /\ at \in Paths(j) /\ at # "none" /\ next # "none" /\ at # next
         /\ \A x \in Paths(j) :
              /\ Place(x) \in 0 .. 5
              /\ Place(x) >= Place(at) /\ x # at => Place(x) >= Place(next)
              /\ Place(at) >= Place(x) => Place(next) >= Place(x)
              /\ (Place(x) = 5) <=> (x = "done")
              /\ (Place(x) = 0) <=> (x = "none")
  <1>1. /\ Place("none") = 0 /\ Place("staging") = 1 /\ Place("permit") = 2 /\ Place("local") = 2
        /\ Place("uploading") = 3 /\ Place("peer_dram") = 3 /\ Place("peer_ssd") = 4
        /\ Place("done") = 5
    BY DEF Place
  <1>2. CASE setting[j].tiered
    <2>1. Paths(j) = {"none", "staging", "local", "peer_dram", "peer_ssd", "done"}
      BY <1>2 DEF Paths
    <2>2. \/ at = "staging" /\ next = "local"
          \/ at = "local" /\ next = "peer_dram"
          \/ at = "peer_dram" /\ next = "peer_ssd"
          \/ at = "peer_ssd" /\ next = "done"
      BY <1>2 DEF Follows
    <2> HIDE DEF Place, Paths
    <2> QED
      <3>1. next \in Paths(j) /\ at \in Paths(j) /\ at # "none" /\ next # "none" /\ at # next
        BY <2>1, <2>2
      <3>2. ASSUME NEW x \in Paths(j)
            PROVE  /\ Place(x) \in 0 .. 5
                   /\ Place(x) >= Place(at) /\ x # at => Place(x) >= Place(next)
                   /\ Place(at) >= Place(x) => Place(next) >= Place(x)
        BY <1>1, <2>1, <2>2, <3>2
      <3>3. ASSUME NEW x \in Paths(j)
            PROVE  /\ (Place(x) = 5) <=> (x = "done")
                   /\ (Place(x) = 0) <=> (x = "none")
        BY <1>1, <2>1, <3>3
      <3> QED
        BY <3>1, <3>2, <3>3
  <1>3. CASE ~setting[j].tiered
    <2>1. Paths(j) = {"none", "staging", "permit", "uploading", "done"}
      BY <1>3 DEF Paths
    <2>2. \/ at = "staging" /\ next = "permit"
          \/ at = "permit" /\ next = "uploading"
          \/ at = "uploading" /\ next = "done"
      BY <1>3 DEF Follows
    <2> HIDE DEF Place, Paths
    <2> QED
      <3>1. next \in Paths(j) /\ at \in Paths(j) /\ at # "none" /\ next # "none" /\ at # next
        BY <2>1, <2>2
      <3>2. ASSUME NEW x \in Paths(j)
            PROVE  /\ Place(x) \in 0 .. 5
                   /\ Place(x) >= Place(at) /\ x # at => Place(x) >= Place(next)
                   /\ Place(at) >= Place(x) => Place(next) >= Place(x)
        BY <1>1, <2>1, <2>2, <3>2
      <3>3. ASSUME NEW x \in Paths(j)
            PROVE  /\ (Place(x) = 5) <=> (x = "done")
                   /\ (Place(x) = 0) <=> (x = "none")
        BY <1>1, <2>1, <3>3
      <3> QED
        BY <3>1, <3>2, <3>3
  <1> QED
    BY <1>2, <1>3

\* What a process of an aggregate job needs.
LEMMA NeedsOf ==
  ASSUME NEW j, ~setting[j].chunked, NEW at \in OnGpu \cup IterationOver \cup Paths(j)
  PROVE  /\ "cpu" \in Needs(j, at) <=> at \in OnCpu
         /\ "gpu" \in Needs(j, at) <=> (at \in OnGpu \/ at = "staging")
  <1>1. at \in OnGpu \cup IterationOver \cup OnCpu \cup {"none", "permit", "done"}
    BY DEF Paths, OnCpu
  <1>2. CASE at \in OnGpu
    <2>1. Needs(j, at) = {"gpu"} /\ at \notin OnCpu
      BY <1>2 DEF Needs, OnGpu, OnCpu
    <2> QED
      BY <1>2, <2>1
  <1>3. CASE at = "staging"
    <2>1. Needs(j, at) = {"cpu", "gpu"} /\ at \in OnCpu
      BY <1>3 DEF Needs, OnCpu
    <2> QED
      BY <1>3, <2>1
  <1>4. CASE at \in OnCpu \ {"staging"}
    <2>1. Needs(j, at) = {"cpu"} /\ at \notin OnGpu
      BY <1>4 DEF Needs, OnCpu, OnGpu
    <2> QED
      BY <1>4, <2>1
  <1>5. CASE at \in IterationOver \cup {"none", "permit", "done"}
    <2>1. Needs(j, at) = {} /\ at \notin OnGpu \cup OnCpu
      BY <1>5 DEF Needs, IterationOver, OnCpu, OnGpu
    <2> QED
      BY <1>5, <2>1 DEF OnCpu
  <1> QED
    BY <1>1, <1>2, <1>3, <1>4, <1>5

\* What a step of a checkpoint of an aggregate job does to the queues of its job.
LEMMA AdvanceQueues ==
  ASSUME LargeInductive, NEW j \in Jobs, NEW i \in CheckpointNumber, NEW at, NEW next,
         Advances(j, i, at, next), Follows(j, at, next), ~setting[j].chunked
  PROVE  /\ cpu'[j] \in Seq(0 .. JobIterations) /\ IsInjective(cpu'[j])
         /\ ToSet(cpu'[j]) = (ToSet(cpu[j]) \ {i}) \cup (IF next \in OnCpu THEN {i} ELSE {})
         /\ \A x, y : x # i /\ y # i => (Before(cpu'[j], x, y) <=> Before(cpu[j], x, y))
         /\ (at \in {"staging", "permit"} /\ next \in OnCpu) =>
              \A x \in ToSet(cpu[j]) \ {i} : Before(cpu'[j], x, i)
         /\ at \in {"local", "peer_dram"} => cpu'[j] = cpu[j]
         /\ (at \in OnCpu) => (cpu[j] # <<>> /\ Head(cpu[j]) = i)
         /\ gpu'[j] \in Seq(0 .. JobIterations) /\ IsInjective(gpu'[j])
         /\ ToSet(gpu'[j]) = ToSet(gpu[j]) \ (IF at = "staging" THEN {i} ELSE {})
         /\ \A x, y : x # i /\ y # i => (Before(gpu'[j], x, y) <=> Before(gpu[j], x, y))
         /\ \A l \in Jobs \ {j} : gpu'[l] = gpu[l] /\ cpu'[l] = cpu[l]
  <1> DEFINE T == 0 .. JobIterations
  <1>1. /\ gpu \in [Jobs -> Seq(T)] /\ cpu \in [Jobs -> Seq(T)] /\ i \in T
        /\ copy[j][i] = at /\ Works(j, i, at) /\ Passes(j, i, at, next)
    BY LargeBounds DEF LargeInductive, LargeTypes, Advances
  <1>2. /\ IsInjective(cpu[j]) /\ ToSet(cpu[j]) = {k \in CheckpointNumber : copy[j][k] \in OnCpu}
        /\ IsInjective(gpu[j])
        /\ ToSet(gpu[j]) = {k \in CheckpointNumber : copy[j][k] = "staging"}
                             \cup (IF stage[j] \in OnGpu THEN {Training} ELSE {})
    BY DEF LargeInductive, QueuesHold, JobQueued
  <1>3. i # Training
    BY LargeBounds DEF Training
  <1>4. /\ i \in ToSet(cpu[j]) <=> at \in OnCpu
        /\ i \in ToSet(gpu[j]) <=> at = "staging"
    BY <1>1, <1>2, <1>3
  <1>5. /\ cpu[j] \in Seq(T) /\ gpu[j] \in Seq(T)
        /\ \A x \in ToSet(cpu[j]) : cpu[j] # <<>>
        /\ \A x \in ToSet(gpu[j]) : gpu[j] # <<>>
    BY <1>1 DEF ToSet
  <1>6. /\ "cpu" \in Needs(j, at) <=> at \in OnCpu
        /\ "cpu" \in Needs(j, next) <=> next \in OnCpu
        /\ "gpu" \in Needs(j, at) <=> at = "staging"
        /\ "gpu" \notin Needs(j, next)
    <2>1. at \in Paths(j) /\ next \in Paths(j) /\ next # "staging" /\ at \notin OnGpu /\ next \notin OnGpu
      BY DEF Follows, Paths, OnGpu
    <2> QED
      BY <2>1, NeedsOf
  <1>7. /\ at \in OnCpu => cpu[j] # <<>> /\ Head(cpu[j]) = i
        /\ at = "staging" => gpu[j] # <<>> /\ Head(gpu[j]) = i
    BY <1>1, <1>4, <1>5, <1>6 DEF Works
  <1>8. CASE at \in {"local", "peer_dram"}
    <2>1. gpu' = gpu /\ cpu' = cpu
      BY <1>1, <1>8 DEF Passes
    <2>2. at \in OnCpu /\ next \in OnCpu /\ at # "staging" /\ at # "permit"
      BY <1>8 DEF Follows, OnCpu
    <2> QED
      BY <1>1, <1>2, <1>4, <1>7, <2>1, <2>2
  <1>9. CASE at \notin {"local", "peer_dram"}
    <2> DEFINE c == Queued(cpu[j], i, "cpu" \in Needs(j, at), "cpu" \in Needs(j, next))
               g == Queued(gpu[j], i, "gpu" \in Needs(j, at), "gpu" \in Needs(j, next))
    <2>1. cpu' = [cpu EXCEPT ![j] = c] /\ gpu' = [gpu EXCEPT ![j] = g]
      BY <1>1, <1>9 DEF Passes
    <2>2. /\ c \in Seq(T) /\ IsInjective(c)
          /\ ToSet(c) = (ToSet(cpu[j]) \ {i}) \cup (IF "cpu" \in Needs(j, next) THEN {i} ELSE {})
          /\ \A x, y : x # i /\ y # i => (Before(c, x, y) <=> Before(cpu[j], x, y))
          /\ "cpu" \in Needs(j, next) => \A x \in ToSet(cpu[j]) \ {i} : Before(c, x, i)
      <3>1. IF "cpu" \in Needs(j, at) THEN cpu[j] # <<>> /\ Head(cpu[j]) = i ELSE i \notin ToSet(cpu[j])
        BY <1>4, <1>6, <1>7
      <3> HIDE DEF T
      <3> QED
        BY <1>1, <1>2, <1>5, <3>1, QueuedOrder
    <2>3. /\ g \in Seq(T) /\ IsInjective(g)
          /\ ToSet(g) = (ToSet(gpu[j]) \ {i}) \cup (IF "gpu" \in Needs(j, next) THEN {i} ELSE {})
          /\ \A x, y : x # i /\ y # i => (Before(g, x, y) <=> Before(gpu[j], x, y))
      <3>1. IF "gpu" \in Needs(j, at) THEN gpu[j] # <<>> /\ Head(gpu[j]) = i ELSE i \notin ToSet(gpu[j])
        BY <1>4, <1>6, <1>7
      <3> HIDE DEF T
      <3> QED
        BY <1>1, <1>2, <1>5, <3>1, QueuedOrder
    <2> HIDE DEF c, g
    <2>4. /\ cpu'[j] = c /\ gpu'[j] = g
          /\ \A l \in Jobs \ {j} : gpu'[l] = gpu[l] /\ cpu'[l] = cpu[l]
      BY <1>1, <2>1
    <2> QED
      BY <1>4, <1>6, <1>7, <1>9, <2>2, <2>3, <2>4
  <1> QED
    BY <1>8, <1>9

\* A checkpoint goes on only when none of an earlier iteration is where it is.
LEMMA NobodyBeside ==
  ASSUME LargeInductive, NEW j \in Jobs, NEW i \in CheckpointNumber, NEW at, NEW next,
         Advances(j, i, at, next), Follows(j, at, next), StoreFollows(j, i, at, next),
         NEW k \in CheckpointNumber, k < i
  PROVE  copy[j][k] # at
  <1>1. copy[j][i] = at /\ InTurn(j, i) /\ k \in 1 .. (i - 1)
    BY LargeBounds DEF Advances
  <1>2. CASE setting[j].chunked
    BY <1>1, <1>2 DEF InTurn
  <1>3. CASE ~setting[j].chunked
    <2> SUFFICES ASSUME copy[j][k] = at PROVE FALSE
      OBVIOUS
    <2>1. Lined(j) /\ at \in OnCpu \cup {"permit"}
      BY <1>3 DEF LargeInductive, InLine, Follows, OnCpu
    <2>2. CASE at \in OnCpu
      <3>1. Before(cpu[j], k, i)
        BY <1>1, <2>1, <2>2 DEF Lined
      <3>2. cpu[j] # <<>> /\ Head(cpu[j]) = i /\ IsInjective(cpu[j]) /\ cpu[j] \in Seq(0 .. JobIterations)
        BY <1>3, <2>2, AdvanceQueues DEF LargeInductive, QueuesHold, JobQueued, LargeTypes
      <3> QED
        BY <3>1, <3>2, HeadFirst
    <2>3. CASE at = "permit"
      <3>1. Before(store, <<j, k>>, <<j, i>>)
        BY <1>1, <2>1, <2>3 DEF Lined
      <3>2. PICK n \in 1 .. Permits :
              /\ n <= Len(store) /\ store[n] = <<j, i>>
              /\ \A m \in 1 .. (n - 1) : copy[store[m][1]][store[m][2]] # "permit"
        BY <2>3 DEF StoreFollows, Permitted
      <3>3. PICK p, q \in DOMAIN store : p < q /\ store[p] = <<j, k>> /\ store[q] = <<j, i>>
        BY <3>1 DEF Before
      <3>4. DOMAIN store = 1 .. Len(store) /\ Len(store) \in Nat /\ IsInjective(store)
        BY DEF LargeInductive, LargeTypes, StoreHolds
      <3>5. q = n /\ p \in 1 .. (n - 1)
        BY <3>2, <3>3, <3>4, LargeBounds DEF IsInjective
      <3>6. store[p][1] = j /\ store[p][2] = k
        BY <3>3
      <3> QED
        BY <2>3, <3>2, <3>5, <3>6
    <2> QED
      BY <2>1, <2>2, <2>3
  <1> QED
    BY <1>2, <1>3

\* A checkpoint of a chunked job waits for no resource of the job.
LEMMA ChunkedQueues ==
  ASSUME NEW j, NEW p, NEW at, NEW next, setting[j].chunked, Passes(j, p, at, next),
         gpu \in [Jobs -> Seq(0 .. JobIterations)], cpu \in [Jobs -> Seq(0 .. JobIterations)]
  PROVE  gpu' = gpu /\ cpu' = cpu
  <1>1. Needs(j, at) = {} /\ Needs(j, next) = {}
    BY DEF Needs
  <1>2. CASE at \in {"local", "peer_dram"}
    BY <1>2 DEF Passes
  <1>3. CASE at \notin {"local", "peer_dram"}
    <2> DEFINE g == Queued(gpu[j], p, "gpu" \in Needs(j, at), "gpu" \in Needs(j, next))
               c == Queued(cpu[j], p, "cpu" \in Needs(j, at), "cpu" \in Needs(j, next))
    <2>1. /\ gpu' = [gpu EXCEPT ![j] = g]
          /\ cpu' = [cpu EXCEPT ![j] = c]
      BY <1>3 DEF Passes
    <2>2. j \in Jobs => g = gpu[j] /\ c = cpu[j]
      BY <1>1 DEF Queued
    <2> HIDE DEF g, c
    <2>3. gpu' = gpu /\ cpu' = cpu
      BY <2>1, <2>2
    <2> QED
      BY <2>3
  <1> QED
    BY <1>2, <1>3

\* A step of a checkpoint keeps the types, and what has been started.
LEMMA AdvanceTypes ==
  ASSUME LargeInductive, NEW j \in Jobs, NEW i \in CheckpointNumber, NEW at, NEW next,
         Advances(j, i, at, next), Follows(j, at, next), StoreFollows(j, i, at, next)
  PROVE  /\ \A l \in Jobs, k \in CheckpointNumber :
              copy'[l][k] = IF l = j /\ k = i THEN next ELSE copy[l][k]
         /\ setting' = setting /\ stage' = stage /\ iteration' = iteration
         /\ \A l \in Jobs \ {j} : gpu'[l] = gpu[l] /\ cpu'[l] = cpu[l]
         /\ copy[j][i] = at
         /\ LargeTypes'
  <1>1. /\ copy[j][i] = at /\ copy' = [copy EXCEPT ![j][i] = next] /\ Passes(j, i, at, next)
        /\ setting' = setting /\ stage' = stage /\ iteration' = iteration
    BY DEF Advances
  <1>2. LargeTypes /\ next \in Paths(j)
    BY PlacesFollow DEF LargeInductive
  <1>3. \A l \in Jobs, k \in CheckpointNumber :
          copy'[l][k] = IF l = j /\ k = i THEN next ELSE copy[l][k]
    BY <1>1, <1>2 DEF LargeTypes
  <1>4. DOMAIN copy' = Jobs /\ \A l \in Jobs : copy'[l] \in [CheckpointNumber -> Paths(l)']
    <2>1. \A l : Paths(l)' = Paths(l)
      BY <1>1 DEF Paths
    <2>2. DOMAIN copy' = Jobs /\ \A l \in Jobs : copy'[l] \in [CheckpointNumber -> Paths(l)]
      BY <1>1, <1>2 DEF LargeTypes
    <2> QED
      BY <2>1, <2>2
  <1>5. /\ gpu' \in [Jobs -> Seq(0 .. JobIterations)] /\ cpu' \in [Jobs -> Seq(0 .. JobIterations)]
        /\ \A l \in Jobs \ {j} : gpu'[l] = gpu[l] /\ cpu'[l] = cpu[l]
    <2>1. CASE setting[j].chunked
      BY <1>1, <1>2, <2>1, ChunkedQueues DEF LargeTypes
    <2>2. CASE ~setting[j].chunked
      <3>1. /\ cpu'[j] \in Seq(0 .. JobIterations) /\ gpu'[j] \in Seq(0 .. JobIterations)
            /\ \A l \in Jobs \ {j} : gpu'[l] = gpu[l] /\ cpu'[l] = cpu[l]
        BY <2>2, AdvanceQueues
      <3>2. /\ cpu' = [l \in Jobs |-> cpu'[l]] /\ gpu' = [l \in Jobs |-> gpu'[l]]
        BY <1>1, <1>2 DEF Passes, LargeTypes
      <3>3. \A l \in Jobs : cpu[l] \in Seq(0 .. JobIterations) /\ gpu[l] \in Seq(0 .. JobIterations)
        BY <1>2 DEF LargeTypes
      <3>4. \A l \in Jobs : cpu'[l] \in Seq(0 .. JobIterations) /\ gpu'[l] \in Seq(0 .. JobIterations)
        BY <3>1, <3>3
      <3> QED
        BY <3>1, <3>2, <3>4
    <2> QED
      BY <2>1, <2>2
  <1>6. store' \in Seq(Jobs \X CheckpointNumber)
    <2>1. store \in Seq(Jobs \X CheckpointNumber) /\ IsInjective(store)
          /\ <<j, i>> \in Jobs \X CheckpointNumber
      BY DEF LargeInductive, StoreHolds, LargeTypes
    <2>2. RemoveFirst(store, <<j, i>>) \in Seq(Jobs \X CheckpointNumber)
      BY <2>1, RemoveOrder
    <2> QED
      BY <2>1, <2>2 DEF StoreFollows
  <1> QED
    BY <1>1, <1>2, <1>3, <1>4, <1>5, <1>6 DEF LargeTypes

\* A checkpoint that goes on is not overtaken, nor does it overtake another one.
LEMMA AdvanceOrder ==
  ASSUME LargeInductive, NEW j \in Jobs, NEW i \in CheckpointNumber, NEW at, NEW next,
         Advances(j, i, at, next), Follows(j, at, next), StoreFollows(j, i, at, next)
  PROVE  Started' /\ FartherAlong'
  <1>1. /\ \A l \in Jobs, k \in CheckpointNumber :
              copy'[l][k] = IF l = j /\ k = i THEN next ELSE copy[l][k]
        /\ setting' = setting /\ stage' = stage /\ iteration' = iteration
        /\ copy[j][i] = at
    BY AdvanceTypes
  <1>2. /\ next \in Paths(j) /\ at \in Paths(j) /\ at # "none" /\ next # "none" /\ at # next
        /\ \A x \in Paths(j) :
             /\ Place(x) \in 0 .. 5
             /\ Place(x) >= Place(at) /\ x # at => Place(x) >= Place(next)
             /\ Place(at) >= Place(x) => Place(next) >= Place(x)
    BY PlacesFollow
  <1>3. \A l : DueOf(l)' = DueOf(l) /\ DueOf(l) \subseteq CheckpointNumber
    BY <1>1 DEF DueOf
  <1>4. Started'
    BY <1>1, <1>2, <1>3 DEF LargeInductive, Started
  <1>5. ASSUME NEW l \in Jobs, NEW k \in DueOf(l), NEW m \in DueOf(l), k < m
        PROVE  Place(copy'[l][k]) >= Place(copy'[l][m])
    <2>1. Place(copy[l][k]) >= Place(copy[l][m])
      BY <1>5 DEF LargeInductive, FartherAlong
    <2>2. k \in CheckpointNumber /\ m \in CheckpointNumber /\ k # m
      BY <1>3, <1>5, LargeBounds
    <2>3. copy[j][k] \in Paths(j) /\ copy[j][m] \in Paths(j)
      BY <2>2 DEF LargeInductive, LargeTypes
    <2>4. CASE l = j /\ k = i
      <3>1. copy'[l][k] = next /\ copy'[l][m] = copy[l][m] /\ copy[l][k] = at
        BY <1>1, <2>2, <2>4
      <3> QED
        BY <1>2, <2>1, <2>3, <2>4, <3>1
    <2>5. CASE l = j /\ m = i
      <3>1. copy'[l][m] = next /\ copy'[l][k] = copy[l][k] /\ copy[l][m] = at
        BY <1>1, <2>2, <2>5
      <3>2. copy[j][k] # at
        BY <1>5, <2>2, <2>5, NobodyBeside
      <3> QED
        BY <1>2, <2>1, <2>3, <2>5, <3>1, <3>2
    <2>6. CASE ~(l = j /\ k = i) /\ ~(l = j /\ m = i)
      <3>1. copy'[l][m] = copy[l][m] /\ copy'[l][k] = copy[l][k]
        BY <1>1, <2>2, <2>6
      <3> QED
        BY <2>1, <3>1
    <2> QED
      BY <2>4, <2>5, <2>6
  <1>6. FartherAlong'
    BY <1>3, <1>5 DEF FartherAlong
  <1> QED
    BY <1>4, <1>6

\* It leaves the queues as they should be.
LEMMA AdvanceHolds ==
  ASSUME LargeInductive, NEW j \in Jobs, NEW i \in CheckpointNumber, NEW at, NEW next,
         Advances(j, i, at, next), Follows(j, at, next), StoreFollows(j, i, at, next)
  PROVE  QueuesHold' /\ StoreHolds'
  <1>1. /\ \A l \in Jobs, k \in CheckpointNumber :
              copy'[l][k] = IF l = j /\ k = i THEN next ELSE copy[l][k]
        /\ setting' = setting /\ stage' = stage
        /\ \A l \in Jobs \ {j} : gpu'[l] = gpu[l] /\ cpu'[l] = cpu[l]
        /\ copy[j][i] = at
    BY AdvanceTypes
  <1>2. ASSUME NEW l \in Jobs, ~setting[l].chunked PROVE JobQueued(l)'
    <2>1. JobQueued(l)
      BY <1>2 DEF LargeInductive, QueuesHold
    <2>2. CASE l # j
      BY <1>1, <2>1, <2>2 DEF JobQueued
    <2>3. CASE l = j
      <3>1. /\ IsInjective(cpu'[j])
            /\ ToSet(cpu'[j]) = (ToSet(cpu[j]) \ {i}) \cup (IF next \in OnCpu THEN {i} ELSE {})
            /\ IsInjective(gpu'[j])
            /\ ToSet(gpu'[j]) = ToSet(gpu[j]) \ (IF at = "staging" THEN {i} ELSE {})
        BY <1>2, <2>3, AdvanceQueues
      <3>2. i # Training /\ next # "staging"
        <4>1. next # "staging"
          BY DEF Follows
        <4> QED
          BY <4>1, LargeBounds DEF Training
      <3>3. ToSet(cpu'[j]) = {k \in CheckpointNumber : copy'[j][k] \in OnCpu}
        BY <1>1, <2>1, <2>3, <3>1 DEF JobQueued
      <3>4. ToSet(gpu'[j]) = {k \in CheckpointNumber : copy'[j][k] = "staging"}
                               \cup (IF stage'[j] \in OnGpu THEN {Training} ELSE {})
        BY <1>1, <2>1, <2>3, <3>1, <3>2 DEF JobQueued
      <3> QED
        BY <2>3, <3>1, <3>3, <3>4 DEF JobQueued
    <2> QED
      BY <2>2, <2>3
  <1>3. QueuesHold'
    BY <1>1, <1>2 DEF QueuesHold
  <1>4. StoreHolds'
    <2> DEFINE S == Jobs \X CheckpointNumber
    <2>1. /\ store \in Seq(S) /\ IsInjective(store) /\ <<j, i>> \in S
          /\ ToSet(store) = {x \in S : copy[x[1]][x[2]] \in {"permit", "uploading"}}
      BY DEF LargeInductive, StoreHolds, LargeTypes
    <2>2. \A x \in S : copy'[x[1]][x[2]] = IF x = <<j, i>> THEN next ELSE copy[x[1]][x[2]]
      <3>1. \A x \in S : x[1] \in Jobs /\ x[2] \in CheckpointNumber /\ x = <<x[1], x[2]>>
        OBVIOUS
      <3>2. \A x \in S : (x = <<j, i>>) <=> (x[1] = j /\ x[2] = i)
        BY <3>1
      <3> QED
        BY <1>1, <3>1, <3>2
    <2>3. copy[j][i] = at /\ (<<j, i>> \in ToSet(store) <=> at \in {"permit", "uploading"})
      BY <1>1, <2>1
    <2> HIDE DEF S
    <2>4. CASE next = "permit"
      <3>0. at = "staging"
        BY <2>4 DEF Follows
      <3>1. store' = Append(store, <<j, i>>) /\ <<j, i>> \notin ToSet(store)
        BY <2>3, <2>4, <3>0 DEF StoreFollows
      <3>2. IsInjective(store') /\ ToSet(store') = ToSet(store) \cup {<<j, i>>}
        BY <2>1, <3>1, AppendOrder
      <3>3. ToSet(store') = {x \in S : copy'[x[1]][x[2]] \in {"permit", "uploading"}}
        BY <2>1, <2>2, <2>4, <3>2
      <3> QED
        BY <3>2, <3>3 DEF StoreHolds, S
    <2>5. CASE at = "uploading"
      <3>1. store' = RemoveFirst(store, <<j, i>>) /\ next = "done"
        BY <2>5 DEF StoreFollows, Follows
      <3>2. IsInjective(store') /\ ToSet(store') = ToSet(store) \ {<<j, i>>}
        BY <2>1, <3>1, RemoveOrder
      <3>3. ToSet(store') = {x \in S : copy'[x[1]][x[2]] \in {"permit", "uploading"}}
        BY <2>1, <2>2, <3>1, <3>2
      <3> QED
        BY <3>2, <3>3 DEF StoreHolds, S
    <2>6. CASE next # "permit" /\ at # "uploading"
      <3>0. \/ at \notin {"permit", "uploading"} /\ next \notin {"permit", "uploading"}
            \/ at = "permit" /\ next = "uploading"
        BY <2>6 DEF Follows
      <3>1. store' = store
        BY <2>6 DEF StoreFollows
      <3>2. ToSet(store') = {x \in S : copy'[x[1]][x[2]] \in {"permit", "uploading"}}
        BY <2>1, <2>2, <2>3, <3>0, <3>1
      <3> QED
        BY <2>1, <3>1, <3>2 DEF StoreHolds, S
    <2> QED
      BY <2>4, <2>5, <2>6
  <1> QED
    BY <1>3, <1>4

\* It keeps the order in which those of an aggregate job wait.
LEMMA AdvanceLined ==
  ASSUME LargeInductive, NEW j \in Jobs, NEW i \in CheckpointNumber, NEW at, NEW next,
         Advances(j, i, at, next), Follows(j, at, next), StoreFollows(j, i, at, next),
         ~setting[j].chunked
  PROVE  Lined(j)'
  <1>1. /\ \A k \in CheckpointNumber : copy'[j][k] = IF k = i THEN next ELSE copy[j][k]
        /\ setting' = setting /\ copy[j][i] = at
        /\ \A k \in CheckpointNumber : copy[j][k] \in Paths(j)
    BY AdvanceTypes DEF LargeInductive, LargeTypes
  <1>2. /\ cpu'[j] \in Seq(0 .. JobIterations) /\ IsInjective(cpu'[j])
        /\ \A x, y : x # i /\ y # i => (Before(cpu'[j], x, y) <=> Before(cpu[j], x, y))
        /\ (at \in {"staging", "permit"} /\ next \in OnCpu) =>
              \A x \in ToSet(cpu[j]) \ {i} : Before(cpu'[j], x, i)
        /\ at \in {"local", "peer_dram"} => cpu'[j] = cpu[j]
        /\ (at \in OnCpu) => (cpu[j] # <<>> /\ Head(cpu[j]) = i)
    BY AdvanceQueues
  <1>3. /\ Lined(j) /\ JobQueued(j)
        /\ ToSet(cpu[j]) = {k \in CheckpointNumber : copy[j][k] \in OnCpu}
    BY DEF LargeInductive, InLine, QueuesHold, JobQueued
  <1>4. \/ at \in {"local", "peer_dram"} /\ next \in {"peer_dram", "peer_ssd"} /\ setting[j].tiered
        \/ at = "staging" /\ next = "local" /\ setting[j].tiered
        \/ at = "permit" /\ next = "uploading" /\ ~setting[j].tiered
        \/ at = "staging" /\ next = "permit" /\ ~setting[j].tiered
        \/ at \in {"peer_ssd", "uploading"} /\ next = "done"
    BY DEF Follows
  <1>5. \A k, m \in CheckpointNumber :
          k < m /\ copy[j][m] # "none" /\ copy[j][k] # "none" => Place(copy[j][k]) >= Place(copy[j][m])
    BY DEF LargeInductive, FartherAlong, Started
  <1>6. \A x \in CheckpointNumber : x \in Nat
    BY LargeBounds
  <1>7. ASSUME NEW k \in CheckpointNumber, NEW m \in CheckpointNumber, k < m,
               copy'[j][k] \in OnCpu, copy'[j][m] \in OnCpu,
               copy'[j][k] = "staging" <=> copy'[j][m] = "staging"
        PROVE  Before(cpu'[j], k, m)
    <2>1. CASE at \in {"local", "peer_dram"}
      <3>1. \A x \in CheckpointNumber :
              copy'[j][x] \in OnCpu =>
                /\ copy[j][x] \in OnCpu
                /\ copy[j][x] = "staging" <=> copy'[j][x] = "staging"
        BY <1>1, <1>4, <2>1 DEF OnCpu
      <3>2. /\ copy[j][k] \in OnCpu /\ copy[j][m] \in OnCpu
            /\ copy[j][k] = "staging" <=> copy[j][m] = "staging"
        BY <1>7, <3>1
      <3>3. Before(cpu[j], k, m)
        BY <1>3, <1>7, <3>2 DEF Lined
      <3> QED
        BY <1>2, <2>1, <3>3
    <2>2. CASE at \notin {"local", "peer_dram"}
      <3>1. CASE k # i /\ m # i
        <4>1. copy'[j][k] = copy[j][k] /\ copy'[j][m] = copy[j][m]
          BY <1>1, <3>1
        <4>2. Before(cpu[j], k, m)
          BY <1>3, <1>7, <4>1 DEF Lined
        <4> QED
          BY <1>2, <3>1, <4>2
      <3>2. CASE m = i
        <4>1. copy'[j][m] = next /\ k # i /\ copy'[j][k] = copy[j][k]
          BY <1>1, <1>6, <1>7, <3>2
        <4>2. at \in {"staging", "permit"} /\ next \in OnCpu
          BY <1>4, <1>7, <2>2, <4>1 DEF OnCpu
        <4>3. k \in ToSet(cpu[j]) \ {i}
          BY <1>3, <1>7, <4>1
        <4> QED
          BY <1>2, <3>2, <4>2, <4>3
      <3>3. CASE k = i
        <4>1. copy'[j][k] = next /\ m # i /\ copy'[j][m] = copy[j][m]
          BY <1>1, <1>6, <1>7, <3>3
        <4>2. \/ at = "staging" /\ next = "local"
              \/ at = "permit" /\ next = "uploading" /\ ~setting[j].tiered
          BY <1>4, <1>7, <2>2, <4>1 DEF OnCpu
        <4>3. copy[j][m] \in OnCpu \ {"staging"} /\ copy[j][m] \in Paths(j)
          BY <1>1, <1>7, <4>1, <4>2
        <4>4. Place(at) >= Place(copy[j][m])
          BY <1>1, <1>5, <1>7, <3>3, <4>2, <4>3 DEF OnCpu
        <4>5. at = "staging" => Place(at) = 1
          BY DEF Place
        <4>6. at = "permit" => Place(at) = 2
          BY DEF Place
        <4>7. Place(copy[j][m]) \in 2 .. 5 /\ (copy[j][m] = "uploading" => Place(copy[j][m]) = 3)
          BY <4>3 DEF Place, OnCpu
        <4>8. ~setting[j].tiered => copy[j][m] = "uploading"
          BY <4>3 DEF Paths, OnCpu
        <4> QED
          BY <4>2, <4>4, <4>5, <4>6, <4>7, <4>8
      <3> QED
        BY <3>1, <3>2, <3>3
    <2> QED
      BY <2>1, <2>2
  <1>8. ASSUME NEW k \in CheckpointNumber, NEW m \in CheckpointNumber, k < m,
               copy'[j][k] = "permit", copy'[j][m] = "permit"
        PROVE  Before(store', <<j, k>>, <<j, m>>)
    <2> DEFINE S == Jobs \X CheckpointNumber
    <2>1. /\ store \in Seq(S) /\ IsInjective(store) /\ <<j, i>> \in S /\ <<j, k>> \in S
          /\ ToSet(store) = {x \in S : copy[x[1]][x[2]] \in {"permit", "uploading"}}
      BY DEF LargeInductive, StoreHolds, LargeTypes
    <2>2. <<j, i>> \in ToSet(store) <=> at \in {"permit", "uploading"}
      BY <1>1, <2>1
    <2>3. <<j, k>> \in ToSet(store) <=> copy[j][k] \in {"permit", "uploading"}
      BY <2>1
    <2> HIDE DEF S
    <2>4. CASE k # i /\ m # i
      <3>1. copy[j][k] = "permit" /\ copy[j][m] = "permit"
        BY <1>1, <1>8, <2>4
      <3>2. Before(store, <<j, k>>, <<j, m>>)
        BY <1>3, <1>8, <3>1 DEF Lined
      <3>3. <<j, k>> # <<j, i>> /\ <<j, m>> # <<j, i>>
        BY <2>4
      <3>4. next = "permit" => at = "staging"
        BY <1>4
      <3>5. next = "permit" => Before(Append(store, <<j, i>>), <<j, k>>, <<j, m>>)
        BY <2>1, <2>2, <3>2, <3>3, <3>4, AppendOrder
      <3>6. Before(RemoveFirst(store, <<j, i>>), <<j, k>>, <<j, m>>)
        BY <2>1, <3>2, <3>3, RemoveOrder
      <3> QED
        BY <3>2, <3>5, <3>6 DEF StoreFollows
    <2>5. CASE m = i
      <3>1. next = "permit" /\ at = "staging" /\ k # i /\ copy[j][k] = "permit"
        BY <1>1, <1>4, <1>6, <1>8, <2>5
      <3>2. store' = Append(store, <<j, i>>) /\ <<j, i>> \notin ToSet(store) /\ <<j, k>> \in ToSet(store)
        BY <2>2, <2>3, <3>1 DEF StoreFollows
      <3> QED
        BY <2>1, <2>5, <3>2, AppendOrder
    <2>6. CASE k = i
      <3>1. next = "permit" /\ at = "staging" /\ m # i /\ copy[j][m] = "permit"
        BY <1>1, <1>4, <1>6, <1>8, <2>6
      <3>2. Place("staging") >= Place("permit")
        BY <1>1, <1>5, <1>8, <2>6, <3>1
      <3> QED
        BY <3>2 DEF Place
    <2> QED
      BY <2>4, <2>5, <2>6
  <1>9. ASSUME NEW k \in CheckpointNumber, copy'[j][k] \in {"peer_dram", "peer_ssd"}
        PROVE  cpu'[j] # <<>> /\ Head(cpu'[j]) = k
    <2>1. setting[j].tiered
      BY <1>1, <1>4, <1>9 DEF Paths
    <2>2. CASE k = i
      <3>1. at \in {"local", "peer_dram"}
        BY <1>1, <1>4, <1>9, <2>2
      <3> QED
        BY <1>2, <2>2, <3>1 DEF OnCpu
    <2>3. CASE k # i
      <3>1. cpu[j] # <<>> /\ Head(cpu[j]) = k
        BY <1>1, <1>3, <1>9, <2>3 DEF Lined
      <3>2. at \in OnCpu
        BY <1>4, <2>1 DEF OnCpu, Follows
      <3> QED
        BY <1>2, <2>3, <3>1, <3>2
    <2> QED
      BY <2>2, <2>3
  <1> QED
    BY <1>7, <1>8, <1>9 DEF Lined

\* Every conjunct of the invariant is kept by a step of a checkpoint.
LEMMA AdvanceKept ==
  ASSUME LargeInductive, NEW j \in Jobs, NEW i \in CheckpointNumber, NEW at, NEW next,
         Advances(j, i, at, next), Follows(j, at, next), StoreFollows(j, i, at, next)
  PROVE  LargeInductive'
  <1>1. /\ \A l \in Jobs, k \in CheckpointNumber :
              copy'[l][k] = IF l = j /\ k = i THEN next ELSE copy[l][k]
        /\ setting' = setting /\ stage' = stage /\ iteration' = iteration
        /\ \A l \in Jobs \ {j} : gpu'[l] = gpu[l] /\ cpu'[l] = cpu[l]
        /\ copy[j][i] = at /\ LargeTypes'
    BY AdvanceTypes
  <1>2. next # "staging" /\ i # Training
    <2>1. next # "staging"
      BY DEF Follows
    <2> QED
      BY <2>1, LargeBounds DEF Training
  <1>3. Started' /\ FartherAlong' /\ QueuesHold' /\ StoreHolds'
    BY AdvanceOrder, AdvanceHolds
  <1>4. ASSUME NEW l \in Jobs, ~setting[l].chunked, l # j PROVE Lined(l)'
    <2>1. Lined(l)
      BY <1>4 DEF LargeInductive, InLine
    <2>2. /\ cpu'[l] = cpu[l]
          /\ \A k \in CheckpointNumber : copy'[l][k] = copy[l][k]
      BY <1>1, <1>4
    <2>3. ASSUME NEW k \in CheckpointNumber, NEW m \in CheckpointNumber, Before(store, <<l, k>>, <<l, m>>)
          PROVE  Before(store', <<l, k>>, <<l, m>>)
      <3> DEFINE S == Jobs \X CheckpointNumber
      <3>1. /\ store \in Seq(S) /\ IsInjective(store) /\ <<j, i>> \in S
            /\ ToSet(store) = {x \in S : copy[x[1]][x[2]] \in {"permit", "uploading"}}
        BY DEF LargeInductive, StoreHolds, LargeTypes
      <3>2. <<j, i>> \in ToSet(store) => at \in {"permit", "uploading"}
        BY <1>1, <3>1
      <3> HIDE DEF S
      <3>3. <<l, k>> # <<j, i>> /\ <<l, m>> # <<j, i>>
        BY <1>4
      <3>4. next = "permit" => at = "staging"
        BY DEF Follows
      <3>5. next = "permit" => Before(Append(store, <<j, i>>), <<l, k>>, <<l, m>>)
        BY <2>3, <3>1, <3>2, <3>3, <3>4, AppendOrder
      <3>6. Before(RemoveFirst(store, <<j, i>>), <<l, k>>, <<l, m>>)
        BY <2>3, <3>1, <3>3, RemoveOrder
      <3> QED
        BY <2>3, <3>5, <3>6 DEF StoreFollows
    <2> QED
      BY <2>1, <2>2, <2>3 DEF Lined
  <1>5. InLine'
    BY <1>1, <1>4, AdvanceLined DEF InLine
  <1>6. ASSUME NEW l \in Jobs, NEW k \in CheckpointNumber, ~setting[l].chunked,
               copy'[l][k] = "staging", stage[l] = "backward"
        PROVE  Before(gpu'[l], k, Training)
    <2>1. copy[l][k] = "staging" /\ (l = j => k # i)
      BY <1>1, <1>2, <1>6
    <2>2. Before(gpu[l], k, Training)
      BY <1>6, <2>1 DEF LargeInductive, Behind
    <2>3. CASE l = j
      BY <1>2, <1>6, <2>1, <2>2, <2>3, AdvanceQueues
    <2>4. CASE l # j
      BY <1>1, <2>2, <2>4
    <2> QED
      BY <2>3, <2>4
  <1>7. Behind'
    BY <1>1, <1>6 DEF Behind
  <1>8. CapturesItsIteration'
    BY <1>1, <1>2 DEF LargeInductive, CapturesItsIteration
  <1> QED
    BY <1>1, <1>3, <1>5, <1>7, <1>8 DEF LargeInductive

\* What a step of the training process of an aggregate job does to the queue of its GPU.
LEMMA TrainingQueues ==
  ASSUME LargeInductive, NEW j \in Jobs, ~setting[j].chunked, Works(j, Training, stage[j]),
         NEW next \in OnGpu \cup IterationOver
  PROVE  LET g == Queued(gpu[j], Training, "gpu" \in Needs(j, stage[j]), "gpu" \in Needs(j, next))
             c == Queued(cpu[j], Training, "cpu" \in Needs(j, stage[j]), "cpu" \in Needs(j, next))
         IN  /\ g \in Seq(0 .. JobIterations) /\ IsInjective(g)
             /\ ToSet(g) = (ToSet(gpu[j]) \ {Training}) \cup (IF next \in OnGpu THEN {Training} ELSE {})
             /\ \A x, y : x # Training /\ y # Training => (Before(g, x, y) <=> Before(gpu[j], x, y))
             /\ next \in OnGpu => \A x \in ToSet(gpu[j]) \ {Training} : Before(g, x, Training)
             /\ stage[j] \in OnGpu => gpu[j] # <<>> /\ Head(gpu[j]) = Training
             /\ c = cpu[j]
  <1> DEFINE g == Queued(gpu[j], Training, "gpu" \in Needs(j, stage[j]), "gpu" \in Needs(j, next))
             c == Queued(cpu[j], Training, "cpu" \in Needs(j, stage[j]), "cpu" \in Needs(j, next))
             T == 0 .. JobIterations
  <1>1. /\ stage[j] \in OnGpu \cup IterationOver /\ Training \in T /\ \A k \in CheckpointNumber : k # Training
        /\ cpu[j] \in Seq(T) /\ gpu[j] \in Seq(T)
    BY LargeBounds DEF LargeInductive, LargeTypes, Training
  <1>2. /\ \A x \in OnGpu \cup IterationOver : x \notin OnCpu /\ x # "staging"
    BY DEF OnGpu, IterationOver, OnCpu
  <1>3. /\ "cpu" \notin Needs(j, stage[j]) /\ "cpu" \notin Needs(j, next)
        /\ "gpu" \in Needs(j, stage[j]) <=> stage[j] \in OnGpu
        /\ "gpu" \in Needs(j, next) <=> next \in OnGpu
    BY <1>1, <1>2, NeedsOf
  <1>4. IsInjective(gpu[j]) /\ (Training \in ToSet(gpu[j]) <=> stage[j] \in OnGpu)
    BY <1>1 DEF LargeInductive, QueuesHold, JobQueued
  <1>5. \A x \in ToSet(gpu[j]) : gpu[j] # <<>>
    BY <1>1 DEF ToSet
  <1>6. stage[j] \in OnGpu => gpu[j] # <<>> /\ Head(gpu[j]) = Training
    BY <1>3, <1>4, <1>5 DEF Works
  <1>7. IF "gpu" \in Needs(j, stage[j]) THEN gpu[j] # <<>> /\ Head(gpu[j]) = Training
                                        ELSE Training \notin ToSet(gpu[j])
    BY <1>3, <1>4, <1>6
  <1>8. c = cpu[j]
    BY <1>1, <1>3 DEF Queued
  <1> HIDE DEF T
  <1>9. /\ g \in Seq(T) /\ IsInjective(g)
        /\ ToSet(g) = (ToSet(gpu[j]) \ {Training}) \cup (IF "gpu" \in Needs(j, next) THEN {Training} ELSE {})
        /\ \A x, y : x # Training /\ y # Training => (Before(g, x, y) <=> Before(gpu[j], x, y))
        /\ "gpu" \in Needs(j, next) => \A x \in ToSet(gpu[j]) \ {Training} : Before(g, x, Training)
    BY <1>1, <1>4, <1>7, QueuedOrder
  <1> HIDE DEF g, c
  <1> QED
    BY <1>3, <1>6, <1>8, <1>9 DEF g, c, T

\* A step of training that starts no checkpoint.
LEMMA MovesKept ==
  ASSUME LargeInductive, NEW j \in Jobs, NEW next \in OnGpu \cup IterationOver,
         Works(j, Training, stage[j]), Passes(j, Training, stage[j], next),
         stage' = [stage EXCEPT ![j] = next],
         iteration' \in [Jobs -> CheckpointNumber], \A l \in Jobs \ {j} : iteration'[l] = iteration[l],
         UNCHANGED <<setting, copy, store>>,
         \A k \in CheckpointNumber :
            (k < iteration'[j] \/ (k = iteration'[j] /\ next \in IterationOver))
              <=> (k < iteration[j] \/ (k = iteration[j] /\ stage[j] \in IterationOver)),
         \A k \in CheckpointNumber :
            ~setting[j].chunked /\ copy[j][k] = "staging" =>
               iteration'[j] = k \/ (iteration'[j] = k + 1 /\ next \in {"forward", "backward"})
  PROVE  LargeInductive'
  <1>1. /\ LargeTypes /\ Started /\ QueuesHold /\ StoreHolds /\ FartherAlong /\ InLine /\ Behind
        /\ CapturesItsIteration
    BY DEF LargeInductive
  <1>2. \A l : DueOf(l)' = DueOf(l) /\ Paths(l)' = Paths(l)
    BY DEF DueOf, Paths
  <1>3. /\ \A l \in Jobs : stage'[l] = IF l = j THEN next ELSE stage[l]
        /\ stage' \in [Jobs -> OnGpu \cup IterationOver]
    BY <1>1 DEF LargeTypes
  <1>4. stage[j] \notin {"local", "peer_dram"} /\ stage[j] \in OnGpu \cup IterationOver
    BY <1>1 DEF LargeTypes, OnGpu, IterationOver
  <1>5. /\ gpu' \in [Jobs -> Seq(0 .. JobIterations)] /\ cpu' = cpu
        /\ \A l \in Jobs \ {j} : gpu'[l] = gpu[l]
        /\ ~setting[j].chunked =>
             /\ IsInjective(gpu'[j])
             /\ ToSet(gpu'[j]) = (ToSet(gpu[j]) \ {Training}) \cup (IF next \in OnGpu THEN {Training} ELSE {})
             /\ \A x, y : x # Training /\ y # Training => (Before(gpu'[j], x, y) <=> Before(gpu[j], x, y))
             /\ next \in OnGpu => \A x \in ToSet(gpu[j]) \ {Training} : Before(gpu'[j], x, Training)
    <2>1. CASE setting[j].chunked
      <3>1. gpu' = gpu /\ cpu' = cpu
        BY <1>1, <2>1, ChunkedQueues DEF LargeTypes
      <3> QED
        BY <1>1, <2>1, <3>1 DEF LargeTypes
    <2>2. CASE ~setting[j].chunked
      <3> DEFINE g == Queued(gpu[j], Training, "gpu" \in Needs(j, stage[j]), "gpu" \in Needs(j, next))
                 c == Queued(cpu[j], Training, "cpu" \in Needs(j, stage[j]), "cpu" \in Needs(j, next))
      <3>1. gpu' = [gpu EXCEPT ![j] = g] /\ cpu' = [cpu EXCEPT ![j] = c]
        BY <1>4 DEF Passes
      <3>2. /\ g \in Seq(0 .. JobIterations) /\ IsInjective(g)
            /\ ToSet(g) = (ToSet(gpu[j]) \ {Training}) \cup (IF next \in OnGpu THEN {Training} ELSE {})
            /\ \A x, y : x # Training /\ y # Training => (Before(g, x, y) <=> Before(gpu[j], x, y))
            /\ next \in OnGpu => \A x \in ToSet(gpu[j]) \ {Training} : Before(g, x, Training)
            /\ c = cpu[j]
        BY <2>2, TrainingQueues
      <3> HIDE DEF g, c
      <3>3. gpu \in [Jobs -> Seq(0 .. JobIterations)] /\ cpu \in [Jobs -> Seq(0 .. JobIterations)]
        BY <1>1 DEF LargeTypes
      <3>4. cpu' = cpu /\ gpu'[j] = g /\ \A l \in Jobs \ {j} : gpu'[l] = gpu[l]
        BY <3>1, <3>2, <3>3
      <3>5. gpu' \in [Jobs -> Seq(0 .. JobIterations)]
        BY <3>1, <3>2, <3>3
      <3> QED
        BY <3>2, <3>4, <3>5
    <2> QED
      BY <2>1, <2>2
  <1>6. LargeTypes'
    BY <1>1, <1>2, <1>3, <1>5 DEF LargeTypes
  <1>7. Started'
    BY <1>1, <1>2, <1>3 DEF Started
  <1>8. \A k \in CheckpointNumber : k # Training
    BY LargeBounds DEF Training
  <1>9. QueuesHold'
    <2>1. ASSUME NEW l \in Jobs, ~setting[l].chunked PROVE JobQueued(l)'
      <3>1. JobQueued(l)
        BY <1>1, <2>1 DEF QueuesHold
      <3>2. CASE l # j
        BY <1>3, <1>5, <3>1, <3>2 DEF JobQueued
      <3>3. CASE l = j
        <4>1. ToSet(gpu'[j]) = {k \in CheckpointNumber : copy[j][k] = "staging"}
                                 \cup (IF next \in OnGpu THEN {Training} ELSE {})
          BY <1>5, <1>8, <2>1, <3>1, <3>3 DEF JobQueued
        <4> QED
          BY <1>3, <1>5, <2>1, <3>1, <3>3, <4>1 DEF JobQueued
      <3> QED
        BY <3>2, <3>3
    <2> QED
      BY <2>1 DEF QueuesHold
  <1>10. StoreHolds' /\ FartherAlong' /\ InLine'
    BY <1>1, <1>2, <1>5 DEF StoreHolds, FartherAlong, InLine, Lined
  <1>11. Behind'
    <2>1. ASSUME NEW l \in Jobs, NEW k \in CheckpointNumber, ~setting[l].chunked,
                 copy[l][k] = "staging", stage'[l] = "backward"
          PROVE  Before(gpu'[l], k, Training)
      <3>1. CASE l # j
        BY <1>1, <1>3, <1>5, <2>1, <3>1 DEF Behind
      <3>2. CASE l = j
        <4>1. next \in OnGpu
          BY <1>3, <2>1, <3>2 DEF OnGpu
        <4>2. k \in ToSet(gpu[j]) \ {Training}
          BY <1>1, <1>8, <2>1, <3>2 DEF QueuesHold, JobQueued
        <4> QED
          BY <1>5, <2>1, <3>2, <4>1, <4>2
      <3> QED
        BY <3>1, <3>2
    <2> QED
      BY <2>1 DEF Behind
  <1>12. CapturesItsIteration'
    BY <1>1, <1>3 DEF CapturesItsIteration
  <1> QED
    BY <1>6, <1>7, <1>9, <1>10, <1>11, <1>12 DEF LargeInductive

\* Training goes on with the next step of the iteration.
LEMMA GoesOnKept ==
  ASSUME LargeInductive, NEW j \in Jobs, stage[j] \in {"forward", "backward", "allreduce"},
         GoesOn(j), setting[j].chunked \/ Works(j, Training, stage[j])
  PROVE  LargeInductive'
  <1> DEFINE next == Following[stage[j]]
  <1>1. /\ next \in OnGpu /\ next \notin IterationOver /\ stage[j] \notin IterationOver
        /\ stage[j] = "forward" => next = "backward"
    BY DEF Following, OnGpu, IterationOver
  <1>2. /\ stage' = [stage EXCEPT ![j] = next] /\ Passes(j, Training, stage[j], next)
        /\ iteration' = iteration /\ UNCHANGED <<setting, copy, store>>
    BY DEF GoesOn
  <1> HIDE DEF next
  <1>3. Works(j, Training, stage[j])
    <2>1. setting[j].chunked => Needs(j, stage[j]) = {}
      BY DEF Needs
    <2> QED
      BY <2>1 DEF Works
  <1>4. iteration \in [Jobs -> CheckpointNumber]
    BY DEF LargeInductive, LargeTypes
  <1>5. ASSUME NEW k \in CheckpointNumber, ~setting[j].chunked, copy[j][k] = "staging"
        PROVE  iteration[j] = k \/ (iteration[j] = k + 1 /\ next \in {"forward", "backward"})
    <2>1. CASE stage[j] = "backward"
      <3>1. Before(gpu[j], k, Training)
        BY <1>5, <2>1 DEF LargeInductive, Behind
      <3>2. /\ gpu[j] \in Seq(0 .. JobIterations) /\ IsInjective(gpu[j])
            /\ gpu[j] # <<>> /\ Head(gpu[j]) = Training
        <4>1. stage[j] \in OnGpu
          BY <2>1 DEF OnGpu
        <4> QED
          BY <1>1, <1>3, <1>5, <4>1, TrainingQueues DEF LargeInductive, LargeTypes, QueuesHold, JobQueued
      <3> QED
        BY <3>1, <3>2, HeadFirst
    <2>2. CASE stage[j] # "backward"
      BY <1>1, <1>5, <2>2 DEF LargeInductive, CapturesItsIteration
    <2> QED
      BY <2>1, <2>2
  <1> QED
    BY <1>1, <1>2, <1>3, <1>4, <1>5, MovesKept

\* Training goes on after a synchronous checkpoint.
LEMMA ResumeKept ==
  ASSUME LargeInductive, NEW j \in Jobs, Resume(j)
  PROVE  LargeInductive'
  <1>1. /\ stage[j] = "waiting" /\ stage' = [stage EXCEPT ![j] = Onward(j)]
        /\ Passes(j, Training, stage[j], Onward(j)) /\ UNCHANGED <<setting, copy, store>>
        /\ iteration' = [iteration EXCEPT ![j] = IF @ < JobIterations THEN @ + 1 ELSE @]
        /\ copy[j][iteration[j]] = "done"
    BY DEF Resume
  <1>2. /\ iteration \in [Jobs -> CheckpointNumber] /\ iteration[j] \in 1 .. JobIterations
        /\ stage[j] \in IterationOver /\ CheckpointNumber = 1 .. JobIterations /\ JobIterations \in Nat
    BY <1>1, LargeBounds DEF LargeInductive, LargeTypes, IterationOver
  <1>3. \/ /\ iteration[j] < JobIterations /\ Onward(j) = "forward" /\ iteration'[j] = iteration[j] + 1
           /\ Onward(j) \in OnGpu /\ Onward(j) \notin IterationOver
        \/ /\ iteration[j] = JobIterations /\ Onward(j) = "finishing" /\ iteration'[j] = iteration[j]
           /\ Onward(j) \in IterationOver
    BY <1>1, <1>2 DEF Onward, OnGpu, IterationOver
  <1>4. iteration' \in [Jobs -> CheckpointNumber] /\ \A l \in Jobs \ {j} : iteration'[l] = iteration[l]
    BY <1>1, <1>2, <1>3
  <1>5. Works(j, Training, stage[j])
    <2>1. "gpu" \notin Needs(j, "waiting") /\ "cpu" \notin Needs(j, "waiting")
      BY DEF Needs
    <2> QED
      BY <1>1, <2>1 DEF Works
  <1>6. \A k \in CheckpointNumber :
          (k < iteration'[j] \/ (k = iteration'[j] /\ Onward(j) \in IterationOver))
            <=> (k < iteration[j] \/ (k = iteration[j] /\ stage[j] \in IterationOver))
    BY <1>2, <1>3
  <1>7. \A k \in CheckpointNumber : ~(~setting[j].chunked /\ copy[j][k] = "staging")
    BY <1>1 DEF LargeInductive, CapturesItsIteration
  <1> QED
    BY <1>1, <1>3, <1>4, <1>5, <1>6, <1>7, MovesKept

\* The end of an iteration, which may start a checkpoint.
LEMMA EndIterationKept ==
  ASSUME LargeInductive, NEW j \in Jobs, EndIteration(j)
  PROVE  LargeInductive'
  <1> DEFINE i == iteration[j]
             starts == i \in DueOf(j)
             next == IF starts /\ setting[j].synchronous THEN "waiting" ELSE Onward(j)
             T == 0 .. JobIterations
             g == Queued(gpu[j], Training, "gpu" \in Needs(j, stage[j]), "gpu" \in Needs(j, next))
             c == Queued(cpu[j], Training, "cpu" \in Needs(j, stage[j]), "cpu" \in Needs(j, next))
             g2 == Queued(g, i, FALSE, starts /\ "gpu" \in Needs(j, "staging"))
             c2 == Queued(c, i, FALSE, starts /\ "cpu" \in Needs(j, "staging"))
  <1>1. /\ stage[j] = "optimizer" /\ Works(j, Training, stage[j])
        /\ stage' = [stage EXCEPT ![j] = next]
        /\ iteration' = [iteration EXCEPT ![j] = IF next = "forward" THEN i + 1 ELSE i]
        /\ copy' = IF starts THEN [copy EXCEPT ![j][i] = "staging"] ELSE copy
        /\ gpu' = [gpu EXCEPT ![j] = g2] /\ cpu' = [cpu EXCEPT ![j] = c2]
        /\ UNCHANGED <<setting, store>>
    BY DEF EndIteration
  <1>2. /\ LargeTypes /\ Started /\ QueuesHold /\ StoreHolds /\ FartherAlong /\ InLine /\ Behind
        /\ CapturesItsIteration
    BY DEF LargeInductive
  <1>3. /\ i \in CheckpointNumber /\ i \in Nat /\ i >= 1 /\ i <= JobIterations /\ i \in T /\ i # Training
        /\ \A k \in CheckpointNumber : k # Training /\ k \in Nat
        /\ CheckpointNumber = 1 .. JobIterations /\ JobIterations \in Nat
    BY <1>2, LargeBounds DEF LargeTypes, Training
  <1>4. \/ next = "forward" /\ next \in OnGpu /\ next \notin IterationOver /\ i < JobIterations
        \/ next \in {"waiting", "finishing"} /\ next \notin OnGpu /\ next \in IterationOver
    BY <1>3 DEF Onward, OnGpu, IterationOver
  <1>5. /\ copy[j][i] = "none" /\ \A k \in CheckpointNumber : k > i => copy[j][k] = "none"
        /\ \A k \in DueOf(j) : k \in CheckpointNumber /\ (k < i => copy[j][k] # "none")
        /\ starts => i \in DueOf(j)
    <2>1. stage[j] \notin IterationOver
      BY <1>1 DEF IterationOver
    <2>2. DueOf(j) \subseteq CheckpointNumber
      BY DEF DueOf
    <2> QED
      BY <1>2, <1>3, <2>1, <2>2 DEF Started
  <1>6. ~setting[j].chunked => \A k \in CheckpointNumber : copy[j][k] # "staging"
    <2>1. "optimizer" \notin {"forward", "backward"}
      OBVIOUS
    <2> QED
      BY <1>1, <1>2, <1>5, <2>1 DEF CapturesItsIteration
  <1> HIDE DEF next, i, starts
  <1>7. /\ \A l \in Jobs, k \in CheckpointNumber :
              copy'[l][k] = IF starts /\ l = j /\ k = i THEN "staging" ELSE copy[l][k]
        /\ \A l \in Jobs : stage'[l] = IF l = j THEN next ELSE stage[l]
        /\ \A l \in Jobs : iteration'[l] = IF l = j THEN (IF next = "forward" THEN i + 1 ELSE i)
                                           ELSE iteration[l]
    BY <1>1, <1>2 DEF LargeTypes
  <1>8. next \in OnGpu \cup IterationOver
    BY <1>4
  <1>9. /\ g \in Seq(T) /\ c \in Seq(T)
        /\ setting[j].chunked => g = gpu[j] /\ c = cpu[j]
    <2>1. gpu[j] \in Seq(T) /\ cpu[j] \in Seq(T)
      BY <1>2 DEF LargeTypes
    <2>2. CASE setting[j].chunked
      <3>1. Needs(j, stage[j]) = {} /\ Needs(j, next) = {}
        BY <2>2 DEF Needs
      <3> QED
        BY <2>1, <3>1 DEF Queued
    <2>3. CASE ~setting[j].chunked
      <3> HIDE DEF T
      <3>1. g \in Seq(0 .. JobIterations) /\ c = cpu[j]
        BY <1>1, <1>8, <2>3, TrainingQueues
      <3> QED
        BY <2>1, <2>3, <3>1 DEF T
    <2> QED
      BY <2>2, <2>3
  <1>10. ~setting[j].chunked =>
           /\ IsInjective(g) /\ c = cpu[j]
           /\ ToSet(g) = (ToSet(gpu[j]) \ {Training}) \cup (IF next \in OnGpu THEN {Training} ELSE {})
    BY <1>1, <1>8, TrainingQueues
  <1> HIDE DEF g, c
  <1>11. /\ g2 = IF starts /\ ~setting[j].chunked THEN Append(g, i) ELSE g
         /\ c2 = IF starts /\ ~setting[j].chunked THEN Append(c, i) ELSE c
    <2>1. CASE setting[j].chunked
      <3>1. Needs(j, "staging") = {}
        BY <2>1 DEF Needs
      <3> QED
        BY <1>9, <2>1, <3>1 DEF Queued
    <2>2. CASE ~setting[j].chunked
      <3>1. "gpu" \in Needs(j, "staging") /\ "cpu" \in Needs(j, "staging")
        BY <2>2 DEF Needs
      <3> QED
        BY <1>9, <2>2, <3>1 DEF Queued
    <2> QED
      BY <2>1, <2>2
  <1> HIDE DEF T, g2, c2
  <1>12. /\ g2 \in Seq(T) /\ c2 \in Seq(T)
         /\ setting[j].chunked => g2 = gpu[j] /\ c2 = cpu[j]
    <2>1. i \in T
      BY <1>3 DEF T
    <2>2. Append(g, i) \in Seq(T) /\ Append(c, i) \in Seq(T)
      BY <1>9, <2>1
    <2> QED
      BY <1>9, <1>11, <2>2
  <1>13. /\ gpu'[j] = g2 /\ cpu'[j] = c2
         /\ gpu' \in [Jobs -> Seq(T)] /\ cpu' \in [Jobs -> Seq(T)]
         /\ \A l \in Jobs \ {j} : gpu'[l] = gpu[l] /\ cpu'[l] = cpu[l]
    <2>1. gpu \in [Jobs -> Seq(T)] /\ cpu \in [Jobs -> Seq(T)]
      BY <1>2 DEF LargeTypes, T
    <2> QED
      BY <1>1, <1>12, <2>1
  <1>14. \A l : DueOf(l)' = DueOf(l) /\ Paths(l)' = Paths(l)
    BY <1>1 DEF DueOf, Paths
  <1>15. LargeTypes'
    <2>1. stage' \in [Jobs -> OnGpu \cup IterationOver]
      BY <1>1, <1>2, <1>8 DEF LargeTypes
    <2>2. iteration' \in [Jobs -> CheckpointNumber]
      <3>1. (IF next = "forward" THEN i + 1 ELSE i) \in CheckpointNumber
        <4>1. next = "forward" => i < JobIterations
          BY <1>4
        <4> QED
          BY <1>3, <4>1
      <3> QED
        BY <1>1, <1>2, <3>1 DEF LargeTypes
    <2>3. DOMAIN copy' = Jobs /\ \A l \in Jobs : copy'[l] \in [CheckpointNumber -> Paths(l)]
      <3>1. "staging" \in Paths(j)
        BY DEF Paths
      <3> QED
        BY <1>1, <1>2, <1>3, <3>1 DEF LargeTypes
    <2> QED
      BY <1>1, <1>2, <1>13, <1>14, <2>1, <2>2, <2>3 DEF LargeTypes, T
  <1>16. Started'
    <2>1. ASSUME NEW l \in Jobs, NEW k \in CheckpointNumber
          PROVE  (copy'[l][k] # "none") <=>
                   /\ k \in DueOf(l)
                   /\ k < iteration'[l] \/ (k = iteration'[l] /\ stage'[l] \in IterationOver)
      <3>1. CASE l # j
        <4>1. copy'[l][k] = copy[l][k] /\ iteration'[l] = iteration[l] /\ stage'[l] = stage[l]
          BY <1>7, <3>1
        <4> QED
          BY <1>2, <4>1 DEF Started
      <3>2. CASE l = j
        <4>1. (k < iteration'[j] \/ (k = iteration'[j] /\ stage'[j] \in IterationOver)) <=> k <= i
          BY <1>3, <1>4, <1>7
        <4>2. CASE k = i
          <5>1. (copy'[j][k] # "none") <=> starts
            BY <1>5, <1>7, <4>2
          <5>2. starts <=> k \in DueOf(j)
            BY <4>2 DEF starts
          <5> QED
            BY <1>3, <3>2, <4>1, <4>2, <5>1, <5>2
        <4>3. CASE k # i
          <5>1. copy'[j][k] = copy[j][k]
            BY <1>7, <4>3
          <5>2. (copy[j][k] # "none") <=> k \in DueOf(j) /\ k < i
            <6>1. stage[j] \notin IterationOver
              BY <1>1 DEF IterationOver
            <6> QED
              BY <1>2, <4>3, <6>1 DEF Started, i
          <5> QED
            BY <1>3, <3>2, <4>1, <4>3, <5>1, <5>2
        <4> QED
          BY <4>2, <4>3
      <3> QED
        BY <3>1, <3>2
    <2> QED
      BY <1>14, <2>1 DEF Started
  <1>17. FartherAlong'
    <2>1. ASSUME NEW l \in Jobs, NEW k \in DueOf(l), NEW m \in DueOf(l), k < m
          PROVE  Place(copy'[l][k]) >= Place(copy'[l][m])
      <3>1. k \in CheckpointNumber /\ m \in CheckpointNumber /\ Place(copy[l][k]) >= Place(copy[l][m])
        BY <1>2, <2>1 DEF FartherAlong, DueOf
      <3>2. CASE starts /\ l = j /\ m = i
        <4>1. copy'[l][m] = "staging" /\ copy'[l][k] = copy[l][k] /\ copy[j][k] # "none"
          BY <1>3, <1>5, <1>7, <2>1, <3>1, <3>2
        <4>2. copy[l][k] \in {"staging", "permit", "local", "uploading", "peer_dram", "peer_ssd", "done"}
          BY <1>2, <3>1, <3>2, <4>1 DEF LargeTypes, Paths
        <4> QED
          BY <4>1, <4>2 DEF Place
      <3>3. CASE starts /\ l = j /\ k = i
        <4>1. copy'[l][k] = "staging" /\ copy'[l][m] = "none"
          BY <1>3, <1>5, <1>7, <2>1, <3>1, <3>3
        <4> QED
          BY <4>1 DEF Place
      <3>4. CASE ~(starts /\ l = j /\ (k = i \/ m = i))
        BY <1>7, <3>1, <3>4
      <3> QED
        BY <3>2, <3>3, <3>4
    <2> QED
      BY <1>14, <2>1 DEF FartherAlong
  <1>18. StoreHolds'
    <2>1. \A x \in Jobs \X CheckpointNumber :
            copy'[x[1]][x[2]] \in {"permit", "uploading"} <=> copy[x[1]][x[2]] \in {"permit", "uploading"}
      <3>1. ASSUME NEW l \in Jobs, NEW k \in CheckpointNumber
            PROVE  copy'[l][k] \in {"permit", "uploading"} <=> copy[l][k] \in {"permit", "uploading"}
        BY <1>5, <1>7
      <3> QED
        BY <3>1
    <2> QED
      BY <1>1, <1>2, <2>1 DEF StoreHolds
  <1>19. ~setting[j].chunked =>
           /\ cpu[j] \in Seq(T) /\ IsInjective(cpu[j]) /\ IsInjective(gpu[j])
           /\ i \notin ToSet(cpu[j]) /\ i \notin ToSet(g)
           /\ ToSet(cpu[j]) = {k \in CheckpointNumber : copy[j][k] \in OnCpu}
           /\ ToSet(gpu[j]) \subseteq {Training}
    <2>1. CASE ~setting[j].chunked
      <3>1. JobQueued(j) /\ cpu[j] \in Seq(T)
        BY <1>2, <2>1 DEF QueuesHold, LargeTypes, T
      <3>2. ToSet(gpu[j]) \subseteq {Training}
        BY <1>6, <2>1, <3>1 DEF JobQueued
      <3>3. i \notin ToSet(cpu[j])
        BY <1>5, <3>1 DEF JobQueued, OnCpu
      <3> QED
        BY <1>3, <1>10, <2>1, <3>1, <3>2, <3>3 DEF JobQueued
    <2> QED
      BY <2>1
  <1>20. ASSUME ~setting[j].chunked, starts
         PROVE  /\ IsInjective(g2) /\ ToSet(g2) = ToSet(g) \cup {i}
                /\ IsInjective(c2) /\ ToSet(c2) = ToSet(cpu[j]) \cup {i}
                /\ \A x, y : x # i /\ y # i => (Before(c2, x, y) <=> Before(cpu[j], x, y))
                /\ \A x \in ToSet(cpu[j]) : Before(c2, x, i)
                /\ cpu[j] # <<>> => c2 # <<>> /\ Head(c2) = Head(cpu[j])
    <2>1. g2 = Append(g, i) /\ c2 = Append(cpu[j], i)
      BY <1>10, <1>11, <1>20
    <2>2. i \in T
      BY <1>3 DEF T
    <2> QED
      BY <1>9, <1>10, <1>19, <1>20, <2>1, <2>2, AppendOrder
  <1>21. QueuesHold'
    <2>1. ASSUME NEW l \in Jobs, ~setting[l].chunked PROVE JobQueued(l)'
      <3>1. JobQueued(l)
        BY <1>2, <2>1 DEF QueuesHold
      <3>2. CASE l # j
        <4>1. /\ cpu'[l] = cpu[l] /\ gpu'[l] = gpu[l] /\ stage'[l] = stage[l]
              /\ \A k \in CheckpointNumber : copy'[l][k] = copy[l][k]
          BY <1>7, <1>13, <3>2
        <4> QED
          BY <3>1, <4>1 DEF JobQueued
      <3>3. CASE l = j /\ starts
        <4>1. /\ \A k \in CheckpointNumber : copy'[j][k] = IF k = i THEN "staging" ELSE copy[j][k]
              /\ stage'[j] = next
          BY <1>7, <3>3
        <4>2. ToSet(gpu'[j]) = (IF next \in OnGpu THEN {Training} ELSE {}) \cup {i}
          BY <1>10, <1>13, <1>19, <1>20, <2>1, <3>3
        <4>3. ToSet(gpu'[j]) = {k \in CheckpointNumber : copy'[j][k] = "staging"}
                                 \cup (IF stage'[j] \in OnGpu THEN {Training} ELSE {})
          BY <1>3, <1>6, <2>1, <3>3, <4>1, <4>2
        <4>4. ToSet(cpu'[j]) = {k \in CheckpointNumber : copy'[j][k] \in OnCpu}
          BY <1>3, <1>13, <1>19, <1>20, <2>1, <3>3, <4>1 DEF OnCpu
        <4> QED
          BY <1>13, <1>20, <2>1, <3>3, <4>3, <4>4 DEF JobQueued
      <3>4. CASE l = j /\ ~starts
        <4>1. g2 = g /\ c2 = cpu[j] /\ stage'[j] = next /\ \A k \in CheckpointNumber : copy'[j][k] = copy[j][k]
          BY <1>7, <1>10, <1>11, <2>1, <3>4
        <4>2. ToSet(gpu'[j]) = {k \in CheckpointNumber : copy'[j][k] = "staging"}
                                 \cup (IF stage'[j] \in OnGpu THEN {Training} ELSE {})
          BY <1>6, <1>10, <1>13, <1>19, <2>1, <3>4, <4>1
        <4> QED
          BY <1>10, <1>13, <2>1, <3>1, <3>4, <4>1, <4>2 DEF JobQueued
      <3> QED
        BY <3>2, <3>3, <3>4
    <2> QED
      BY <1>1, <2>1 DEF QueuesHold
  <1>22. InLine'
    <2>1. ASSUME NEW l \in Jobs, ~setting[l].chunked PROVE Lined(l)'
      <3>1. Lined(l) /\ store' = store
        BY <1>1, <1>2, <2>1 DEF InLine
      <3>2. CASE ~(l = j /\ starts)
        <4>1. cpu'[l] = cpu[l] /\ \A k \in CheckpointNumber : copy'[l][k] = copy[l][k]
          BY <1>7, <1>10, <1>11, <1>13, <2>1, <3>2
        <4> QED
          BY <3>1, <4>1 DEF Lined
      <3>3. CASE l = j /\ starts
        <4>1. /\ \A k \in CheckpointNumber : copy'[j][k] = IF k = i THEN "staging" ELSE copy[j][k]
              /\ cpu'[j] = c2
          BY <1>7, <1>13, <3>3
        <4>2. ASSUME NEW k \in CheckpointNumber, NEW m \in CheckpointNumber, k < m,
                     copy'[j][k] \in OnCpu, copy'[j][m] \in OnCpu,
                     copy'[j][k] = "staging" <=> copy'[j][m] = "staging"
              PROVE  Before(c2, k, m)
          <5>1. CASE k = i
            <6>1. copy'[j][m] = "none"
              BY <1>3, <1>5, <4>1, <4>2, <5>1
            <6> QED
              BY <4>2, <6>1 DEF OnCpu
          <5>2. CASE k # i /\ m = i
            <6>1. k \in ToSet(cpu[j])
              BY <1>19, <2>1, <3>3, <4>1, <4>2, <5>2
            <6> QED
              BY <1>20, <2>1, <3>3, <5>2, <6>1
          <5>3. CASE k # i /\ m # i
            <6>1. copy'[j][k] = copy[j][k] /\ copy'[j][m] = copy[j][m]
              BY <4>1, <5>3
            <6>2. Before(cpu[j], k, m)
              BY <3>1, <3>3, <4>2, <6>1 DEF Lined
            <6> QED
              BY <1>20, <2>1, <3>3, <5>3, <6>2
          <5> QED
            BY <5>1, <5>2, <5>3
        <4>3. ASSUME NEW k \in CheckpointNumber, NEW m \in CheckpointNumber, k < m,
                     copy'[j][k] = "permit", copy'[j][m] = "permit"
              PROVE  Before(store, <<j, k>>, <<j, m>>)
          <5>1. copy[j][k] = "permit" /\ copy[j][m] = "permit"
            BY <4>1, <4>3
          <5> QED
            BY <3>1, <3>3, <4>3, <5>1 DEF Lined
        <4>4. ASSUME NEW k \in CheckpointNumber, copy'[j][k] \in {"peer_dram", "peer_ssd"}
              PROVE  c2 # <<>> /\ Head(c2) = k
          <5>1. copy[j][k] \in {"peer_dram", "peer_ssd"}
            BY <4>1, <4>4
          <5>2. cpu[j] # <<>> /\ Head(cpu[j]) = k
            BY <3>1, <3>3, <5>1 DEF Lined
          <5> QED
            BY <1>20, <2>1, <3>3, <5>2
        <4> QED
          BY <3>1, <3>3, <4>1, <4>2, <4>3, <4>4 DEF Lined
      <3> QED
        BY <3>2, <3>3
    <2> QED
      BY <1>1, <2>1 DEF InLine
  <1>23. Behind'
    <2>1. stage'[j] # "backward"
      BY <1>4, <1>7
    <2>2. ASSUME NEW l \in Jobs, NEW k \in CheckpointNumber, ~setting[l].chunked,
                 copy'[l][k] = "staging", stage'[l] = "backward"
          PROVE  Before(gpu'[l], k, Training)
      <3>1. l # j
        BY <2>1, <2>2
      <3>2. copy[l][k] = "staging" /\ stage[l] = "backward" /\ gpu'[l] = gpu[l]
        BY <1>7, <1>13, <2>2, <3>1
      <3> QED
        BY <1>2, <2>2, <3>2 DEF Behind
    <2> QED
      BY <1>1, <2>2 DEF Behind
  <1>24. CapturesItsIteration'
    <2>1. ASSUME NEW l \in Jobs, NEW k \in CheckpointNumber, ~setting[l].chunked, copy'[l][k] = "staging"
          PROVE  \/ iteration'[l] = k
                 \/ iteration'[l] = k + 1 /\ stage'[l] \in {"forward", "backward"}
      <3>1. CASE l # j
        <4>1. copy[l][k] = "staging" /\ iteration'[l] = iteration[l] /\ stage'[l] = stage[l]
          BY <1>7, <2>1, <3>1
        <4> QED
          BY <1>2, <2>1, <4>1 DEF CapturesItsIteration
      <3>2. CASE l = j
        <4>1. k = i
          BY <1>6, <1>7, <2>1, <3>2
        <4> QED
          BY <1>7, <3>2, <4>1
      <3> QED
        BY <3>1, <3>2
    <2> QED
      BY <1>1, <2>1 DEF CapturesItsIteration
  <1> QED
    BY <1>15, <1>16, <1>17, <1>18, <1>21, <1>22, <1>23, <1>24 DEF LargeInductive

\* The end of training and the failures touch neither queues nor checkpoints.
LEMMA QuietKept ==
  ASSUME LargeInductive, UNCHANGED <<setting, iteration, copy, gpu, cpu, store>>,
         stage' \in [Jobs -> OnGpu \cup IterationOver],
         \A l \in Jobs : stage'[l] = stage[l] \/ (stage[l] \in IterationOver /\ stage'[l] \in IterationOver)
  PROVE  LargeInductive'
  <1>1. \A l : DueOf(l)' = DueOf(l) /\ Paths(l)' = Paths(l)
    BY DEF DueOf, Paths
  <1>2. \A x \in IterationOver : x \notin OnGpu /\ x # "backward" /\ x \notin {"forward", "backward"}
    BY DEF IterationOver, OnGpu
  <1>3. LargeTypes' /\ Started'
    BY <1>1 DEF LargeInductive, LargeTypes, Started
  <1>4. QueuesHold'
    BY <1>2 DEF LargeInductive, QueuesHold, JobQueued
  <1>5. StoreHolds' /\ FartherAlong' /\ InLine'
    BY <1>1 DEF LargeInductive, StoreHolds, FartherAlong, InLine, Lined
  <1>6. Behind' /\ CapturesItsIteration'
    BY <1>2 DEF LargeInductive, Behind, CapturesItsIteration
  <1> QED
    BY <1>3, <1>4, <1>5, <1>6 DEF LargeInductive

\* The initial states.
LEMMA LargeStarts == LargeInit => LargeInductive
  <1> SUFFICES ASSUME LargeInit PROVE LargeInductive
    OBVIOUS
  <1>1. /\ setting \in Settings /\ stage = [j \in Jobs |-> "forward"] /\ iteration = [j \in Jobs |-> 1]
        /\ copy = [j \in Jobs |-> [i \in CheckpointNumber |-> "none"]]
        /\ gpu = [j \in Jobs |-> IF setting[j].chunked THEN <<>> ELSE <<Training>>]
        /\ cpu = [j \in Jobs |-> <<>>] /\ store = <<>>
    BY DEF LargeInit
  <1>2. /\ Training \in 0 .. JobIterations /\ 1 \in CheckpointNumber
        /\ \A k \in CheckpointNumber : k # Training /\ k >= 1 /\ k \in Nat
    BY LargeBounds DEF Training
  <1>3. "forward" \in OnGpu /\ "forward" \notin IterationOver /\ "none" \notin OnCpu /\ "forward" # "backward"
    BY DEF OnGpu, IterationOver, OnCpu
  <1>4. LargeTypes
    <2>1. \A j : "none" \in Paths(j)
      BY DEF Paths
    <2>2. DOMAIN copy = Jobs /\ \A j \in Jobs : copy[j] \in [CheckpointNumber -> Paths(j)]
      BY <1>1, <2>1
    <2>3. <<>> \in Seq(0 .. JobIterations) /\ <<Training>> \in Seq(0 .. JobIterations)
          /\ <<>> \in Seq(Jobs \X CheckpointNumber)
      BY <1>2
    <2>4. gpu \in [Jobs -> Seq(0 .. JobIterations)] /\ cpu \in [Jobs -> Seq(0 .. JobIterations)]
      BY <1>1, <2>3
    <2>5. stage \in [Jobs -> OnGpu \cup IterationOver] /\ iteration \in [Jobs -> CheckpointNumber]
      BY <1>1, <1>2, <1>3
    <2> QED
      BY <1>1, <2>2, <2>3, <2>4, <2>5 DEF LargeTypes
  <1>5. Started
    BY <1>1, <1>2, <1>3 DEF Started
  <1>6. QueuesHold
    BY <1>1, <1>3 DEF QueuesHold, JobQueued, IsInjective, ToSet
  <1>7. StoreHolds
    BY <1>1 DEF StoreHolds, IsInjective, ToSet
  <1>8. FartherAlong
    <2>1. Place("none") >= Place("none") /\ \A j : DueOf(j) \subseteq CheckpointNumber
      BY DEF Place, DueOf
    <2> QED
      BY <1>1, <2>1 DEF FartherAlong
  <1>9. InLine /\ Behind /\ CapturesItsIteration
    BY <1>1, <1>3 DEF InLine, Lined, Behind, CapturesItsIteration
  <1> QED
    BY <1>4, <1>5, <1>6, <1>7, <1>8, <1>9 DEF LargeInductive

\* The invariant of the large jobs: everything a job starts is where its queues and that of
\* the store say, and no checkpoint is ahead of one of an earlier iteration.
THEOREM LargeInvariance == LargeSpec => []LargeInductive
  <1>1. ASSUME LargeInductive, [LargeNext]_largeVars PROVE LargeInductive'
    <2>1. /\ stage \in [Jobs -> OnGpu \cup IterationOver]
          /\ \A j \in Jobs : setting[j].tiered \in BOOLEAN
      BY <1>1, LargeBounds DEF LargeInductive, LargeTypes
    <2>2. CASE UNCHANGED largeVars
      BY <1>1, <2>1, <2>2, QuietKept DEF largeVars
    <2>3. ASSUME NEW j \in Jobs, JobStep(j) PROVE LargeInductive'
      <3>1. CASE Compute(j) \/ AllReduce(j)
        <4>1. stage[j] \in {"forward", "backward", "allreduce"} /\ GoesOn(j) /\ Works(j, Training, stage[j])
          BY <3>1 DEF Compute, AllReduce
        <4> QED
          BY <1>1, <4>1, GoesOnKept
      <3>2. CASE Phase(j)
        <4>1. stage[j] \in {"forward", "backward", "allreduce"} /\ GoesOn(j) /\ setting[j].chunked
          BY <3>2 DEF Phase, Following
        <4> QED
          BY <1>1, <4>1, GoesOnKept
      <3>3. CASE EndIteration(j)
        BY <1>1, <3>3, EndIterationKept
      <3>4. CASE Resume(j)
        BY <1>1, <3>4, ResumeKept
      <3>5. CASE Finish(j) \/ End(j)
        <4>1. \E e \in {"inactive", "ended"} : stage' = [stage EXCEPT ![j] = e]
          BY <3>5 DEF Finish, End
        <4>2. stage[j] \in {"finishing", "inactive"} /\ UNCHANGED <<setting, iteration, copy, gpu, cpu, store>>
          BY <3>5 DEF Finish, End
        <4>3. /\ stage' \in [Jobs -> OnGpu \cup IterationOver]
              /\ \A l \in Jobs : stage'[l] = stage[l] \/ (stage[l] \in IterationOver /\ stage'[l] \in IterationOver)
          BY <2>1, <4>1, <4>2 DEF IterationOver
        <4> QED
          BY <1>1, <4>2, <4>3, QuietKept
      <3>6. CASE StopMonitor(j)
        BY <1>1, <2>1, <3>6, QuietKept DEF StopMonitor
      <3>7. ASSUME NEW i \in CheckpointNumber,
                   \/ StageToStore(j, i) \/ AcquirePermit(j, i) \/ Upload(j, i)
                   \/ StageToTiers(j, i) \/ CopyToTiers(j, i)
                   \/ ChunkedStore(j, i) \/ ChunkedTiers(j, i)
            PROVE  LargeInductive'
        <4>1. PICK at, next : /\ Advances(j, i, at, next) /\ Follows(j, at, next)
                              /\ StoreFollows(j, i, at, next)
          <5>1. CASE StageToStore(j, i)
            BY <2>1, <5>1 DEF StageToStore, Aggregate, Follows, StoreFollows
          <5>2. CASE AcquirePermit(j, i)
            BY <2>1, <5>2 DEF AcquirePermit, Aggregate, Follows, StoreFollows
          <5>3. CASE Upload(j, i)
            BY <2>1, <5>3 DEF Upload, Aggregate, Follows, StoreFollows
          <5>4. CASE StageToTiers(j, i)
            BY <2>1, <5>4 DEF StageToTiers, Aggregate, Follows, StoreFollows
          <5>5. CASE CopyToTiers(j, i)
            BY <2>1, <5>5 DEF CopyToTiers, Aggregate, Follows, StoreFollows
          <5>6. CASE ChunkedStore(j, i)
            BY <2>1, <5>6 DEF ChunkedStore, Follows, StoreFollows
          <5>7. CASE ChunkedTiers(j, i)
            BY <2>1, <5>7 DEF ChunkedTiers, Follows, StoreFollows
          <5> QED
            BY <3>7, <5>1, <5>2, <5>3, <5>4, <5>5, <5>6, <5>7
        <4> QED
          BY <1>1, <4>1, AdvanceKept
      <3> QED
        BY <2>3, <3>1, <3>2, <3>3, <3>4, <3>5, <3>6, <3>7 DEF JobStep
    <2>4. ASSUME NEW j \in Jobs, NEW r \in JobRanks, NEW failure \in {"process", "node", "spot"},
                 Fail(j, r, failure)
          PROVE  LargeInductive'
      BY <1>1, <2>1, <2>4, QuietKept DEF Fail
    <2> QED
      BY <1>1, <2>2, <2>3, <2>4 DEF LargeNext
  <1> QED
    BY <1>1, LargeStarts, PTL DEF LargeSpec

\* The checkpoints of jobs of more than ten thousand ranks capture the state of their
\* iteration and are completed in order, for any number of jobs, iterations and permits
\* (chunked_runtime.py, aggregate_runtime.py).
THEOREM LargeCheckpointsInOrder == LargeSpec => []CheckpointsInOrder
  <1>1. LargeInductive => CheckpointsInOrder
    <2> SUFFICES ASSUME LargeInductive PROVE CheckpointsInOrder
      OBVIOUS
    <2>1. ASSUME NEW j \in Jobs, NEW k \in DueOf(j), NEW i \in DueOf(j), k < i, copy[j][i] = "done"
          PROVE  copy[j][k] = "done"
      <3>1. Place(copy[j][k]) >= Place(copy[j][i])
        BY <2>1 DEF LargeInductive, FartherAlong
      <3>2. copy[j][k] \in Paths(j) /\ Place(copy[j][i]) = 5
        BY <2>1 DEF LargeInductive, LargeTypes, DueOf, Place
      <3>3. copy[j][k] \in {"none", "staging", "permit", "local", "uploading", "peer_dram", "peer_ssd", "done"}
        BY <3>2 DEF Paths
      <3>4. \A x \in {"none", "staging", "permit", "local", "uploading", "peer_dram", "peer_ssd"} :
              Place(x) \in 0 .. 4
        BY DEF Place
      <3> QED
        BY <3>1, <3>2, <3>3, <3>4
    <2> QED
      BY <2>1 DEF LargeInductive, CheckpointsInOrder, CompletedInOrder
  <1> QED
    BY <1>1, LargeInvariance, PTL

-----------------------------------------------------------------------------
(* LegacyTraining. *)

Slot == <<"slot", 0>>
Cpu == <<"cpu", 0>>

\* What a rank does before the all-reduce of its iteration, in it and after it, and what a
\* pipeline does: with the slot, and once its checkpoint is staged.
Early == {"forward", "backward", "arrived", "failing", "reading", "loading", "restoring"}
Exchanging == {"transfer", "sent"}
Late == {"optimizer", "captured", "done"}
RankSteps == Early \cup Exchanging \cup Late
Holding == {"staging", "uploading", "freeing"}
Copying == {"staging", "uploading"}
Staged == {"uploading", "freeing", "done"}
PipeSteps == {"none", "waiting", "staging", "uploading", "freeing", "done"}
OnCpuSteps == {"failing", "loading", "restoring"}
Reading == {"loading", "restoring"}

LegacyTypes ==
  /\ config \in LegacySettings
  /\ DOMAIN step = Process
  /\ \A n \in Rank : step[Main(n)] \in RankSteps
  /\ \A i \in 1 .. TotalIterations : step[Pipe(i)] \in PipeSteps
  /\ rankIteration \in [AllRanks -> 1 .. TotalIterations]
  /\ DOMAIN queue = Resource /\ queue[Slot] \in Seq(Process) /\ queue[Cpu] \in Seq(Process)
  /\ newest \in Nat

\* The ranks have gone into the same number of all-reduces, and are in one together.
Passed(n) == IF step[Main(n)] \in Early THEN rankIteration[n] - 1 ELSE rankIteration[n]
RanksInStep ==
  \A n, m \in Rank : /\ Passed(n) = Passed(m)
                     /\ step[Main(n)] \in Exchanging => step[Main(m)] \in Exchanging

\* A pipeline is as far as rank 0, which waits while its checkpoint is not staged.
Behind0(i) == i < rankIteration[0] \/ (i = rankIteration[0] /\ step[Main(0)] = "done")
PipesFollow ==
  \A i \in 1 .. TotalIterations :
    /\ step[Pipe(i)] \in {"waiting", "staging"} =>
         i \in Checkpoints /\ i = rankIteration[0] /\ step[Main(0)] = "captured"
    /\ step[Pipe(i)] \in Staged <=> i \in Checkpoints /\ Behind0(i)

\* The slot has one holder at a time, until its upload has ended, in the order of the
\* checkpoints.
SlotHeld ==
  /\ IsInjective(queue[Slot])
  /\ ToSet(queue[Slot]) =
       {Pipe(i) : i \in {k \in Checkpoints : step[Pipe(k)] \in Holding \cup {"waiting"}}}
  /\ \A i \in Checkpoints :
       step[Pipe(i)] \in Holding => queue[Slot] # <<>> /\ Head(queue[Slot]) = Pipe(i)
InTurns ==
  \A k, i \in Checkpoints :
    k < i /\ step[Pipe(i)] \in Holding \cup {"done"} => step[Pipe(k)] = "done"

\* An upload has asked for the CPU before a failure that finds it in progress.
CpuHeld ==
  /\ IsInjective(queue[Cpu])
  /\ ToSet(queue[Cpu]) =
       {Pipe(i) : i \in {k \in Checkpoints : step[Pipe(k)] \in Copying}}
         \cup (IF step[Main(0)] \in OnCpuSteps THEN {Main(0)} ELSE {})
  /\ \A i \in Checkpoints :
       step[Pipe(i)] = "uploading" /\ step[Main(0)] = "failing"
         => Before(queue[Cpu], Pipe(i), Main(0))

NewestIs ==
  /\ newest = 0 \/ (newest \in Checkpoints /\ step[Pipe(newest)] \in {"freeing", "done"})
  /\ \A i \in Checkpoints : step[Pipe(i)] \in {"freeing", "done"} => i <= newest

Pipelined == LegacyTypes /\ RanksInStep /\ PipesFollow /\ SlotHeld /\ InTurns /\ CpuHeld /\ NewestIs
Exact ==
  /\ level \in [AllRanks -> Int] /\ loads \in [AllRanks -> Nat]
  /\ MemoryExact /\ LoadsRecent
Scheduled == schedule \in Schedules(config.world)
LegacyInductive == Pipelined /\ Exact /\ Scheduled

\* The assumption on the constants, and the processes, in the form that the proofs use.
LEMMA LegacyBounds ==
  ASSUME config \in LegacySettings
  PROVE  /\ Dram \in Nat /\ Dram >= 1 /\ TotalIterations \in Nat /\ TotalIterations >= 1
         /\ config.world \in Nat /\ config.world >= 1 /\ config.every \in Nat \ {0}
         /\ config.every <= TotalIterations
         /\ Rank \subseteq AllRanks /\ 0 \in Rank /\ Rank \subseteq Nat
         /\ Checkpoints \subseteq 1 .. TotalIterations
         /\ \A i \in Checkpoints : i \in Nat /\ i >= 1 /\ (i % config.every) = 0
         /\ \A n \in Rank : Main(n) \in Process
         /\ \A i \in 1 .. TotalIterations : Pipe(i) \in Process
         /\ Slot \in Resource /\ Cpu \in Resource
  <1>1. /\ Dram \in Nat /\ Dram >= 1 /\ TotalIterations \in Nat
        /\ config.world \in Nat /\ config.world >= 1
        /\ config.every \in 1 .. TotalIterations
    BY LegacyAssumption DEF LegacyAssumption
  <1>2. Rank \subseteq AllRanks
    BY <1>1 DEF Rank, AllRanks, Worlds
  <1>3. 0 \in Rank /\ Rank \subseteq Nat
    BY <1>1 DEF Rank
  <1>4. Slot \in Resource /\ Cpu \in Resource
    BY <1>2, <1>3 DEF Slot, Cpu, Resource
  <1>5. /\ \A n \in Rank : Main(n) \in Process
        /\ \A i \in 1 .. TotalIterations : Pipe(i) \in Process
    BY <1>2 DEF Process
  <1>6. /\ Checkpoints \subseteq 1 .. TotalIterations
        /\ \A i \in Checkpoints : i \in Nat /\ i >= 1 /\ (i % config.every) = 0
    BY <1>1 DEF Checkpoints
  <1> QED
    BY <1>1, <1>2, <1>3, <1>4, <1>5, <1>6

\* No two processes are the same.
LEMMA ProcessesDiffer ==
  /\ \A n, m : Main(n) = Main(m) => n = m
  /\ \A i, k : Pipe(i) = Pipe(k) => i = k
  /\ \A n, i : Main(n) # Pipe(i)
  /\ \A n : Main(n).kind = "main" /\ Main(n).id = n
  /\ \A i : Pipe(i).kind = "pipe" /\ Pipe(i).id = i
  <1>1. /\ \A n : Main(n).kind = "main" /\ Main(n).id = n
        /\ \A i : Pipe(i).kind = "pipe" /\ Pipe(i).id = i
    BY DEF Main, Pipe
  <1>2. "main" # "pipe"
    OBVIOUS
  <1> QED
    BY <1>1, <1>2

\* Which steps take the slot, and which the CPU of machine 0.
LEMMA RankRequires ==
  ASSUME NEW n, NEW at \in RankSteps
  PROVE  /\ Slot \notin Requires(Main(n), at)
         /\ Cpu \in Requires(Main(n), at) <=> n = 0 /\ at \in OnCpuSteps
  <1>1. Main(n).kind = "main" /\ Main(n).id = n
    BY ProcessesDiffer
  <1> DEFINE of(kinds) == {<<kind, n>> : kind \in kinds}
  <1>2. /\ \A kinds : Slot \in of(kinds) => "slot" \in kinds
        /\ \A kinds : Cpu \in of(kinds) <=> "cpu" \in kinds /\ n = 0
    BY DEF Slot, Cpu
  <1>3. LinkOf(n) # Slot /\ LinkOf(n) # Cpu
    BY DEF LinkOf, Slot, Cpu
  <1>4. CASE at \in {"forward", "backward", "optimizer"}
    <2>1. Requires(Main(n), at) = of({"gpu"})
      BY <1>1, <1>4 DEF Requires
    <2> HIDE DEF of
    <2> QED
      BY <1>2, <1>4, <2>1 DEF OnCpuSteps
  <1>5. CASE at = "transfer"
    <2>1. Requires(Main(n), at) = of({"gpu"}) \cup (IF config.aggregate THEN {} ELSE {LinkOf(n)})
      BY <1>1, <1>5 DEF Requires
    <2> HIDE DEF of
    <2> QED
      BY <1>2, <1>3, <1>5, <2>1 DEF OnCpuSteps
  <1>6. CASE at \in {"failing", "restoring"}
    <2>1. Requires(Main(n), at) = of({"cpu", "gpu"})
      BY <1>1, <1>6 DEF Requires
    <2> HIDE DEF of
    <2> QED
      BY <1>2, <1>6, <2>1 DEF OnCpuSteps
  <1>7. CASE at = "loading"
    <2>1. Requires(Main(n), at) = of({"cpu"})
      BY <1>1, <1>7 DEF Requires
    <2> HIDE DEF of
    <2> QED
      BY <1>2, <1>7, <2>1 DEF OnCpuSteps
  <1>8. CASE at \in {"arrived", "reading", "sent", "captured", "done"}
    <2>1. Requires(Main(n), at) = {}
      BY <1>1, <1>8 DEF Requires
    <2> QED
      BY <1>8, <2>1 DEF OnCpuSteps
  <1> QED
    BY <1>4, <1>5, <1>6, <1>7, <1>8 DEF RankSteps, Early, Exchanging, Late

\* What a pipeline takes of the slot and of the CPU.
LEMMA PipeRequires ==
  ASSUME NEW i, NEW at \in PipeSteps
  PROVE  /\ Slot \in Requires(Pipe(i), at) <=> at \in Holding \cup {"waiting"}
         /\ Cpu \in Requires(Pipe(i), at) <=> at \in Copying
  <1>1. Pipe(i).kind # "main"
    BY ProcessesDiffer
  <1> DEFINE of(kinds) == {<<kind, 0>> : kind \in kinds}
  <1>2. /\ \A kinds : Slot \in of(kinds) <=> "slot" \in kinds
        /\ \A kinds : Cpu \in of(kinds) <=> "cpu" \in kinds
    BY DEF Slot, Cpu
  <1>3. CASE at \in {"waiting", "freeing"}
    <2>1. Requires(Pipe(i), at) = of({"slot"})
      BY <1>1, <1>3 DEF Requires
    <2> HIDE DEF of
    <2> QED
      BY <1>2, <1>3, <2>1 DEF Holding, Copying
  <1>4. CASE at = "staging"
    <2>1. Requires(Pipe(i), at) = of({"slot", "cpu", "gpu"})
      BY <1>1, <1>4 DEF Requires
    <2> HIDE DEF of
    <2> QED
      BY <1>2, <1>4, <2>1 DEF Holding, Copying
  <1>5. CASE at = "uploading"
    <2>1. Requires(Pipe(i), at) = of({"slot", "cpu"})
      BY <1>1, <1>5 DEF Requires
    <2> HIDE DEF of
    <2> QED
      BY <1>2, <1>5, <2>1 DEF Holding, Copying
  <1>6. CASE at \in {"none", "done"}
    <2>1. Requires(Pipe(i), at) = {}
      BY <1>1, <1>6 DEF Requires
    <2> QED
      BY <1>6, <2>1 DEF Holding, Copying
  <1> QED
    BY <1>3, <1>4, <1>5, <1>6 DEF PipeSteps

\* The queue of a resource after a process has released and requested it.
LEMMA RequeuedAt ==
  ASSUME NEW q, NEW r \in Resource, NEW p \in Process, NEW next, q[r] \in Seq(Process), IsInjective(q[r]),
         ~(r[1] = "slot" /\ r \in Requires(p, step[p]) /\ r \in Requires(p, next))
  PROVE  /\ Requeued(q, p, next)[r] \in Seq(Process) /\ IsInjective(Requeued(q, p, next)[r])
         /\ \A x : x \in ToSet(Requeued(q, p, next)[r]) <=>
                     (x \in ToSet(q[r]) /\ x # p) \/ (x = p /\ r \in Requires(p, next))
         /\ \A x, y : x # p /\ y # p => (Before(Requeued(q, p, next)[r], x, y) <=> Before(q[r], x, y))
         /\ (q[r] # <<>> /\ Head(q[r]) # p) =>
              (Requeued(q, p, next)[r] # <<>> /\ Head(Requeued(q, p, next)[r]) = Head(q[r]))
         /\ r \in Requires(p, next) =>
              \A x : x \in ToSet(q[r]) /\ x # p => Before(Requeued(q, p, next)[r], x, p)
         /\ (p \notin ToSet(q[r]) /\ r \notin Requires(p, next)) => Requeued(q, p, next)[r] = q[r]
  <1> DEFINE n == Requeued(q, p, next)[r]
             t == RemoveFirst(q[r], p)
  <1>2. n = t \o (IF r \in Requires(p, next) THEN <<p>> ELSE <<>>)
    BY DEF Requeued
  <1>3. /\ t \in Seq(Process) /\ IsInjective(t) /\ ToSet(t) = ToSet(q[r]) \ {p}
        /\ \A x, y : Before(t, x, y) <=> x # p /\ y # p /\ Before(q[r], x, y)
        /\ q[r] # <<>> /\ Head(q[r]) # p => t # <<>> /\ Head(t) = Head(q[r])
        /\ p \notin ToSet(q[r]) => t = q[r]
    BY RemoveOrder, NothingRemoved
  <1> HIDE DEF n, t
  <1>5. CASE r \notin Requires(p, next)
    <2>1. n = t
      BY <1>2, <1>3, <1>5
    <2> QED
      BY <1>3, <1>5, <2>1 DEF n
  <1>6. CASE r \in Requires(p, next)
    <2>1. n = Append(t, p) /\ p \notin ToSet(t)
      BY <1>2, <1>3, <1>6
    <2>2. /\ n \in Seq(Process) /\ IsInjective(n) /\ ToSet(n) = ToSet(t) \cup {p}
          /\ \A x, y : x # p /\ y # p => (Before(n, x, y) <=> Before(t, x, y))
          /\ \A x \in ToSet(t) : Before(n, x, p)
      BY <1>3, <2>1, AppendOrder
    <2>3. t # <<>> => n # <<>> /\ Head(n) = Head(t)
      BY <1>3, <2>1
    <2> QED
      BY <1>3, <1>6, <2>2, <2>3 DEF n
  <1> QED
    BY <1>5, <1>6

\* The slot is kept from one step to the next.
LEMMA RequeuedKept ==
  ASSUME NEW q, NEW p, NEW next
  PROVE  /\ DOMAIN Requeued(q, p, next) = Resource
         /\ \A r \in Resource :
              r[1] = "slot" /\ r \in Requires(p, step[p]) /\ r \in Requires(p, next)
                => Requeued(q, p, next)[r] = q[r]
  BY DEF Requeued

\* A rank takes neither the slot nor, but rank 0, the CPU of machine 0.
LEMMA RankQueues ==
  ASSUME NEW q, DOMAIN q = Resource, NEW n \in Rank, NEW next \in RankSteps, config \in LegacySettings,
         step[Main(n)] \in RankSteps,
         q[Slot] \in Seq(Process), IsInjective(q[Slot]), Main(n) \notin ToSet(q[Slot]),
         q[Cpu] \in Seq(Process), IsInjective(q[Cpu]),
         step[Main(n)] \notin OnCpuSteps => Main(n) \notin ToSet(q[Cpu]), n # 0 => Main(n) \notin ToSet(q[Cpu])
  PROVE  LET r == Requeued(q, Main(n), next)
         IN  /\ DOMAIN r = Resource /\ r[Slot] = q[Slot]
             /\ r[Cpu] \in Seq(Process) /\ IsInjective(r[Cpu])
             /\ (n # 0 \/ (step[Main(n)] \notin OnCpuSteps /\ next \notin OnCpuSteps)) => r[Cpu] = q[Cpu]
             /\ n = 0 => ToSet(r[Cpu]) =
                  (ToSet(q[Cpu]) \ {Main(0)}) \cup (IF next \in OnCpuSteps THEN {Main(0)} ELSE {})
             /\ n = 0 /\ next \in OnCpuSteps => \A x \in ToSet(q[Cpu]) \ {Main(0)} : Before(r[Cpu], x, Main(0))
  <1> DEFINE r == Requeued(q, Main(n), next)
  <1>1. Slot \in Resource /\ Cpu \in Resource /\ Main(n) \in Process
    BY LegacyBounds
  <1>2. /\ Slot \notin Requires(Main(n), next)
        /\ Cpu \in Requires(Main(n), next) <=> n = 0 /\ next \in OnCpuSteps
        /\ Slot \notin Requires(Main(n), step[Main(n)])
    BY RankRequires
  <1>3. Cpu[1] # "slot"
    BY DEF Cpu
  <1>4. DOMAIN r = Resource /\ r[Slot] = q[Slot]
    BY <1>1, <1>2, RequeuedAt, RequeuedKept
  <1>5. /\ r[Cpu] \in Seq(Process) /\ IsInjective(r[Cpu])
        /\ ToSet(r[Cpu]) = (ToSet(q[Cpu]) \ {Main(n)}) \cup (IF Cpu \in Requires(Main(n), next) THEN {Main(n)} ELSE {})
        /\ Cpu \in Requires(Main(n), next) => \A x \in ToSet(q[Cpu]) \ {Main(n)} : Before(r[Cpu], x, Main(n))
        /\ Main(n) \notin ToSet(q[Cpu]) /\ Cpu \notin Requires(Main(n), next) => r[Cpu] = q[Cpu]
    <2> DEFINE p == Main(n)
    <2>1. p \in Process /\ Cpu \in Resource /\ q[Cpu] \in Seq(Process) /\ IsInjective(q[Cpu])
          /\ ~(Cpu[1] = "slot" /\ Cpu \in Requires(p, step[p]) /\ Cpu \in Requires(p, next))
      BY <1>1, <1>3
    <2> HIDE DEF p
    <2>2. Requeued(q, p, next)[Cpu] \in Seq(Process) /\ IsInjective(Requeued(q, p, next)[Cpu])
      BY <2>1, RequeuedAt
    <2>3. \A x : x \in ToSet(Requeued(q, p, next)[Cpu]) <=>
                   (x \in ToSet(q[Cpu]) /\ x # p) \/ (x = p /\ Cpu \in Requires(p, next))
      BY <2>1, RequeuedAt
    <2>4. Cpu \in Requires(p, next) =>
            \A x : x \in ToSet(q[Cpu]) /\ x # p => Before(Requeued(q, p, next)[Cpu], x, p)
      BY <2>1, RequeuedAt
    <2>5. (p \notin ToSet(q[Cpu]) /\ Cpu \notin Requires(p, next)) => Requeued(q, p, next)[Cpu] = q[Cpu]
      BY <2>1, RequeuedAt
    <2> QED
      BY <2>2, <2>3, <2>4, <2>5 DEF p
  <1> HIDE DEF r
  <1> QED
    BY <1>2, <1>4, <1>5 DEF r

\* Who is in the two queues.
LEMMA QueuesOf ==
  ASSUME Pipelined
  PROVE  /\ config \in LegacySettings /\ DOMAIN queue = Resource
         /\ queue[Slot] \in Seq(Process) /\ IsInjective(queue[Slot])
         /\ queue[Cpu] \in Seq(Process) /\ IsInjective(queue[Cpu])
         /\ \A n : Main(n) \notin ToSet(queue[Slot])
         /\ \A n : Main(n) \in ToSet(queue[Cpu]) <=> n = 0 /\ step[Main(0)] \in OnCpuSteps
         /\ \A i \in Checkpoints : Pipe(i) \in ToSet(queue[Slot]) <=> step[Pipe(i)] \in Holding \cup {"waiting"}
         /\ \A i \in Checkpoints : Pipe(i) \in ToSet(queue[Cpu]) <=> step[Pipe(i)] \in Copying
  <1>1. LegacyTypes /\ SlotHeld /\ CpuHeld
    BY DEF Pipelined
  <1>2. /\ \A n, i : Main(n) # Pipe(i) /\ \A m : Main(n) = Main(m) => n = m
        /\ \A i, k : Pipe(i) = Pipe(k) => i = k
    BY ProcessesDiffer
  <1>3. ToSet(queue[Slot]) =
          {Pipe(i) : i \in {k \in Checkpoints : step[Pipe(k)] \in Holding \cup {"waiting"}}}
    BY <1>1 DEF SlotHeld
  <1>4. ToSet(queue[Cpu]) =
          {Pipe(i) : i \in {k \in Checkpoints : step[Pipe(k)] \in Copying}}
            \cup (IF step[Main(0)] \in OnCpuSteps THEN {Main(0)} ELSE {})
    BY <1>1 DEF CpuHeld
  <1>5. /\ \A n : Main(n) \notin ToSet(queue[Slot])
        /\ \A i \in Checkpoints : Pipe(i) \in ToSet(queue[Slot]) <=> step[Pipe(i)] \in Holding \cup {"waiting"}
    BY <1>2, <1>3
  <1>6. /\ \A n : Main(n) \in ToSet(queue[Cpu]) <=> n = 0 /\ step[Main(0)] \in OnCpuSteps
        /\ \A i \in Checkpoints : Pipe(i) \in ToSet(queue[Cpu]) <=> step[Pipe(i)] \in Copying
    BY <1>2, <1>4
  <1> QED
    BY <1>1, <1>5, <1>6 DEF LegacyTypes, SlotHeld, CpuHeld

\* A step of one rank that starts no pipeline and waits for none.
LEMMA RankKept ==
  ASSUME Pipelined, NEW n \in Rank, NEW next \in RankSteps,
         step[Main(n)] # "captured", next # "captured",
         Moves(Main(n), next), UNCHANGED <<config, newest>>,
         rankIteration' \in [AllRanks -> 1 .. TotalIterations],
         \A m \in Rank \ {n} : rankIteration'[m] = rankIteration[m],
         (IF next \in Early THEN rankIteration'[n] - 1 ELSE rankIteration'[n]) = Passed(n),
         next \in Exchanging <=> step[Main(n)] \in Exchanging,
         n = 0 => \A i \in Checkpoints :
                    (i < rankIteration'[0] \/ (i = rankIteration'[0] /\ next = "done")) <=> Behind0(i)
  PROVE  /\ Pipelined'
         /\ \A m \in Rank : step'[Main(m)] = IF m = n THEN next ELSE step[Main(m)]
         /\ \A i \in Checkpoints : step'[Pipe(i)] = step[Pipe(i)]
  <1>1. /\ LegacyTypes /\ RanksInStep /\ PipesFollow /\ SlotHeld /\ InTurns /\ CpuHeld /\ NewestIs
    BY DEF Pipelined
  <1>2. /\ config \in LegacySettings /\ 0 \in Rank /\ Checkpoints \subseteq 1 .. TotalIterations
        /\ \A m \in Rank : Main(m) \in Process
        /\ \A i \in 1 .. TotalIterations : Pipe(i) \in Process
    BY <1>1, LegacyBounds DEF LegacyTypes
  <1>3. Rank' = Rank /\ Checkpoints' = Checkpoints
    BY DEF Rank, Checkpoints
  <1>4. /\ DOMAIN step' = Process
        /\ \A m \in Rank : step'[Main(m)] = IF m = n THEN next ELSE step[Main(m)]
        /\ \A i \in 1 .. TotalIterations : step'[Pipe(i)] = step[Pipe(i)]
    BY <1>1, <1>2, ProcessesDiffer DEF Moves, LegacyTypes
  <1>5. step[Main(n)] \in RankSteps /\ queue' = Requeued(queue, Main(n), next)
    BY <1>1 DEF LegacyTypes, Moves
  <1>6. /\ DOMAIN queue' = Resource /\ queue'[Slot] = queue[Slot]
        /\ queue'[Cpu] \in Seq(Process) /\ IsInjective(queue'[Cpu])
        /\ n # 0 => queue'[Cpu] = queue[Cpu]
        /\ n = 0 => ToSet(queue'[Cpu]) =
             (ToSet(queue[Cpu]) \ {Main(0)}) \cup (IF next \in OnCpuSteps THEN {Main(0)} ELSE {})
        /\ n = 0 /\ next \in OnCpuSteps =>
             \A x \in ToSet(queue[Cpu]) \ {Main(0)} : Before(queue'[Cpu], x, Main(0))
    <2>1. /\ DOMAIN queue = Resource /\ Main(n) \notin ToSet(queue[Slot])
          /\ queue[Slot] \in Seq(Process) /\ IsInjective(queue[Slot])
          /\ queue[Cpu] \in Seq(Process) /\ IsInjective(queue[Cpu])
          /\ step[Main(n)] \notin OnCpuSteps => Main(n) \notin ToSet(queue[Cpu])
          /\ n # 0 => Main(n) \notin ToSet(queue[Cpu])
      BY QueuesOf
    <2> DEFINE r == Requeued(queue, Main(n), next)
    <2>2. /\ DOMAIN r = Resource /\ r[Slot] = queue[Slot]
          /\ r[Cpu] \in Seq(Process) /\ IsInjective(r[Cpu])
          /\ (n # 0 \/ (step[Main(n)] \notin OnCpuSteps /\ next \notin OnCpuSteps)) => r[Cpu] = queue[Cpu]
          /\ n = 0 => ToSet(r[Cpu]) =
               (ToSet(queue[Cpu]) \ {Main(0)}) \cup (IF next \in OnCpuSteps THEN {Main(0)} ELSE {})
          /\ n = 0 /\ next \in OnCpuSteps =>
               \A x \in ToSet(queue[Cpu]) \ {Main(0)} : Before(r[Cpu], x, Main(0))
      BY <1>2, <1>5, <2>1, RankQueues
    <2> HIDE DEF r
    <2>3. queue' = r
      BY <1>5 DEF r
    <2> QED
      BY <2>2, <2>3
  <1>7. LegacyTypes'
    BY <1>1, <1>2, <1>3, <1>4, <1>6 DEF LegacyTypes
  <1>8. RanksInStep'
    <2>1. \A m \in Rank : Passed(m)' = Passed(m)
      BY <1>4 DEF Passed
    <2> QED
      BY <1>1, <1>3, <1>4, <2>1 DEF RanksInStep
  <1>9. PipesFollow'
    <2>1. \A i \in Checkpoints : Behind0(i)' <=> Behind0(i)
      BY <1>2, <1>4 DEF Behind0
    <2>2. \A i \in 1 .. TotalIterations : step[Pipe(i)] \in {"waiting", "staging"} => n # 0
      BY <1>1 DEF PipesFollow
    <2> QED
      BY <1>1, <1>2, <1>3, <1>4, <2>1, <2>2 DEF PipesFollow
  <1>10. SlotHeld' /\ InTurns' /\ NewestIs'
    BY <1>1, <1>2, <1>3, <1>4, <1>6 DEF SlotHeld, InTurns, NewestIs
  <1>11. CpuHeld'
    <2>1. CASE n # 0
      BY <1>1, <1>2, <1>3, <1>4, <1>6, <2>1 DEF CpuHeld
    <2>2. CASE n = 0
      <3> DEFINE P == {Pipe(i) : i \in {k \in Checkpoints : step[Pipe(k)] \in Copying}}
      <3>1. ToSet(queue[Cpu]) \ {Main(0)} = P
        BY <1>1, ProcessesDiffer DEF CpuHeld
      <3>2. P' = P
        BY <1>2, <1>3, <1>4
      <3>3. ToSet(queue'[Cpu]) = P' \cup (IF step'[Main(0)] \in OnCpuSteps THEN {Main(0)} ELSE {})
        BY <1>2, <1>4, <1>6, <2>2, <3>1, <3>2
      <3>4. ASSUME NEW i \in Checkpoints, step'[Pipe(i)] = "uploading", step'[Main(0)] = "failing"
            PROVE  Before(queue'[Cpu], Pipe(i), Main(0))
        <4>1. step[Pipe(i)] = "uploading" /\ next = "failing"
          BY <1>2, <1>4, <2>2, <3>4
        <4>2. Pipe(i) \in P
          BY <4>1 DEF Copying
        <4> QED
          BY <1>6, <2>2, <3>1, <4>1, <4>2 DEF OnCpuSteps
      <3> QED
        BY <1>3, <1>6, <3>3, <3>4 DEF CpuHeld
    <2> QED
      BY <2>1, <2>2
  <1> QED
    BY <1>2, <1>4, <1>7, <1>8, <1>9, <1>10, <1>11 DEF Pipelined

\* A step of all the ranks, out of a barrier.
LEMMA TogetherKept ==
  ASSUME Pipelined, NEW next \in Exchanging \cup {"optimizer"}, Together(next),
         UNCHANGED <<config, newest, rankIteration>>,
         \/ \A m \in Rank : step[Main(m)] = "arrived"
         \/ \A m \in Rank : step[Main(m)] = "sent"
  PROVE  /\ Pipelined'
         /\ \A m \in Rank : step'[Main(m)] = next
         /\ \A i \in Checkpoints : step'[Pipe(i)] = step[Pipe(i)]
  <1>1. /\ LegacyTypes /\ RanksInStep /\ PipesFollow /\ SlotHeld /\ InTurns /\ CpuHeld /\ NewestIs
    BY DEF Pipelined
  <1>2. /\ config \in LegacySettings /\ 0 \in Rank /\ Checkpoints \subseteq 1 .. TotalIterations
        /\ \A m \in Rank : Main(m) \in Process
        /\ \A i \in 1 .. TotalIterations : Pipe(i) \in Process
        /\ Slot \in Resource /\ Cpu \in Resource
    BY <1>1, LegacyBounds DEF LegacyTypes
  <1>3. Rank' = Rank /\ Checkpoints' = Checkpoints
    BY DEF Rank, Checkpoints
  <1>4. /\ DOMAIN step' = Process
        /\ \A m \in Rank : step'[Main(m)] = next
        /\ \A i \in 1 .. TotalIterations : step'[Pipe(i)] = step[Pipe(i)]
    BY <1>1, <1>2, ProcessesDiffer DEF Together, Mains, LegacyTypes
  <1>5. DOMAIN queue' = Resource /\ queue'[Slot] = queue[Slot] /\ queue'[Cpu] = queue[Cpu]
    <2>1. Slot[1] \notin {"gpu", "link"} /\ Cpu[1] \notin {"gpu", "link"}
      BY DEF Slot, Cpu
    <2> QED
      BY <1>2, <2>1 DEF Together
  <1>6. /\ next \in RankSteps \ OnCpuSteps /\ next \notin {"captured", "done", "failing"} /\ next \notin Early
        /\ \A m \in Rank : step[Main(m)] \notin OnCpuSteps \cup {"captured", "done", "failing"}
    BY DEF RankSteps, Exchanging, Late, Early, OnCpuSteps
  <1>7. LegacyTypes'
    BY <1>1, <1>2, <1>3, <1>4, <1>5, <1>6 DEF LegacyTypes
  <1>8. RanksInStep'
    <2>1. \A m \in Rank : Passed(m)' = rankIteration[m]
      BY <1>4, <1>6 DEF Passed
    <2>2. \A m, l \in Rank : rankIteration[m] = rankIteration[l]
      <3>1. Rank \subseteq AllRanks
        BY <1>2, LegacyBounds
      <3>2. \A m \in Rank : rankIteration[m] \in Int
        BY <1>1, <3>1, LegacyBounds DEF LegacyTypes
      <3>3. CASE \A m \in Rank : step[Main(m)] = "arrived"
        <4>1. \A m \in Rank : Passed(m) = rankIteration[m] - 1
          BY <3>3 DEF Passed, Early
        <4> QED
          BY <1>1, <3>2, <4>1 DEF RanksInStep
      <3>4. CASE \A m \in Rank : step[Main(m)] = "sent"
        <4>1. \A m \in Rank : Passed(m) = rankIteration[m]
          BY <3>4 DEF Passed, Early
        <4> QED
          BY <1>1, <4>1 DEF RanksInStep
      <3> QED
        BY <3>3, <3>4
    <2> QED
      BY <1>3, <1>4, <2>1, <2>2 DEF RanksInStep
  <1>9. PipesFollow'
    <2>1. \A i : Behind0(i)' <=> Behind0(i)
      BY <1>2, <1>4, <1>6 DEF Behind0
    <2> QED
      BY <1>1, <1>2, <1>3, <1>4, <1>6, <2>1 DEF PipesFollow
  <1>10. SlotHeld' /\ InTurns' /\ NewestIs'
    BY <1>1, <1>2, <1>3, <1>4, <1>5 DEF SlotHeld, InTurns, NewestIs
  <1>11. CpuHeld'
    BY <1>1, <1>2, <1>3, <1>4, <1>5, <1>6 DEF CpuHeld
  <1> QED
    BY <1>2, <1>4, <1>7, <1>8, <1>9, <1>10, <1>11 DEF Pipelined

\* What a step of a pipeline does to the two queues.
LEMMA PipeQueues ==
  ASSUME NEW q, NEW i \in 1 .. TotalIterations, NEW next \in PipeSteps, config \in LegacySettings,
         step[Pipe(i)] \in PipeSteps,
         q[Slot] \in Seq(Process), IsInjective(q[Slot]), q[Cpu] \in Seq(Process), IsInjective(q[Cpu])
  PROVE  /\ DOMAIN Requeued(q, Pipe(i), next) = Resource
         /\ Requeued(q, Pipe(i), next)[Slot] \in Seq(Process)
         /\ IsInjective(Requeued(q, Pipe(i), next)[Slot])
         /\ Requeued(q, Pipe(i), next)[Cpu] \in Seq(Process)
         /\ IsInjective(Requeued(q, Pipe(i), next)[Cpu])
         /\ (step[Pipe(i)] \in Holding \cup {"waiting"} /\ next \in Holding \cup {"waiting"})
              => Requeued(q, Pipe(i), next)[Slot] = q[Slot]
         /\ (q[Slot] # <<>> /\ Head(q[Slot]) # Pipe(i)) =>
              (Requeued(q, Pipe(i), next)[Slot] # <<>> /\ Head(Requeued(q, Pipe(i), next)[Slot]) = Head(q[Slot]))
  <1> DEFINE p == Pipe(i)
             r == Requeued(q, p, next)
  <1>1. p \in Process /\ Slot \in Resource /\ Cpu \in Resource
    BY LegacyBounds
  <1>2. /\ Slot \in Requires(p, next) <=> next \in Holding \cup {"waiting"}
        /\ Slot \in Requires(p, step[p]) <=> step[p] \in Holding \cup {"waiting"}
    BY PipeRequires
  <1>3. Slot[1] = "slot" /\ Cpu[1] # "slot"
    BY DEF Slot, Cpu
  <1> HIDE DEF p
  <1>4. DOMAIN r = Resource
    BY RequeuedKept
  <1>5. r[Cpu] \in Seq(Process) /\ IsInjective(r[Cpu])
    BY <1>1, <1>3, RequeuedAt
  <1>6. CASE Slot \in Requires(p, step[p]) /\ Slot \in Requires(p, next)
    <2>1. r[Slot] = q[Slot]
      BY <1>1, <1>3, <1>6, RequeuedKept
    <2> HIDE DEF r
    <2> QED
      BY <1>2, <1>4, <1>5, <1>6, <2>1 DEF r, p
  <1>7. CASE ~(Slot \in Requires(p, step[p]) /\ Slot \in Requires(p, next))
    <2>1. ~(Slot[1] = "slot" /\ Slot \in Requires(p, step[p]) /\ Slot \in Requires(p, next))
      BY <1>7
    <2>2. r[Slot] \in Seq(Process) /\ IsInjective(r[Slot])
      BY <1>1, <2>1, RequeuedAt
    <2>3. (q[Slot] # <<>> /\ Head(q[Slot]) # p) => (r[Slot] # <<>> /\ Head(r[Slot]) = Head(q[Slot]))
      BY <1>1, <2>1, RequeuedAt
    <2> HIDE DEF r
    <2> QED
      BY <1>2, <1>4, <1>5, <1>7, <2>2, <2>3 DEF r, p
  <1> QED
    BY <1>6, <1>7

\* Who is in the queue of the slot after a step of a pipeline.
LEMMA PipeOnSlot ==
  ASSUME NEW q, NEW i \in 1 .. TotalIterations, NEW next \in PipeSteps, config \in LegacySettings,
         step[Pipe(i)] \in PipeSteps, q[Slot] \in Seq(Process), IsInjective(q[Slot]),
         step[Pipe(i)] \notin Holding \cup {"waiting"} \/ next \notin Holding \cup {"waiting"}
  PROVE  \A x : x \in ToSet(Requeued(q, Pipe(i), next)[Slot]) <=>
                    \/ x \in ToSet(q[Slot]) /\ x # Pipe(i)
                    \/ x = Pipe(i) /\ next \in Holding \cup {"waiting"}
  <1>1. Pipe(i) \in Process /\ Slot \in Resource
    BY LegacyBounds
  <1>2. /\ Slot \in Requires(Pipe(i), next) <=> next \in Holding \cup {"waiting"}
        /\ Slot \in Requires(Pipe(i), step[Pipe(i)]) <=> step[Pipe(i)] \in Holding \cup {"waiting"}
    BY PipeRequires
  <1>3. ~(Slot[1] = "slot" /\ Slot \in Requires(Pipe(i), step[Pipe(i)]) /\ Slot \in Requires(Pipe(i), next))
    BY <1>2
  <1>4. \A x : x \in ToSet(Requeued(q, Pipe(i), next)[Slot]) <=>
                 (x \in ToSet(q[Slot]) /\ x # Pipe(i)) \/ (x = Pipe(i) /\ Slot \in Requires(Pipe(i), next))
    BY <1>1, <1>3, RequeuedAt
  <1> QED
    BY <1>2, <1>4

\* Who is in the queue of the CPU after it.
LEMMA PipeOnCpu ==
  ASSUME NEW q, NEW i \in 1 .. TotalIterations, NEW next \in PipeSteps, config \in LegacySettings,
         q[Cpu] \in Seq(Process), IsInjective(q[Cpu])
  PROVE  \A x : x \in ToSet(Requeued(q, Pipe(i), next)[Cpu]) <=>
                    \/ x \in ToSet(q[Cpu]) /\ x # Pipe(i)
                    \/ x = Pipe(i) /\ next \in Copying
  <1>1. Cpu \in Requires(Pipe(i), next) <=> next \in Copying
    BY PipeRequires
  <1>2. Pipe(i) \in Process /\ Cpu \in Resource /\ Cpu[1] # "slot"
    BY LegacyBounds DEF Cpu
  <1>3. ~(Cpu[1] = "slot" /\ Cpu \in Requires(Pipe(i), step[Pipe(i)]) /\ Cpu \in Requires(Pipe(i), next))
    BY <1>2
  <1>4. \A x : x \in ToSet(Requeued(q, Pipe(i), next)[Cpu]) <=>
                 (x \in ToSet(q[Cpu]) /\ x # Pipe(i)) \/ (x = Pipe(i) /\ Cpu \in Requires(Pipe(i), next))
    BY <1>2, <1>3, RequeuedAt
  <1> QED
    BY <1>1, <1>4

\* The others keep their order.
LEMMA PipeBefore ==
  ASSUME NEW q, NEW i \in 1 .. TotalIterations, NEW next \in PipeSteps, config \in LegacySettings,
         q[Cpu] \in Seq(Process), IsInjective(q[Cpu])
  PROVE  \A x, y : x # Pipe(i) /\ y # Pipe(i) =>
                      (Before(Requeued(q, Pipe(i), next)[Cpu], x, y) <=> Before(q[Cpu], x, y))
  <1>1. Pipe(i) \in Process /\ Cpu \in Resource /\ Cpu[1] # "slot"
    BY LegacyBounds DEF Cpu
  <1>2. ~(Cpu[1] = "slot" /\ Cpu \in Requires(Pipe(i), step[Pipe(i)]) /\ Cpu \in Requires(Pipe(i), next))
    BY <1>1
  <1> QED
    BY <1>1, <1>2, RequeuedAt

\* The pipeline that is at the head of the slot holds nothing before it has been granted.
LEMMA HeldOne ==
  ASSUME Pipelined, NEW i \in Checkpoints, NEW k \in Checkpoints, step[Pipe(k)] \in Holding,
         \/ step[Pipe(i)] \in Holding
         \/ step[Pipe(i)] = "waiting" /\ Granted(Pipe(i))
  PROVE  i = k
  <1>1. queue[Slot] # <<>> /\ Head(queue[Slot]) = Pipe(k)
    BY DEF Pipelined, SlotHeld
  <1>2. CASE step[Pipe(i)] \in Holding
    <2>1. Head(queue[Slot]) = Pipe(i)
      BY <1>2 DEF Pipelined, SlotHeld
    <2> QED
      BY <1>1, <2>1, ProcessesDiffer
  <1>3. CASE Granted(Pipe(i)) /\ step[Pipe(i)] = "waiting"
    <2>1. Slot \in Requires(Pipe(i), step[Pipe(i)])
      BY <1>3, PipeRequires DEF PipeSteps
    <2>2. Head(queue[Slot]) = Pipe(i)
      BY <1>3, <2>1 DEF Granted
    <2> QED
      BY <1>1, <2>2, ProcessesDiffer
  <1> QED
    BY <1>2, <1>3

\* The pipeline of a checkpoint goes from one step to the next.
LEMMA PipeKept ==
  ASSUME Pipelined, NEW i \in Checkpoints, NEW next,
         \/ step[Pipe(i)] = "waiting" /\ next = "staging" /\ Granted(Pipe(i)) /\ newest' = newest
         \/ step[Pipe(i)] = "uploading" /\ next = "freeing" /\ newest' = IF i < newest THEN newest ELSE i
         \/ step[Pipe(i)] = "freeing" /\ next = "done" /\ newest' = newest,
         Moves(Pipe(i), next), UNCHANGED <<config, rankIteration>>
  PROVE  /\ Pipelined'
         /\ \A m \in Rank : step'[Main(m)] = step[Main(m)]
         /\ \A k \in Checkpoints : step'[Pipe(k)] = IF k = i THEN next ELSE step[Pipe(k)]
  <1>1. /\ LegacyTypes /\ RanksInStep /\ PipesFollow /\ SlotHeld /\ InTurns /\ CpuHeld /\ NewestIs
    BY DEF Pipelined
  <1>2. /\ config \in LegacySettings /\ 0 \in Rank /\ Checkpoints \subseteq 1 .. TotalIterations
        /\ \A m \in Rank : Main(m) \in Process
        /\ \A k \in 1 .. TotalIterations : Pipe(k) \in Process
        /\ \A k \in Checkpoints : k \in Nat
    BY <1>1, LegacyBounds DEF LegacyTypes
  <1>3. Rank' = Rank /\ Checkpoints' = Checkpoints
    BY DEF Rank, Checkpoints
  <1>4. /\ DOMAIN step' = Process
        /\ \A m \in Rank : step'[Main(m)] = step[Main(m)]
        /\ \A k \in 1 .. TotalIterations : step'[Pipe(k)] = IF k = i THEN next ELSE step[Pipe(k)]
    BY <1>1, <1>2, ProcessesDiffer DEF Moves, LegacyTypes
  <1> DEFINE at == step[Pipe(i)]
  <1>5. /\ at \in PipeSteps /\ next \in PipeSteps /\ i \in 1 .. TotalIterations
        /\ \/ at \in Holding \cup {"waiting"} /\ next \in Holding /\ next # "done" /\ next \notin {"none", "waiting"}
           \/ at = "freeing" /\ next = "done"
    BY <1>2 DEF PipeSteps, Holding
  <1>6. /\ DOMAIN queue' = Resource
        /\ queue'[Slot] \in Seq(Process) /\ IsInjective(queue'[Slot])
        /\ queue'[Cpu] \in Seq(Process) /\ IsInjective(queue'[Cpu])
        /\ next # "done" => queue'[Slot] = queue[Slot]
        /\ next = "done" => \A x : x \in ToSet(queue'[Slot]) <=> x \in ToSet(queue[Slot]) /\ x # Pipe(i)
        /\ \A x : x \in ToSet(queue'[Cpu]) <=>
                    \/ x \in ToSet(queue[Cpu]) /\ x # Pipe(i)
                    \/ x = Pipe(i) /\ next \in Copying
        /\ \A x, y : x # Pipe(i) /\ y # Pipe(i) => (Before(queue'[Cpu], x, y) <=> Before(queue[Cpu], x, y))
    <2>1. /\ queue[Slot] \in Seq(Process) /\ IsInjective(queue[Slot])
          /\ queue[Cpu] \in Seq(Process) /\ IsInjective(queue[Cpu])
      BY QueuesOf
    <2>2. /\ config \in LegacySettings /\ i \in 1 .. TotalIterations /\ next \in PipeSteps
          /\ step[Pipe(i)] \in PipeSteps
          /\ queue' = Requeued(queue, Pipe(i), next)
      BY <1>2, <1>5 DEF Moves
    <2> DEFINE r == Requeued(queue, Pipe(i), next)
    <2>3. /\ DOMAIN r = Resource
          /\ r[Slot] \in Seq(Process) /\ IsInjective(r[Slot])
          /\ r[Cpu] \in Seq(Process) /\ IsInjective(r[Cpu])
          /\ (step[Pipe(i)] \in Holding \cup {"waiting"} /\ next \in Holding \cup {"waiting"})
               => r[Slot] = queue[Slot]
      BY ONLY <2>1, <2>2, PipeQueues
    <2>4. (step[Pipe(i)] \notin Holding \cup {"waiting"} \/ next \notin Holding \cup {"waiting"}) =>
             \A x : x \in ToSet(r[Slot]) <=>
                      \/ x \in ToSet(queue[Slot]) /\ x # Pipe(i)
                      \/ x = Pipe(i) /\ next \in Holding \cup {"waiting"}
      BY ONLY <2>1, <2>2, PipeOnSlot
    <2>5. \A x : x \in ToSet(r[Cpu]) <=>
                    \/ x \in ToSet(queue[Cpu]) /\ x # Pipe(i)
                    \/ x = Pipe(i) /\ next \in Copying
      BY ONLY <2>1, <2>2, PipeOnCpu
    <2>6. \A x, y : x # Pipe(i) /\ y # Pipe(i) => (Before(r[Cpu], x, y) <=> Before(queue[Cpu], x, y))
      BY ONLY <2>1, <2>2, PipeBefore
    <2>7. queue' = r
      BY <2>2
    <2>8. "done" \notin Holding \cup {"waiting"}
      BY DEF Holding
    <2> HIDE DEF at, r
    <2> QED
      BY <1>5, <2>3, <2>4, <2>5, <2>6, <2>7, <2>8 DEF at
  <1>7. LegacyTypes'
    <2>1. newest' \in Nat
      BY <1>1, <1>2 DEF LegacyTypes
    <2> QED
      BY <1>1, <1>2, <1>3, <1>4, <1>5, <1>6, <2>1 DEF LegacyTypes
  <1>8. RanksInStep'
    <2>1. \A m \in Rank : Passed(m)' = Passed(m)
      BY <1>4 DEF Passed
    <2> QED
      BY <1>1, <1>3, <1>4, <2>1 DEF RanksInStep
  <1>9. PipesFollow'
    <2>1. \A k : Behind0(k)' <=> Behind0(k)
      BY <1>2, <1>4 DEF Behind0
    <2>2. at \in Staged <=> next \in Staged
      BY DEF Staged
    <2>3. next \in {"waiting", "staging"} => at \in {"waiting", "staging"}
      OBVIOUS
    <2> QED
      BY <1>1, <1>2, <1>3, <1>4, <2>1, <2>2, <2>3 DEF PipesFollow
  <1>10. \A k \in Checkpoints : step[Pipe(k)] \in Holding => k = i
    BY HeldOne DEF Holding
  <1>11. SlotHeld'
    <2>1. \A x : x \in ToSet(queue[Slot]) <=>
                   \E k \in Checkpoints : x = Pipe(k) /\ step[Pipe(k)] \in Holding \cup {"waiting"}
      BY <1>1 DEF SlotHeld
    <2>2. \A x : x \in ToSet(queue'[Slot]) <=>
                   \E k \in Checkpoints : x = Pipe(k) /\ step'[Pipe(k)] \in Holding \cup {"waiting"}
      <3>1. CASE next # "done"
        BY <1>2, <1>4, <1>5, <1>6, <2>1, <3>1
      <3>2. CASE next = "done"
        <4>1. next \notin Holding \cup {"waiting"}
          BY <3>2 DEF Holding
        <4> QED
          BY <1>2, <1>4, <1>6, <2>1, <3>2, <4>1, ProcessesDiffer
      <3> QED
        BY <3>1, <3>2
    <2>3. ASSUME NEW k \in Checkpoints, step'[Pipe(k)] \in Holding
          PROVE  queue'[Slot] # <<>> /\ Head(queue'[Slot]) = Pipe(k)
      <3>1. k = i /\ next # "done"
        BY <1>2, <1>4, <1>5, <1>10, <2>3 DEF Holding
      <3>2. queue'[Slot] = queue[Slot]
        BY <1>6, <3>1
      <3>3. CASE at \in Holding
        BY <1>1, <3>1, <3>2, <3>3 DEF SlotHeld
      <3>4. CASE at = "waiting" /\ Granted(Pipe(i))
        <4>1. Slot \in Requires(Pipe(i), step[Pipe(i)])
          BY <1>5, <3>4, PipeRequires
        <4>2. Head(queue[Slot]) = Pipe(i)
          BY <3>4, <4>1 DEF Granted
        <4>3. Pipe(i) \in ToSet(queue[Slot])
          BY <2>1, <3>4
        <4>4. queue[Slot] # <<>>
          BY <4>3 DEF ToSet
        <4> QED
          BY <3>1, <3>2, <4>2, <4>4
      <3> QED
        BY <3>3, <3>4 DEF Holding
    <2>4. ToSet(queue'[Slot]) =
            {Pipe(k) : k \in {m \in Checkpoints : step'[Pipe(m)] \in Holding \cup {"waiting"}}}
      BY <2>2
    <2> QED
      BY <1>3, <1>6, <2>3, <2>4 DEF SlotHeld
  <1>12. InTurns'
    <2>1. ASSUME NEW k \in Checkpoints, NEW m \in Checkpoints, k < m,
                 step'[Pipe(m)] \in Holding \cup {"done"}
          PROVE  step'[Pipe(k)] = "done"
      <3>1. CASE m # i
        <4>1. step'[Pipe(m)] = step[Pipe(m)]
          BY <1>2, <1>4, <3>1
        <4>2. step[Pipe(k)] = "done"
          BY <1>1, <2>1, <4>1 DEF InTurns
        <4>3. k # i
          BY <4>2
        <4> QED
          BY <1>2, <1>4, <4>2, <4>3
      <3>2. CASE m = i
        <4>1. k # i /\ step'[Pipe(k)] = step[Pipe(k)]
          BY <1>2, <1>4, <2>1, <3>2
        <4>2. CASE at \in Holding
          BY <1>1, <2>1, <3>2, <4>1, <4>2 DEF InTurns
        <4>3. CASE at = "waiting"
          <5>1. i = rankIteration[0]
            BY <1>1, <1>2, <4>3 DEF PipesFollow
          <5>2. step[Pipe(k)] \in Staged
            BY <1>1, <1>2, <2>1, <3>2, <5>1 DEF PipesFollow, Behind0
          <5>3. step[Pipe(k)] \notin Holding
            BY <1>10, <4>1
          <5> QED
            BY <4>1, <5>2, <5>3 DEF Staged, Holding
        <4> QED
          BY <1>5, <4>2, <4>3 DEF Holding
      <3> QED
        BY <3>1, <3>2
    <2> QED
      BY <1>3, <2>1 DEF InTurns
  <1>13. CpuHeld'
    <2>1. \A x : x \in ToSet(queue[Cpu]) <=>
                   \/ \E k \in Checkpoints : x = Pipe(k) /\ step[Pipe(k)] \in Copying
                   \/ x = Main(0) /\ step[Main(0)] \in OnCpuSteps
      BY <1>1 DEF CpuHeld
    <2>2. \A x : x \in ToSet(queue'[Cpu]) <=>
                   \/ \E k \in Checkpoints : x = Pipe(k) /\ step'[Pipe(k)] \in Copying
                   \/ x = Main(0) /\ step'[Main(0)] \in OnCpuSteps
      BY <1>2, <1>4, <1>6, <2>1, ProcessesDiffer
    <2>3. ToSet(queue'[Cpu]) =
            {Pipe(k) : k \in {m \in Checkpoints : step'[Pipe(m)] \in Copying}}
              \cup (IF step'[Main(0)] \in OnCpuSteps THEN {Main(0)} ELSE {})
      BY <2>2
    <2>4. ASSUME NEW k \in Checkpoints, step'[Pipe(k)] = "uploading", step'[Main(0)] = "failing"
          PROVE  Before(queue'[Cpu], Pipe(k), Main(0))
      <3>1. k # i /\ step[Pipe(k)] = "uploading" /\ step[Main(0)] = "failing"
        BY <1>2, <1>4, <2>4
      <3>2. Before(queue[Cpu], Pipe(k), Main(0))
        BY <1>1, <3>1 DEF CpuHeld
      <3> QED
        BY <1>6, <3>1, <3>2, ProcessesDiffer
    <2> QED
      BY <1>3, <1>6, <2>3, <2>4 DEF CpuHeld
  <1>14. NewestIs'
    <2>1. newest \in Nat
      BY <1>1 DEF LegacyTypes
    <2>2. CASE at = "uploading" /\ next = "freeing" /\ newest' = IF i < newest THEN newest ELSE i
      BY <1>1, <1>2, <1>3, <1>4, <2>1, <2>2 DEF NewestIs
    <2>3. CASE newest' = newest /\ at # "uploading"
      <3>1. next \in {"freeing", "done"} => at = "freeing"
        BY <2>3
      <3>2. at = "freeing" => next = "done"
        OBVIOUS
      <3> QED
        BY <1>1, <1>2, <1>3, <1>4, <2>3, <3>1, <3>2 DEF NewestIs
    <2> QED
      BY <2>2, <2>3
  <1> QED
    BY <1>2, <1>4, <1>7, <1>8, <1>9, <1>11, <1>12, <1>13, <1>14 DEF Pipelined

\* The checkpoint is staged: its upload asks for the CPU, and rank 0 goes on.
LEMMA StageKept ==
  ASSUME Pipelined, NEW i \in Checkpoints, Stage(i)
  PROVE  /\ Pipelined'
         /\ \A m \in Rank : step'[Main(m)] = IF m = 0 THEN NextStep(0) ELSE step[Main(m)]
         /\ \A k \in Checkpoints : step'[Pipe(k)] = IF k = i THEN "uploading" ELSE step[Pipe(k)]
         /\ NextStep(0) \in {"forward", "done"} /\ step[Main(0)] = "captured"
         /\ \A m \in Rank \ {0} : rankIteration'[m] = rankIteration[m]
  <1>1. /\ LegacyTypes /\ RanksInStep /\ PipesFollow /\ SlotHeld /\ InTurns /\ CpuHeld /\ NewestIs
    BY DEF Pipelined
  <1>2. /\ config \in LegacySettings /\ 0 \in Rank /\ Checkpoints \subseteq 1 .. TotalIterations
        /\ Rank \subseteq AllRanks /\ TotalIterations \in Nat
        /\ \A m \in Rank : Main(m) \in Process
        /\ \A k \in 1 .. TotalIterations : Pipe(k) \in Process
        /\ \A k \in Checkpoints : k \in Nat
    BY <1>1, LegacyBounds DEF LegacyTypes
  <1>3. Rank' = Rank /\ Checkpoints' = Checkpoints /\ config' = config /\ newest' = newest
    BY DEF Stage, Rank, Checkpoints
  <1>4. step[Pipe(i)] = "staging" /\ i = rankIteration[0] /\ step[Main(0)] = "captured"
    BY <1>1, <1>2 DEF Stage, PipesFollow
  <1> DEFINE next == NextStep(0)
  <1>5. /\ next \in {"forward", "done"}
        /\ DOMAIN step' = Process
        /\ \A m \in Rank : step'[Main(m)] = IF m = 0 THEN next ELSE step[Main(m)]
        /\ \A k \in 1 .. TotalIterations : step'[Pipe(k)] = IF k = i THEN "uploading" ELSE step[Pipe(k)]
    <2>1. next \in {"forward", "done"}
      BY DEF NextStep
    <2> HIDE DEF next
    <2>2. step' = [step EXCEPT ![Pipe(i)] = "uploading", ![Main(0)] = next]
      BY DEF Stage, next
    <2> QED
      BY <1>1, <1>2, <2>1, <2>2, ProcessesDiffer DEF LegacyTypes
  <1>6. /\ rankIteration' \in [AllRanks -> 1 .. TotalIterations]
        /\ \A m \in Rank \ {0} : rankIteration'[m] = rankIteration[m]
        /\ \/ next = "forward" /\ i < TotalIterations /\ rankIteration'[0] = i + 1
           \/ next = "done" /\ rankIteration'[0] = i /\ i = TotalIterations
    BY <1>1, <1>2, <1>4 DEF Stage, NextIteration, NextStep, LegacyTypes
  <1>7. /\ DOMAIN queue' = Resource /\ queue'[Slot] = queue[Slot]
        /\ queue'[Cpu] \in Seq(Process) /\ IsInjective(queue'[Cpu])
        /\ \A x : x \in ToSet(queue'[Cpu]) <=> x \in ToSet(queue[Cpu]) \/ x = Pipe(i)
    <2> DEFINE q == Requeued(queue, Pipe(i), "uploading")
    <2>1. /\ queue[Slot] \in Seq(Process) /\ IsInjective(queue[Slot])
          /\ queue[Cpu] \in Seq(Process) /\ IsInjective(queue[Cpu])
          /\ Main(0) \notin ToSet(queue[Slot]) /\ Main(0) \notin ToSet(queue[Cpu])
      BY <1>4, QueuesOf DEF OnCpuSteps
    <2>2. /\ config \in LegacySettings /\ i \in 1 .. TotalIterations /\ "uploading" \in PipeSteps
          /\ step[Pipe(i)] \in PipeSteps
          /\ step[Pipe(i)] \in Holding \cup {"waiting"} /\ "uploading" \in Holding \cup {"waiting"}
          /\ "uploading" \in Copying
      BY <1>2, <1>4 DEF PipeSteps, Holding, Copying
    <2>3. \A x : x \in ToSet(q[Cpu]) <=>
                    \/ x \in ToSet(queue[Cpu]) /\ x # Pipe(i)
                    \/ x = Pipe(i) /\ "uploading" \in Copying
      BY ONLY <2>1, <2>2, PipeOnCpu
    <2>4. /\ DOMAIN q = Resource
          /\ q[Slot] \in Seq(Process) /\ IsInjective(q[Slot])
          /\ q[Cpu] \in Seq(Process) /\ IsInjective(q[Cpu])
      BY ONLY <2>1, <2>2, PipeQueues
    <2>5. q[Slot] = queue[Slot]
      BY ONLY <2>1, <2>2, PipeQueues
    <2> HIDE DEF q
    <2>6. Main(0) \notin ToSet(q[Slot]) /\ Main(0) \notin ToSet(q[Cpu])
      BY <2>1, <2>3, <2>5, ProcessesDiffer
    <2>7. /\ step[Main(0)] \in RankSteps /\ next \in RankSteps
          /\ step[Main(0)] \notin OnCpuSteps /\ next \notin OnCpuSteps
      BY <1>4, <1>5 DEF RankSteps, Early, Late, OnCpuSteps
    <2> HIDE DEF next
    <2>8. /\ DOMAIN Requeued(q, Main(0), next) = Resource
          /\ Requeued(q, Main(0), next)[Slot] = q[Slot]
          /\ Requeued(q, Main(0), next)[Cpu] = q[Cpu]
      BY <1>2, <2>4, <2>6, <2>7, RankQueues
    <2>9. queue' = Requeued(q, Main(0), next)
      BY DEF Stage, q, next
    <2> QED
      BY <2>2, <2>3, <2>4, <2>5, <2>8, <2>9
  <1> HIDE DEF next
  <1>8. LegacyTypes'
    <2>1. \A m \in Rank : step'[Main(m)] \in RankSteps
      BY <1>1, <1>5 DEF LegacyTypes, RankSteps, Early, Late
    <2>2. \A k \in 1 .. TotalIterations : step'[Pipe(k)] \in PipeSteps
      BY <1>1, <1>5 DEF LegacyTypes, PipeSteps
    <2> QED
      BY <1>1, <1>3, <1>5, <1>6, <1>7, <2>1, <2>2 DEF LegacyTypes
  <1>9. RanksInStep'
    <2>1. Passed(0)' = Passed(0)
      BY <1>2, <1>4, <1>5, <1>6 DEF Passed, Early
    <2>2. \A m \in Rank : Passed(m)' = Passed(m)
      <3>1. \A m \in Rank \ {0} : Passed(m)' = Passed(m)
        BY <1>5, <1>6 DEF Passed
      <3> QED
        BY <2>1, <3>1
    <2>3. \A m \in Rank : step'[Main(m)] \in Exchanging <=> step[Main(m)] \in Exchanging
      BY <1>4, <1>5 DEF Exchanging
    <2> QED
      BY <1>1, <1>3, <2>2, <2>3 DEF RanksInStep
  <1>10. \A k \in 1 .. TotalIterations : k < i \/ k > i \/ k = i
    BY <1>2
  <1>11. PipesFollow'
    <2>1. \A k \in 1 .. TotalIterations : Behind0(k)' <=> k <= i
      BY <1>2, <1>5, <1>6 DEF Behind0
    <2>2. \A k \in 1 .. TotalIterations : step[Pipe(k)] \in Staged <=> k \in Checkpoints /\ k < i
      BY <1>1, <1>2, <1>4 DEF PipesFollow, Behind0
    <2>3. \A k \in 1 .. TotalIterations : step'[Pipe(k)] \notin {"waiting", "staging"}
      BY <1>1, <1>4, <1>5 DEF PipesFollow
    <2>4. \A k \in 1 .. TotalIterations : step'[Pipe(k)] \in Staged <=> k \in Checkpoints /\ k <= i
      BY <1>2, <1>5, <1>10, <2>2 DEF Staged
    <2> QED
      BY <1>3, <2>1, <2>3, <2>4 DEF PipesFollow
  <1>12. SlotHeld'
    <2>1. \A k \in Checkpoints : step'[Pipe(k)] \in Holding <=> step[Pipe(k)] \in Holding
      BY <1>2, <1>4, <1>5 DEF Holding
    <2>2. \A k \in Checkpoints :
             step'[Pipe(k)] \in Holding \cup {"waiting"} <=> step[Pipe(k)] \in Holding \cup {"waiting"}
      BY <1>2, <1>4, <1>5 DEF Holding
    <2> QED
      BY <1>1, <1>3, <1>7, <2>1, <2>2 DEF SlotHeld
  <1>13. InTurns'
    <2>1. \A k \in Checkpoints : step'[Pipe(k)] = "done" <=> step[Pipe(k)] = "done"
      BY <1>2, <1>4, <1>5
    <2>2. \A k \in Checkpoints :
             step'[Pipe(k)] \in Holding \cup {"done"} <=> step[Pipe(k)] \in Holding \cup {"done"}
      BY <1>2, <1>4, <1>5 DEF Holding
    <2> QED
      BY <1>1, <1>3, <2>1, <2>2 DEF InTurns
  <1>14. CpuHeld'
    <2>1. \A x : x \in ToSet(queue[Cpu]) <=>
                   \/ \E k \in Checkpoints : x = Pipe(k) /\ step[Pipe(k)] \in Copying
                   \/ x = Main(0) /\ step[Main(0)] \in OnCpuSteps
      BY <1>1 DEF CpuHeld
    <2>2. step[Main(0)] \notin OnCpuSteps /\ step'[Main(0)] \notin OnCpuSteps /\ step'[Main(0)] # "failing"
      BY <1>2, <1>4, <1>5 DEF OnCpuSteps
    <2>3. \A k \in Checkpoints : step'[Pipe(k)] \in Copying <=> step[Pipe(k)] \in Copying
      BY <1>2, <1>4, <1>5 DEF Copying
    <2>4. step[Pipe(i)] \in Copying
      BY <1>4 DEF Copying
    <2>5. \A x : x \in ToSet(queue'[Cpu]) <=>
                   \/ \E k \in Checkpoints : x = Pipe(k) /\ step'[Pipe(k)] \in Copying
                   \/ x = Main(0) /\ step'[Main(0)] \in OnCpuSteps
      BY <1>7, <2>1, <2>2, <2>3, <2>4
    <2>6. ToSet(queue'[Cpu]) =
            {Pipe(k) : k \in {m \in Checkpoints : step'[Pipe(m)] \in Copying}}
              \cup (IF step'[Main(0)] \in OnCpuSteps THEN {Main(0)} ELSE {})
      BY <2>5
    <2> QED
      BY <1>3, <1>7, <2>2, <2>6 DEF CpuHeld
  <1>15. NewestIs'
    <2>1. \A k \in Checkpoints :
             step'[Pipe(k)] \in {"freeing", "done"} <=> step[Pipe(k)] \in {"freeing", "done"}
      BY <1>2, <1>4, <1>5
    <2> QED
      BY <1>1, <1>3, <2>1 DEF NewestIs
  <1> QED
    BY <1>2, <1>4, <1>5, <1>6, <1>8, <1>9, <1>11, <1>12, <1>13, <1>14, <1>15 DEF Pipelined, next

\* Rank 0 starts the pipeline of a checkpoint that is due, and waits.
LEMMA CaptureKept ==
  ASSUME Pipelined, Optimize(0), rankIteration[0] \in Checkpoints
  PROVE  /\ Pipelined'
         /\ \A m \in Rank : step'[Main(m)] = IF m = 0 THEN "captured" ELSE step[Main(m)]
         /\ \A k \in Checkpoints : step'[Pipe(k)] = IF k = rankIteration[0] THEN "waiting" ELSE step[Pipe(k)]
         /\ step[Main(0)] = "optimizer" /\ step[Pipe(rankIteration[0])] = "none"
         /\ rankIteration' = rankIteration
  <1> DEFINE i == rankIteration[0]
  <1>1. /\ LegacyTypes /\ RanksInStep /\ PipesFollow /\ SlotHeld /\ InTurns /\ CpuHeld /\ NewestIs
    BY DEF Pipelined
  <1>2. /\ config \in LegacySettings /\ 0 \in Rank /\ Checkpoints \subseteq 1 .. TotalIterations
        /\ \A m \in Rank : Main(m) \in Process
        /\ \A k \in 1 .. TotalIterations : Pipe(k) \in Process
        /\ \A k \in Checkpoints : k \in Nat
    BY <1>1, LegacyBounds DEF LegacyTypes
  <1>0. step[Main(0)] = "optimizer" /\ rankIteration' = rankIteration
    BY DEF Optimize
  <1>3. /\ Rank' = Rank /\ Checkpoints' = Checkpoints /\ config' = config /\ newest' = newest
        /\ rankIteration' = rankIteration /\ step[Main(0)] = "optimizer"
        /\ step' = [step EXCEPT ![Main(0)] = "captured", ![Pipe(i)] = "waiting"]
        /\ queue' = Requeued(Requeued(queue, Main(0), "captured"), Pipe(i), "waiting")
    BY DEF Optimize, Rank, Checkpoints
  <1>4. i \in Checkpoints
    OBVIOUS
  <1> HIDE DEF i
  <1>5. step[Pipe(i)] = "none"
    <2>1. i \in Nat /\ i = rankIteration[0]
      BY <1>2, <1>4 DEF i
    <2>2. ~Behind0(i)
      BY <1>0, <2>1 DEF Behind0
    <2> QED
      BY <1>0, <1>1, <1>2, <1>4, <2>2 DEF PipesFollow, LegacyTypes, PipeSteps, Staged
  <1>6. /\ DOMAIN step' = Process
        /\ \A m \in Rank : step'[Main(m)] = IF m = 0 THEN "captured" ELSE step[Main(m)]
        /\ \A k \in 1 .. TotalIterations : step'[Pipe(k)] = IF k = i THEN "waiting" ELSE step[Pipe(k)]
    BY <1>1, <1>2, <1>3, <1>4, ProcessesDiffer DEF LegacyTypes
  <1>7. /\ DOMAIN queue' = Resource
        /\ queue'[Slot] \in Seq(Process) /\ IsInjective(queue'[Slot])
        /\ queue'[Cpu] \in Seq(Process) /\ IsInjective(queue'[Cpu])
        /\ \A x : x \in ToSet(queue'[Slot]) <=> x \in ToSet(queue[Slot]) \/ x = Pipe(i)
        /\ queue[Slot] # <<>> => (queue'[Slot] # <<>> /\ Head(queue'[Slot]) = Head(queue[Slot]))
        /\ \A x : x \in ToSet(queue'[Cpu]) <=> x \in ToSet(queue[Cpu])
    <2> DEFINE q == Requeued(queue, Main(0), "captured")
    <2>1. /\ queue[Slot] \in Seq(Process) /\ IsInjective(queue[Slot])
          /\ queue[Cpu] \in Seq(Process) /\ IsInjective(queue[Cpu]) /\ DOMAIN queue = Resource
          /\ Main(0) \notin ToSet(queue[Slot]) /\ Main(0) \notin ToSet(queue[Cpu])
          /\ Pipe(i) \notin ToSet(queue[Slot]) /\ Pipe(i) \notin ToSet(queue[Cpu])
      BY <1>3, <1>4, <1>5, QueuesOf DEF OnCpuSteps, Holding, Copying
    <2>2. /\ step[Main(0)] \in RankSteps /\ "captured" \in RankSteps
          /\ step[Main(0)] \notin OnCpuSteps /\ "captured" \notin OnCpuSteps
      BY <1>3 DEF RankSteps, Early, Late, OnCpuSteps
    <2>3. DOMAIN q = Resource /\ q[Slot] = queue[Slot] /\ q[Cpu] = queue[Cpu]
      BY <1>2, <2>1, <2>2, RankQueues
    <2> HIDE DEF q
    <2>4. /\ q[Slot] \in Seq(Process) /\ IsInjective(q[Slot])
          /\ q[Cpu] \in Seq(Process) /\ IsInjective(q[Cpu])
      BY <2>1, <2>3
    <2>5. /\ config \in LegacySettings /\ i \in 1 .. TotalIterations /\ "waiting" \in PipeSteps
          /\ step[Pipe(i)] \in PipeSteps
      BY <1>2, <1>4, <1>5 DEF PipeSteps
    <2>6. "waiting" \in Holding \cup {"waiting"} /\ "waiting" \notin Copying
          /\ step[Pipe(i)] \notin Holding \cup {"waiting"}
      BY <1>5 DEF Holding, Copying
    <2> DEFINE r == Requeued(q, Pipe(i), "waiting")
    <2>10. \A x : x \in ToSet(r[Cpu]) <=>
                     \/ x \in ToSet(q[Cpu]) /\ x # Pipe(i)
                     \/ x = Pipe(i) /\ "waiting" \in Copying
      BY ONLY <2>4, <2>5, PipeOnCpu
    <2>7. /\ DOMAIN r = Resource
          /\ r[Slot] \in Seq(Process) /\ IsInjective(r[Slot])
          /\ r[Cpu] \in Seq(Process) /\ IsInjective(r[Cpu])
      BY ONLY <2>4, <2>5, PipeQueues
    <2>8. \A x : x \in ToSet(r[Slot]) <=>
                    \/ x \in ToSet(q[Slot]) /\ x # Pipe(i)
                    \/ x = Pipe(i) /\ "waiting" \in Holding \cup {"waiting"}
      BY ONLY <2>4, <2>5, <2>6, PipeOnSlot
    <2>9. (q[Slot] # <<>> /\ Head(q[Slot]) # Pipe(i)) => (r[Slot] # <<>> /\ Head(r[Slot]) = Head(q[Slot]))
      BY ONLY <2>4, <2>5, <2>6, PipeQueues
    <2>11. r = queue'
      BY <1>3 DEF q, r
    <2>12. queue[Slot] # <<>> => Head(queue[Slot]) # Pipe(i)
      BY <2>1 DEF ToSet
    <2> HIDE DEF r
    <2> QED
      BY <2>1, <2>3, <2>6, <2>7, <2>8, <2>9, <2>10, <2>11, <2>12
  <1>8. LegacyTypes'
    <2>1. \A m \in Rank : step'[Main(m)] \in RankSteps
      BY <1>1, <1>6 DEF LegacyTypes, RankSteps, Late
    <2>2. \A k \in 1 .. TotalIterations : step'[Pipe(k)] \in PipeSteps
      BY <1>1, <1>6 DEF LegacyTypes, PipeSteps
    <2> QED
      BY <1>1, <1>3, <1>6, <1>7, <2>1, <2>2 DEF LegacyTypes
  <1>9. RanksInStep'
    <2>1. \A m \in Rank : Passed(m)' = Passed(m)
      BY <1>0, <1>6 DEF Passed, Early
    <2>2. \A m \in Rank : step'[Main(m)] \in Exchanging <=> step[Main(m)] \in Exchanging
      BY <1>0, <1>6 DEF Exchanging
    <2> QED
      BY <1>1, <1>3, <2>1, <2>2 DEF RanksInStep
  <1>10. PipesFollow'
    <2>1. \A k : Behind0(k)' <=> Behind0(k)
      BY <1>2, <1>3, <1>6 DEF Behind0
    <2>2. \A k \in 1 .. TotalIterations : step'[Pipe(k)] \in {"waiting", "staging"} => k = i
      BY <1>1, <1>3, <1>6 DEF PipesFollow
    <2>3. step'[Main(0)] = "captured" /\ i = rankIteration'[0]
      BY <1>2, <1>3, <1>6 DEF i
    <2>4. \A k \in 1 .. TotalIterations : step'[Pipe(k)] \in Staged <=> step[Pipe(k)] \in Staged
      BY <1>5, <1>6 DEF Staged
    <2> QED
      BY <1>1, <1>3, <1>4, <2>1, <2>2, <2>3, <2>4 DEF PipesFollow
  <1>11. \A k \in Checkpoints : step'[Pipe(k)] \in Holding <=> step[Pipe(k)] \in Holding
    BY <1>2, <1>5, <1>6 DEF Holding
  <1>12. SlotHeld'
    <2>1. \A x : x \in ToSet(queue[Slot]) <=>
                   \E k \in Checkpoints : x = Pipe(k) /\ step[Pipe(k)] \in Holding \cup {"waiting"}
      BY <1>1 DEF SlotHeld
    <2>2. \A k \in Checkpoints : step'[Pipe(k)] \in Holding \cup {"waiting"} <=>
                                   step[Pipe(k)] \in Holding \cup {"waiting"} \/ k = i
      BY <1>2, <1>6, <1>11
    <2>3. \A x : x \in ToSet(queue'[Slot]) <=>
                   \E k \in Checkpoints : x = Pipe(k) /\ step'[Pipe(k)] \in Holding \cup {"waiting"}
      BY <1>4, <1>7, <2>1, <2>2
    <2>4. ToSet(queue'[Slot]) =
            {Pipe(k) : k \in {m \in Checkpoints : step'[Pipe(m)] \in Holding \cup {"waiting"}}}
      BY <2>3
    <2>5. \A k \in Checkpoints :
             step'[Pipe(k)] \in Holding => queue'[Slot] # <<>> /\ Head(queue'[Slot]) = Pipe(k)
      BY <1>1, <1>7, <1>11 DEF SlotHeld
    <2> QED
      BY <1>3, <1>7, <2>4, <2>5 DEF SlotHeld
  <1>13. InTurns'
    <2>1. \A k \in Checkpoints : step'[Pipe(k)] = "done" <=> step[Pipe(k)] = "done"
      BY <1>2, <1>5, <1>6
    <2>2. \A k \in Checkpoints :
             step'[Pipe(k)] \in Holding \cup {"done"} <=> step[Pipe(k)] \in Holding \cup {"done"}
      BY <1>11, <2>1
    <2> QED
      BY <1>1, <1>3, <2>1, <2>2 DEF InTurns
  <1>14. CpuHeld'
    <2>1. step[Main(0)] \notin OnCpuSteps /\ step'[Main(0)] \notin OnCpuSteps /\ step'[Main(0)] # "failing"
      BY <1>2, <1>3, <1>6 DEF OnCpuSteps
    <2>2. \A k \in Checkpoints : step'[Pipe(k)] \in Copying <=> step[Pipe(k)] \in Copying
      BY <1>2, <1>5, <1>6 DEF Copying
    <2>3. ToSet(queue'[Cpu]) = ToSet(queue[Cpu])
      BY <1>7
    <2>4. {k \in Checkpoints : step'[Pipe(k)] \in Copying} = {k \in Checkpoints : step[Pipe(k)] \in Copying}
      BY <2>2
    <2>5. ToSet(queue'[Cpu]) =
            {Pipe(k) : k \in {m \in Checkpoints : step'[Pipe(m)] \in Copying}}
              \cup (IF step'[Main(0)] \in OnCpuSteps THEN {Main(0)} ELSE {})
      BY <1>1, <2>1, <2>3, <2>4 DEF CpuHeld
    <2> QED
      BY <1>3, <1>7, <2>1, <2>5 DEF CpuHeld
  <1>15. NewestIs'
    <2>1. \A k \in Checkpoints :
             step'[Pipe(k)] \in {"freeing", "done"} <=> step[Pipe(k)] \in {"freeing", "done"}
      BY <1>2, <1>5, <1>6
    <2> QED
      BY <1>1, <1>3, <2>1 DEF NewestIs
  <1> QED
    BY <1>2, <1>3, <1>5, <1>6, <1>8, <1>9, <1>10, <1>12, <1>13, <1>14, <1>15 DEF Pipelined, i

\* Of the pipelines, one at most holds memory.
LEMMA HeldCount ==
  ASSUME NEW S, \A i, k \in S : i = k
  PROVE  Cardinality(S) = IF S = {} THEN 0 ELSE 1
  <1>1. CASE S = {}
    BY <1>1, FS_EmptySet
  <1>2. CASE S # {}
    <2>1. PICK i \in S : TRUE
      BY <1>2
    <2>2. S = {i}
      BY <2>1
    <2> QED
      BY <1>2, <2>2, FS_Singleton
  <1> QED
    BY <1>1, <1>2

\* The pipelines that hold memory of a machine.
HeldBy(n) == {i \in Checkpoints : n = 0 /\ step[Pipe(i)] \in Holding}

\* What a machine is short of: a place for a pipeline that holds one, one for a recovery.
LEMMA MemoryCounts ==
  ASSUME Pipelined, Exact, NEW n \in Rank
  PROVE  /\ level[n] \in Int /\ Dram \in Nat
         /\ Dram - level[n] = (IF HeldBy(n) = {} THEN 0 ELSE 1) + (IF step[Main(n)] \in Reading THEN 1 ELSE 0)
  <1>1. config \in LegacySettings
    BY DEF Pipelined, LegacyTypes
  <1>2. n \in AllRanks /\ Dram \in Nat
    BY <1>1, LegacyBounds
  <1>3. \A i, k \in HeldBy(n) : i = k
    BY HeldOne DEF HeldBy
  <1>4. Cardinality(HeldBy(n)) = IF HeldBy(n) = {} THEN 0 ELSE 1
    BY <1>3, HeldCount
  <1>5. HeldBy(n) = {i \in Checkpoints : n = 0 /\ step[Pipe(i)] \in {"staging", "uploading", "freeing"}}
    BY DEF HeldBy, Holding
  <1>6. Dram - level[n] = Cardinality(HeldBy(n)) + (IF step[Main(n)] \in {"loading", "restoring"} THEN 1 ELSE 0)
    BY <1>5 DEF Exact, MemoryExact
  <1> QED
    BY <1>2, <1>4, <1>6 DEF Exact, Reading

\* A step that leaves alone what the memory and the recoveries depend on.
LEMMA ExactKept ==
  ASSUME Pipelined, Exact, config' = config, level' = level, loads' = loads,
         newest' \in Nat, newest' >= newest,
         \A i \in Checkpoints : step'[Pipe(i)] \in Holding <=> step[Pipe(i)] \in Holding,
         \A m \in Rank : /\ step'[Main(m)] \in Reading <=> step[Main(m)] \in Reading
                         /\ step'[Main(m)] \in Reading => rankIteration'[m] = rankIteration[m]
  PROVE  Exact'
  <1>1. Rank' = Rank /\ Checkpoints' = Checkpoints /\ newest \in Nat /\ config \in LegacySettings
    BY DEF Rank, Checkpoints, Pipelined, LegacyTypes
  <1>2. MemoryExact'
    <2>1. ASSUME NEW n \in Rank
          PROVE  /\ {i \in Checkpoints : n = 0 /\ step'[Pipe(i)] \in {"staging", "uploading", "freeing"}} =
                      {i \in Checkpoints : n = 0 /\ step[Pipe(i)] \in {"staging", "uploading", "freeing"}}
                 /\ step'[Main(n)] \in {"loading", "restoring"} <=> step[Main(n)] \in {"loading", "restoring"}
      BY DEF Holding, Reading
    <2> QED
      BY <1>1, <2>1 DEF Exact, MemoryExact
  <1>3. LoadsRecent'
    <2>1. \A n \in Rank : loads[n] \in Nat
      BY <1>1, LegacyBounds DEF Exact
    <2>2. \A i : LastDue(i)' = LastDue(i)
      BY DEF LastDue
    <2>3. \A n \in Rank : step'[Main(n)] \in {"loading", "restoring"} =>
             /\ step[Main(n)] \in {"loading", "restoring"} /\ rankIteration'[n] = rankIteration[n]
      BY DEF Reading
    <2> QED
      BY <1>1, <2>1, <2>2, <2>3 DEF Exact, LoadsRecent
  <1> QED
    BY <1>2, <1>3 DEF Exact

\* The recoveries that go on are of a checkpoint that is recent still.
LEMMA LoadsKept ==
  ASSUME Pipelined, Exact, config' = config, newest' \in Nat, newest' >= newest,
         NEW S \in SUBSET Rank,
         \A m \in S : step'[Main(m)] \in Reading =>
            step[Main(m)] \in Reading /\ rankIteration'[m] = rankIteration[m] /\ loads'[m] = loads[m]
  PROVE  \A m \in S : step'[Main(m)] \in {"loading", "restoring"} =>
            /\ loads'[m] < rankIteration'[m] /\ loads'[m] <= newest'
            /\ (loads[m] >= LastDue(rankIteration[m] - 2) - config.every)'
  <1>1. newest \in Nat /\ config \in LegacySettings
    BY DEF Pipelined, LegacyTypes
  <1>2. \A m \in Rank : loads[m] \in Nat
    BY <1>1, LegacyBounds DEF Exact
  <1>3. ASSUME NEW m \in S, step'[Main(m)] \in {"loading", "restoring"}
        PROVE  /\ loads'[m] < rankIteration'[m] /\ loads'[m] <= newest'
               /\ (loads[m] >= LastDue(rankIteration[m] - 2) - config.every)'
    <2>1. /\ step[Main(m)] \in {"loading", "restoring"} /\ m \in Rank
          /\ rankIteration'[m] = rankIteration[m] /\ loads'[m] = loads[m]
      BY <1>3 DEF Reading
    <2>2. /\ loads[m] < rankIteration[m] /\ loads[m] <= newest
          /\ loads[m] >= LastDue(rankIteration[m] - 2) - config.every
      BY <2>1 DEF Exact, LoadsRecent
    <2>3. LastDue(rankIteration[m] - 2)' = LastDue(rankIteration[m] - 2)
      BY <2>1 DEF LastDue
    <2> QED
      BY <1>1, <1>2, <2>1, <2>2, <2>3
  <1> QED
    BY <1>3

\* A rank goes on before its all-reduce, or in it.
LEMMA RankMoves ==
  ASSUME LegacyInductive, NEW n \in Rank, NEW next, Moves(Main(n), next),
         \/ step[Main(n)] \in Early /\ next \in Early
         \/ step[Main(n)] = "transfer" /\ next = "sent",
         UNCHANGED <<config, schedule, rankIteration, newest>>
  PROVE  /\ Pipelined' /\ Scheduled'
         /\ \A m \in Rank : step'[Main(m)] = IF m = n THEN next ELSE step[Main(m)]
         /\ \A i \in Checkpoints : step'[Pipe(i)] = step[Pipe(i)]
  <1>1. /\ next \in RankSteps /\ step[Main(n)] # "captured" /\ next # "captured"
        /\ next \in Exchanging <=> step[Main(n)] \in Exchanging
        /\ next # "done" /\ step[Main(n)] # "done"
        /\ next \in Early <=> step[Main(n)] \in Early
    BY DEF RankSteps, Early, Exchanging
  <1>2. (IF next \in Early THEN rankIteration'[n] - 1 ELSE rankIteration'[n]) = Passed(n)
    BY <1>1 DEF Passed
  <1>3. n = 0 => \A i \in Checkpoints :
                   (i < rankIteration'[0] \/ (i = rankIteration'[0] /\ next = "done")) <=> Behind0(i)
    BY <1>1 DEF Behind0
  <1>4. rankIteration' \in [AllRanks -> 1 .. TotalIterations]
    BY DEF LegacyInductive, Pipelined, LegacyTypes
  <1>5. Pipelined /\ UNCHANGED <<config, newest>> /\ \A m \in Rank \ {n} : rankIteration'[m] = rankIteration[m]
    BY DEF LegacyInductive
  <1>6. Scheduled'
    BY DEF LegacyInductive, Scheduled, Schedules
  <1> QED
    BY <1>1, <1>2, <1>3, <1>4, <1>5, <1>6, RankKept

\* The same, when it holds as much memory as before.
LEMMA PlainMoves ==
  ASSUME LegacyInductive, NEW n \in Rank, NEW next, Moves(Main(n), next),
         \/ step[Main(n)] \in Early /\ next \in Early
         \/ step[Main(n)] = "transfer" /\ next = "sent",
         next \in Reading <=> step[Main(n)] \in Reading,
         UNCHANGED <<config, schedule, rankIteration, level, newest, loads>>
  PROVE  LegacyInductive'
  <1>1. /\ Pipelined' /\ Scheduled'
        /\ \A m \in Rank : step'[Main(m)] = IF m = n THEN next ELSE step[Main(m)]
        /\ \A i \in Checkpoints : step'[Pipe(i)] = step[Pipe(i)]
    BY RankMoves
  <1>2. newest' \in Nat /\ newest' >= newest
    BY DEF LegacyInductive, Pipelined, LegacyTypes
  <1>3. Exact'
    BY <1>1, <1>2, ExactKept DEF LegacyInductive
  <1> QED
    BY <1>1, <1>3 DEF LegacyInductive

\* The memory after a step of one rank.
LEMMA RankMemory ==
  ASSUME Pipelined, Exact, NEW n \in Rank, config' = config,
         \A i \in Checkpoints : step'[Pipe(i)] = step[Pipe(i)],
         \A m \in Rank \ {n} : step'[Main(m)] = step[Main(m)] /\ level'[m] = level[m],
         Dram - level'[n] = (IF HeldBy(n) = {} THEN 0 ELSE 1) + (IF step'[Main(n)] \in Reading THEN 1 ELSE 0)
  PROVE  MemoryExact'
  <1>1. Rank' = Rank /\ Checkpoints' = Checkpoints
    BY DEF Rank, Checkpoints
  <1>2. \A m \in Rank :
           HeldBy(m) = {i \in Checkpoints : m = 0 /\ step'[Pipe(i)] \in {"staging", "uploading", "freeing"}}
    BY DEF HeldBy, Holding
  <1>3. ASSUME NEW m \in Rank
        PROVE  Dram - level'[m] = (IF HeldBy(m) = {} THEN 0 ELSE 1) + (IF step'[Main(m)] \in Reading THEN 1 ELSE 0)
    <2>1. CASE m = n
      BY <2>1
    <2>2. CASE m # n
      <3>1. Dram - level[m] = (IF HeldBy(m) = {} THEN 0 ELSE 1) + (IF step[Main(m)] \in Reading THEN 1 ELSE 0)
        BY MemoryCounts
      <3> QED
        BY <2>2, <3>1
    <2> QED
      BY <2>1, <2>2
  <1>4. \A m \in Rank : \A i, k \in HeldBy(m) : i = k
    BY HeldOne DEF HeldBy
  <1>5. \A m \in Rank : Dram - level'[m] =
            Cardinality({i \in Checkpoints : m = 0 /\ step'[Pipe(i)] \in {"staging", "uploading", "freeing"}})
            + (IF step'[Main(m)] \in {"loading", "restoring"} THEN 1 ELSE 0)
    <2>1. ASSUME NEW m \in Rank
          PROVE  Dram - level'[m] =
            Cardinality({i \in Checkpoints : m = 0 /\ step'[Pipe(i)] \in {"staging", "uploading", "freeing"}})
            + (IF step'[Main(m)] \in {"loading", "restoring"} THEN 1 ELSE 0)
      <3>1. Cardinality(HeldBy(m)) = IF HeldBy(m) = {} THEN 0 ELSE 1
        BY <1>4, HeldCount
      <3>2. Dram - level'[m] = Cardinality(HeldBy(m)) + (IF step'[Main(m)] \in Reading THEN 1 ELSE 0)
        BY <1>3, <3>1
      <3> QED
        BY <1>2, <3>2 DEF Reading
    <2> QED
      BY <2>1
  <1> QED
    BY <1>1, <1>5 DEF MemoryExact

\* The steps of a rank whose failure, if any, has not come or is over.
LEMMA ComputeKept ==
  ASSUME LegacyInductive, NEW n \in Rank, ComputeStage(n) \/ Interrupt(n) \/ Load(n) \/ Exchange(n)
  PROVE  LegacyInductive'
  <1>1. CASE ComputeStage(n)
    <2> DEFINE next == IF step[Main(n)] = "forward" THEN "backward" ELSE "arrived"
    <2>1. /\ step[Main(n)] \in Early /\ next \in Early
          /\ next \notin Reading /\ step[Main(n)] \notin Reading
      BY <1>1 DEF ComputeStage, Early, Reading
    <2>2. Moves(Main(n), next) /\ UNCHANGED <<config, schedule, rankIteration, level, newest, loads>>
      BY <1>1 DEF ComputeStage
    <2> HIDE DEF next
    <2> QED
      BY <2>1, <2>2, PlainMoves
  <1>2. CASE Interrupt(n)
    <2>1. step[Main(n)] \in {"forward", "backward"}
      <3>1. rankIteration[n] \in DOMAIN schedule /\ schedule[rankIteration[n]].stage = step[Main(n)]
        BY <1>2 DEF Interrupt, Struck
      <3>2. schedule \in Schedules(config.world)
        BY DEF LegacyInductive, Scheduled
      <3> QED
        BY <3>1, <3>2 DEF Schedules
    <2>2. /\ step[Main(n)] \in Early /\ "failing" \in Early
          /\ "failing" \notin Reading /\ step[Main(n)] \notin Reading
      BY <2>1 DEF Early, Reading
    <2>3. Moves(Main(n), "failing") /\ UNCHANGED <<config, schedule, rankIteration, level, newest, loads>>
      BY <1>2 DEF Interrupt
    <2> QED
      BY <2>2, <2>3, PlainMoves
  <1>3. CASE Load(n)
    <2>1. /\ step[Main(n)] \in Early /\ "restoring" \in Early
          /\ "restoring" \in Reading /\ step[Main(n)] \in Reading
      BY <1>3 DEF Load, Early, Reading
    <2>2. Moves(Main(n), "restoring") /\ UNCHANGED <<config, schedule, rankIteration, level, newest, loads>>
      BY <1>3 DEF Load
    <2> QED
      BY <2>1, <2>2, PlainMoves
  <1>4. CASE Exchange(n)
    <2>1. /\ step[Main(n)] = "transfer"
          /\ "sent" \notin Reading /\ step[Main(n)] \notin Reading
      BY <1>4 DEF Exchange, Reading
    <2>2. Moves(Main(n), "sent") /\ UNCHANGED <<config, schedule, rankIteration, level, newest, loads>>
      BY <1>4 DEF Exchange
    <2> QED
      BY <2>1, <2>2, PlainMoves
  <1> QED
    BY <1>1, <1>2, <1>3, <1>4

\* A flush finds nothing to free: before the failure of rank 0 its pipeline has asked for
\* the CPU, and what is left to put back has been.
LEMMA NothingHeld ==
  ASSUME LegacyInductive, NEW n \in Rank, step[Main(n)] = "failing", Granted(Main(n)),
         ~\E i \in Checkpoints : Frees(i)
  PROVE  HeldBy(n) = {}
  <1>1. /\ Pipelined /\ Exact /\ LegacyTypes /\ PipesFollow /\ CpuHeld
    BY DEF LegacyInductive, Pipelined
  <1>2. config \in LegacySettings /\ Checkpoints \subseteq 1 .. TotalIterations
    BY <1>1, LegacyBounds DEF LegacyTypes
  <1>3. SUFFICES ASSUME n = 0, NEW k \in Checkpoints, step[Pipe(k)] \in Holding PROVE FALSE
    BY DEF HeldBy
  <1>4. CASE step[Pipe(k)] = "staging"
    BY <1>1, <1>2, <1>3, <1>4 DEF PipesFollow
  <1>5. CASE step[Pipe(k)] = "uploading"
    <2>1. Before(queue[Cpu], Pipe(k), Main(0)) /\ IsInjective(queue[Cpu])
      BY <1>1, <1>3, <1>5 DEF CpuHeld
    <2>2. Head(queue[Cpu]) = Main(0)
      <3>1. "failing" \in RankSteps /\ "failing" \in OnCpuSteps
        BY DEF RankSteps, Early, OnCpuSteps
      <3>2. Cpu \in Requires(Main(0), "failing")
        BY <3>1, RankRequires
      <3> QED
        BY <1>3, <3>2 DEF Granted
    <2>3. Main(0) \in ToSet(queue[Cpu]) /\ queue[Cpu] \in Seq(Process)
      BY <1>1, <1>3, QueuesOf DEF OnCpuSteps
    <2>4. queue[Cpu] # <<>>
      BY <2>3 DEF ToSet
    <2> QED
      BY <2>1, <2>2, <2>3, <2>4, HeadFirst
  <1>6. CASE step[Pipe(k)] = "freeing"
    <2>1. Dram - level[0] = (IF HeldBy(0) = {} THEN 0 ELSE 1) + (IF step[Main(0)] \in Reading THEN 1 ELSE 0)
          /\ level[0] \in Int /\ Dram \in Nat
      BY <1>1, <1>3, MemoryCounts
    <2>2. k \in HeldBy(0)
      BY <1>3 DEF HeldBy
    <2>3. level[0] < Dram
      BY <2>1, <2>2
    <2> QED
      BY <1>6, <2>3 DEF Frees
  <1> QED
    BY <1>3, <1>4, <1>5, <1>6 DEF Holding

\* The machine restarts; its memory may be flushed.
LEMMA RestartKept ==
  ASSUME LegacyInductive, NEW n \in Rank, Restart(n)
  PROVE  LegacyInductive'
  <1>1. /\ step[Main(n)] = "failing" /\ Granted(Main(n)) /\ ~\E i \in Checkpoints : Frees(i)
        /\ Moves(Main(n), "reading") /\ UNCHANGED <<config, schedule, rankIteration, newest, loads>>
        /\ level' = IF schedule[rankIteration[n]].flush THEN [level EXCEPT ![n] = Dram] ELSE level
    BY DEF Restart
  <1>2. /\ step[Main(n)] \in Early /\ "reading" \in Early
        /\ "reading" \notin Reading /\ step[Main(n)] \notin Reading
    BY <1>1 DEF Early, Reading
  <1>3. CASE level' = level
    BY <1>1, <1>2, <1>3, PlainMoves
  <1>4. CASE level' = [level EXCEPT ![n] = Dram]
    <2>1. /\ Pipelined' /\ Scheduled'
          /\ \A m \in Rank : step'[Main(m)] = IF m = n THEN "reading" ELSE step[Main(m)]
          /\ \A i \in Checkpoints : step'[Pipe(i)] = step[Pipe(i)]
      BY <1>1, <1>2, RankMoves
    <2>2. HeldBy(n) = {}
      BY <1>1, NothingHeld
    <2>3. Pipelined /\ Exact /\ config' = config /\ loads' = loads /\ newest' = newest
      BY <1>1 DEF LegacyInductive
    <2>4. /\ Rank \subseteq AllRanks /\ Dram \in Nat /\ newest' \in Nat /\ newest' >= newest
          /\ level \in [AllRanks -> Int]
      BY <2>3, LegacyBounds DEF Pipelined, LegacyTypes, Exact
    <2>5. level' \in [AllRanks -> Int] /\ level'[n] = Dram /\ \A m \in Rank \ {n} : level'[m] = level[m]
      BY <1>4, <2>4
    <2>6. MemoryExact'
      <3>1. Dram - level'[n] = (IF HeldBy(n) = {} THEN 0 ELSE 1) + (IF step'[Main(n)] \in Reading THEN 1 ELSE 0)
        BY <1>2, <2>1, <2>2, <2>4, <2>5
      <3> QED
        BY <2>1, <2>3, <2>5, <3>1, RankMemory
    <2>7. LoadsRecent'
      <3>1. \A m \in Rank : step'[Main(m)] \in Reading => step[Main(m)] \in Reading
                              /\ rankIteration'[m] = rankIteration[m] /\ loads'[m] = loads[m]
        BY <1>1, <1>2, <2>1
      <3>2. Rank' = Rank /\ config' = config
        BY <2>3 DEF Rank
      <3>3. \A m \in Rank : step'[Main(m)] \in {"loading", "restoring"} =>
              /\ loads'[m] < rankIteration'[m] /\ loads'[m] <= newest'
              /\ (loads[m] >= LastDue(rankIteration[m] - 2) - config.every)'
        BY <2>3, <2>4, <3>1, <3>2, LoadsKept
      <3> QED
        BY <3>2, <3>3 DEF LoadsRecent
    <2>8. loads' \in [AllRanks -> Nat]
      BY <2>3 DEF Exact
    <2> QED
      BY <2>1, <2>5, <2>6, <2>7, <2>8 DEF LegacyInductive, Exact
  <1> QED
    BY <1>1, <1>3, <1>4

\* The store's newest checkpoint, when a rank chooses it: the other ranks have been through
\* the same all-reduces, rank 0 has staged what was due before, and the slot has let only one
\* upload be in progress.
LEMMA NewestRecent ==
  ASSUME Pipelined, NEW n \in Rank, step[Main(n)] \in Early
  PROVE  /\ newest < rankIteration[n]
         /\ newest >= LastDue(rankIteration[n] - 2) - config.every
  <1>1. /\ LegacyTypes /\ RanksInStep /\ PipesFollow /\ InTurns /\ NewestIs
    BY DEF Pipelined
  <1>2. /\ config \in LegacySettings /\ 0 \in Rank /\ Checkpoints \subseteq 1 .. TotalIterations
        /\ Rank \subseteq AllRanks /\ config.every \in Nat \ {0} /\ TotalIterations \in Nat
        /\ newest \in Nat
    BY <1>1, LegacyBounds DEF LegacyTypes
  <1> DEFINE m == rankIteration[n]
             r == rankIteration[0]
             e == config.every
  <1>3. m \in 1 .. TotalIterations /\ r \in 1 .. TotalIterations
    BY <1>1, <1>2 DEF LegacyTypes
  <1>4. /\ \/ step[Main(0)] \in Early /\ r = m
           \/ step[Main(0)] \notin Early /\ r = m - 1
    <2>1. Passed(n) = m - 1 /\ Passed(0) = Passed(n)
      BY <1>1, <1>2 DEF RanksInStep, Passed
    <2> QED
      BY <1>3, <2>1 DEF Passed
  <1>5. \A k \in Checkpoints : Behind0(k) => k < m
    <2>1. step[Main(0)] = "done" => step[Main(0)] \notin Early
      BY DEF Early
    <2> QED
      BY <1>2, <1>3, <1>4, <2>1 DEF Behind0
  <1>6. \A k \in Checkpoints : k <= m - 2 => Behind0(k)
    BY <1>2, <1>3, <1>4 DEF Behind0
  <1>7. newest < m
    <2>1. CASE newest = 0
      BY <1>3, <2>1
    <2>2. CASE newest \in Checkpoints /\ step[Pipe(newest)] \in {"freeing", "done"}
      <3>1. step[Pipe(newest)] \in Staged
        BY <2>2 DEF Staged
      <3> QED
        BY <1>1, <1>2, <1>5, <2>2, <3>1 DEF PipesFollow
    <2> QED
      BY <1>1, <2>1, <2>2 DEF NewestIs
  <1>8. newest >= LastDue(m - 2) - e
    <2>1. CASE m - 2 < 0
      BY <1>2, <2>1 DEF LastDue
    <2>2. CASE ~(m - 2 < 0)
      <3> DEFINE i == m - 2
                 d == i - (i % e)
      <3>1. i \in Nat /\ i <= TotalIterations
        BY <1>2, <1>3, <2>2
      <3>2. LastDue(m - 2) = d
        BY <2>2 DEF LastDue
      <3> HIDE DEF i
      <3>3. (i % e) \in Nat /\ (i % e) <= i /\ (d % e) = 0
        <4>1. i = (e * (i \div e)) + (i % e) /\ (i \div e) \in Nat /\ (i % e) \in 0 .. (e - 1)
          BY <1>2, <3>1, Divided
        <4>2. e * (i \div e) \in Nat
          BY <1>2, <4>1
        <4>3. (i % e) \in Nat /\ (i % e) <= i
          BY <1>2, <3>1, <4>1, <4>2
        <4>4. (d % e) = 0
          BY <1>2, <3>1, MultipleBelow
        <4> QED
          BY <4>3, <4>4
      <3>4. d \in Nat /\ d <= i
        BY <3>1, <3>3
      <3> HIDE DEF d, e
      <3>5. e \in Nat \ {0}
        BY <1>2 DEF e
      <3>6. CASE d <= e
        BY <1>2, <3>2, <3>4, <3>5, <3>6 DEF e
      <3>7. CASE d > e
        <4>1. d \in Checkpoints
          BY <1>2, <3>1, <3>3, <3>4, <3>5, <3>7 DEF Checkpoints, e
        <4>2. d - e \in Checkpoints
          <5>1. ((d - e) % e) = 0
            BY <3>3, <3>4, <3>5, <3>7, MultipleBefore
          <5> QED
            BY <1>2, <3>1, <3>4, <3>5, <3>7, <5>1 DEF Checkpoints, e
        <4>3. step[Pipe(d)] \in Staged
          <5>1. d <= m - 2
            BY <3>4 DEF i
          <5>2. Behind0(d)
            BY <1>6, <4>1, <5>1
          <5> QED
            BY <1>1, <1>2, <4>1, <5>2 DEF PipesFollow
        <4>4. step[Pipe(d - e)] = "done"
          <5>1. d - e < d
            BY <3>4, <3>5
          <5> QED
            BY <1>1, <4>1, <4>2, <4>3, <5>1 DEF InTurns, Staged, Holding
        <4>5. d - e <= newest
          BY <1>1, <4>2, <4>4 DEF NewestIs
        <4> QED
          BY <1>2, <3>2, <3>4, <3>5, <4>5 DEF e
      <3> QED
        BY <3>4, <3>5, <3>6, <3>7
    <2> QED
      BY <2>1, <2>2
  <1> QED
    BY <1>7, <1>8

\* The rank chooses a checkpoint of the store.
LEMMA ReadStoreKept ==
  ASSUME LegacyInductive, NEW n \in Rank, ReadStore(n)
  PROVE  LegacyInductive'
  <1>1. /\ step[Main(n)] = "reading" /\ Moves(Main(n), "loading")
        /\ UNCHANGED <<config, schedule, rankIteration, newest>>
        /\ loads' = [loads EXCEPT ![n] = newest] /\ level' = [level EXCEPT ![n] = level[n] - 1]
    BY DEF ReadStore
  <1>2. /\ step[Main(n)] \in Early /\ "loading" \in Early
        /\ "loading" \in Reading /\ step[Main(n)] \notin Reading
    BY <1>1 DEF Early, Reading
  <1>3. /\ Pipelined' /\ Scheduled'
        /\ \A m \in Rank : step'[Main(m)] = IF m = n THEN "loading" ELSE step[Main(m)]
        /\ \A i \in Checkpoints : step'[Pipe(i)] = step[Pipe(i)]
    BY <1>1, <1>2, RankMoves
  <1>4. Pipelined /\ Exact /\ config' = config /\ newest' = newest /\ rankIteration' = rankIteration
    BY <1>1 DEF LegacyInductive
  <1>5. /\ Rank \subseteq AllRanks /\ newest \in Nat /\ newest' >= newest
        /\ level \in [AllRanks -> Int] /\ loads \in [AllRanks -> Nat]
    BY <1>4, LegacyBounds DEF Pipelined, LegacyTypes, Exact
  <1>6. /\ level' \in [AllRanks -> Int] /\ level'[n] = level[n] - 1
        /\ loads' \in [AllRanks -> Nat] /\ loads'[n] = newest
        /\ \A m \in Rank \ {n} : level'[m] = level[m] /\ loads'[m] = loads[m]
    BY <1>1, <1>5
  <1>7. MemoryExact'
    <2>1. /\ Dram - level[n] = (IF HeldBy(n) = {} THEN 0 ELSE 1) + (IF step[Main(n)] \in Reading THEN 1 ELSE 0)
          /\ level[n] \in Int /\ Dram \in Nat
      BY <1>4, MemoryCounts
    <2>2. Dram - level'[n] = (IF HeldBy(n) = {} THEN 0 ELSE 1) + (IF step'[Main(n)] \in Reading THEN 1 ELSE 0)
      BY <1>2, <1>3, <1>6, <2>1
    <2> QED
      BY <1>3, <1>4, <1>6, <2>2, RankMemory
  <1>8. LoadsRecent'
    <2>1. Rank' = Rank
      BY <1>4 DEF Rank
    <2> DEFINE S == Rank \ {n}
    <2>2. \A m \in S : step'[Main(m)] \in Reading => step[Main(m)] \in Reading
                       /\ rankIteration'[m] = rankIteration[m] /\ loads'[m] = loads[m]
      BY <1>3, <1>4, <1>6
    <2>3. S \in SUBSET Rank
      OBVIOUS
    <2> HIDE DEF S
    <2>4. \A m \in S : step'[Main(m)] \in {"loading", "restoring"} =>
            /\ loads'[m] < rankIteration'[m] /\ loads'[m] <= newest'
            /\ (loads[m] >= LastDue(rankIteration[m] - 2) - config.every)'
      BY <1>4, <1>5, <2>2, <2>3, LoadsKept
    <2>5. newest < rankIteration[n] /\ newest >= LastDue(rankIteration[n] - 2) - config.every
      BY <1>2, <1>4, NewestRecent
    <2>6. /\ loads'[n] < rankIteration'[n] /\ loads'[n] <= newest'
          /\ (loads[n] >= LastDue(rankIteration[n] - 2) - config.every)'
      BY <1>4, <1>5, <1>6, <2>5 DEF LastDue
    <2> QED
      BY <2>1, <2>4, <2>6 DEF LoadsRecent, S
  <1> QED
    BY <1>3, <1>6, <1>7, <1>8 DEF LegacyInductive, Exact

\* The rank has restored its checkpoint.
LEMMA RestoreKept ==
  ASSUME LegacyInductive, NEW n \in Rank, Restore(n)
  PROVE  LegacyInductive'
  <1>1. /\ step[Main(n)] = "restoring" /\ Moves(Main(n), "forward")
        /\ UNCHANGED <<config, schedule, rankIteration, newest, loads>>
        /\ level' = [level EXCEPT ![n] = level[n] + 1]
    BY DEF Restore
  <1>2. /\ step[Main(n)] \in Early /\ "forward" \in Early
        /\ "forward" \notin Reading /\ step[Main(n)] \in Reading
    BY <1>1 DEF Early, Reading
  <1>3. /\ Pipelined' /\ Scheduled'
        /\ \A m \in Rank : step'[Main(m)] = IF m = n THEN "forward" ELSE step[Main(m)]
        /\ \A i \in Checkpoints : step'[Pipe(i)] = step[Pipe(i)]
    BY <1>1, <1>2, RankMoves
  <1>4. /\ Pipelined /\ Exact /\ config' = config /\ newest' = newest /\ rankIteration' = rankIteration
        /\ loads' = loads
    BY <1>1 DEF LegacyInductive
  <1>5. /\ Rank \subseteq AllRanks /\ newest' \in Nat /\ newest' >= newest
        /\ level \in [AllRanks -> Int] /\ loads' \in [AllRanks -> Nat]
    BY <1>4, LegacyBounds DEF Pipelined, LegacyTypes, Exact
  <1>6. /\ level' \in [AllRanks -> Int] /\ level'[n] = level[n] + 1
        /\ \A m \in Rank \ {n} : level'[m] = level[m]
    BY <1>1, <1>5
  <1>7. MemoryExact'
    <2>1. /\ Dram - level[n] = (IF HeldBy(n) = {} THEN 0 ELSE 1) + (IF step[Main(n)] \in Reading THEN 1 ELSE 0)
          /\ level[n] \in Int /\ Dram \in Nat
      BY <1>4, MemoryCounts
    <2>2. Dram - level'[n] = (IF HeldBy(n) = {} THEN 0 ELSE 1) + (IF step'[Main(n)] \in Reading THEN 1 ELSE 0)
      BY <1>2, <1>3, <1>6, <2>1
    <2> QED
      BY <1>3, <1>4, <1>6, <2>2, RankMemory
  <1>8. LoadsRecent'
    <2>1. Rank' = Rank
      BY <1>4 DEF Rank
    <2>2. \A m \in Rank : step'[Main(m)] \in Reading => step[Main(m)] \in Reading
                          /\ rankIteration'[m] = rankIteration[m] /\ loads'[m] = loads[m]
      BY <1>2, <1>3, <1>4
    <2>3. \A m \in Rank : step'[Main(m)] \in {"loading", "restoring"} =>
            /\ loads'[m] < rankIteration'[m] /\ loads'[m] <= newest'
            /\ (loads[m] >= LastDue(rankIteration[m] - 2) - config.every)'
      BY <1>4, <1>5, <2>2, LoadsKept
    <2> QED
      BY <2>1, <2>3 DEF LoadsRecent
  <1> QED
    BY <1>3, <1>5, <1>6, <1>7, <1>8 DEF LegacyInductive, Exact

\* A rank ends its iteration without a checkpoint to take.
LEMMA EndKept ==
  ASSUME LegacyInductive, NEW n \in Rank, Optimize(n), ~(n = 0 /\ rankIteration[n] \in Checkpoints)
  PROVE  LegacyInductive'
  <1> DEFINE next == NextStep(n)
  <1>1. /\ step[Main(n)] = "optimizer" /\ Moves(Main(n), next) /\ NextIteration(n)
        /\ UNCHANGED <<config, schedule, level, newest, loads>>
    BY DEF Optimize
  <1>2. Pipelined /\ Exact /\ LegacyTypes /\ UNCHANGED <<config, newest>>
    BY <1>1 DEF LegacyInductive, Pipelined
  <1>3. /\ config \in LegacySettings /\ 0 \in Rank /\ Rank \subseteq AllRanks /\ TotalIterations \in Nat
        /\ Checkpoints \subseteq 1 .. TotalIterations /\ newest \in Nat
    BY <1>2, LegacyBounds DEF LegacyTypes
  <1>4. /\ rankIteration' \in [AllRanks -> 1 .. TotalIterations]
        /\ \A m \in Rank \ {n} : rankIteration'[m] = rankIteration[m]
        /\ rankIteration[n] \in 1 .. TotalIterations
        /\ \/ next = "forward" /\ rankIteration[n] < TotalIterations /\ rankIteration'[n] = rankIteration[n] + 1
           \/ next = "done" /\ rankIteration'[n] = rankIteration[n]
    BY <1>1, <1>2, <1>3 DEF NextIteration, NextStep, LegacyTypes
  <1> HIDE DEF next
  <1>5. /\ next \in RankSteps /\ next # "captured" /\ next \notin Exchanging /\ next \notin Reading
        /\ step[Main(n)] # "captured" /\ step[Main(n)] \notin Exchanging /\ step[Main(n)] \notin Reading
        /\ step[Main(n)] \notin Early /\ step[Main(n)] # "done"
    BY <1>1, <1>4 DEF RankSteps, Early, Late, Exchanging, Reading
  <1>6. (IF next \in Early THEN rankIteration'[n] - 1 ELSE rankIteration'[n]) = Passed(n)
    BY <1>4, <1>5 DEF Passed, Early
  <1>7. n = 0 => \A i \in Checkpoints :
                   (i < rankIteration'[0] \/ (i = rankIteration'[0] /\ next = "done")) <=> Behind0(i)
    BY <1>3, <1>4, <1>5 DEF Behind0
  <1>8. /\ Pipelined'
        /\ \A m \in Rank : step'[Main(m)] = IF m = n THEN next ELSE step[Main(m)]
        /\ \A i \in Checkpoints : step'[Pipe(i)] = step[Pipe(i)]
    BY <1>1, <1>2, <1>4, <1>5, <1>6, <1>7, RankKept
  <1>9. newest' \in Nat /\ newest' >= newest
    BY <1>2, <1>3
  <1>10. Exact'
    BY <1>1, <1>2, <1>4, <1>5, <1>8, <1>9, ExactKept
  <1>11. Scheduled'
    BY <1>1 DEF LegacyInductive, Scheduled, Schedules
  <1> QED
    BY <1>8, <1>10, <1>11 DEF LegacyInductive

\* The same with a checkpoint, and the end of its staging.
LEMMA CaptureExact ==
  ASSUME LegacyInductive, Optimize(0), rankIteration[0] \in Checkpoints
  PROVE  LegacyInductive'
  <1>1. Pipelined /\ Exact /\ UNCHANGED <<config, schedule, level, newest, loads>>
    BY DEF LegacyInductive, Optimize
  <1>2. /\ Pipelined'
        /\ \A m \in Rank : step'[Main(m)] = IF m = 0 THEN "captured" ELSE step[Main(m)]
        /\ \A k \in Checkpoints : step'[Pipe(k)] = IF k = rankIteration[0] THEN "waiting" ELSE step[Pipe(k)]
        /\ step[Main(0)] = "optimizer" /\ step[Pipe(rankIteration[0])] = "none"
        /\ rankIteration' = rankIteration
    BY <1>1, CaptureKept
  <1>3. newest' \in Nat /\ newest' >= newest
    BY <1>1 DEF Pipelined, LegacyTypes
  <1>4. \A i \in Checkpoints : step'[Pipe(i)] \in Holding <=> step[Pipe(i)] \in Holding
    BY <1>2 DEF Holding
  <1>5. \A m \in Rank : /\ step'[Main(m)] \in Reading <=> step[Main(m)] \in Reading
                        /\ step'[Main(m)] \in Reading => rankIteration'[m] = rankIteration[m]
    BY <1>2 DEF Reading
  <1>6. Exact'
    BY <1>1, <1>3, <1>4, <1>5, ExactKept
  <1>7. Scheduled'
    BY <1>1 DEF LegacyInductive, Scheduled, Schedules
  <1> QED
    BY <1>2, <1>6, <1>7 DEF LegacyInductive

\* The checkpoint of rank 0 is staged.
LEMMA StageExact ==
  ASSUME LegacyInductive, NEW i \in Checkpoints, Stage(i)
  PROVE  LegacyInductive'
  <1>1. Pipelined /\ Exact /\ UNCHANGED <<config, schedule, level, newest, loads>> /\ step[Pipe(i)] = "staging"
    BY DEF LegacyInductive, Stage
  <1>2. /\ Pipelined'
        /\ \A m \in Rank : step'[Main(m)] = IF m = 0 THEN NextStep(0) ELSE step[Main(m)]
        /\ \A k \in Checkpoints : step'[Pipe(k)] = IF k = i THEN "uploading" ELSE step[Pipe(k)]
        /\ NextStep(0) \in {"forward", "done"} /\ step[Main(0)] = "captured"
        /\ \A m \in Rank \ {0} : rankIteration'[m] = rankIteration[m]
    BY <1>1, StageKept
  <1>3. newest' \in Nat /\ newest' >= newest
    BY <1>1 DEF Pipelined, LegacyTypes
  <1>4. \A k \in Checkpoints : step'[Pipe(k)] \in Holding <=> step[Pipe(k)] \in Holding
    BY <1>1, <1>2 DEF Holding
  <1>5. \A m \in Rank : /\ step'[Main(m)] \in Reading <=> step[Main(m)] \in Reading
                        /\ step'[Main(m)] \in Reading => rankIteration'[m] = rankIteration[m]
    BY <1>2 DEF Reading
  <1>6. Exact'
    BY <1>1, <1>3, <1>4, <1>5, ExactKept
  <1>7. Scheduled'
    BY <1>1 DEF LegacyInductive, Scheduled, Schedules
  <1> QED
    BY <1>2, <1>6, <1>7 DEF LegacyInductive

\* The ranks go on together.
LEMMA BarrierKept ==
  ASSUME LegacyInductive, Synchronize \/ NextExchange
  PROVE  LegacyInductive'
  <1>1. /\ Pipelined /\ Exact /\ UNCHANGED <<config, schedule, rankIteration, level, newest, loads>>
    BY DEF LegacyInductive, Synchronize, NextExchange
  <1>2. PICK next \in Exchanging \cup {"optimizer"} : Together(next)
    BY DEF Synchronize, NextExchange, Exchanging
  <1>3. \/ \A m \in Rank : step[Main(m)] = "arrived"
        \/ \A m \in Rank : step[Main(m)] = "sent"
    BY DEF Synchronize, NextExchange
  <1>4. /\ Pipelined'
        /\ \A m \in Rank : step'[Main(m)] = next
        /\ \A i \in Checkpoints : step'[Pipe(i)] = step[Pipe(i)]
    BY <1>1, <1>2, <1>3, TogetherKept
  <1>5. \A m \in Rank : step'[Main(m)] \notin Reading /\ step[Main(m)] \notin Reading
    BY <1>3, <1>4 DEF Reading, Exchanging
  <1>6. newest' \in Nat /\ newest' >= newest
    BY <1>1 DEF Pipelined, LegacyTypes
  <1>7. Exact'
    BY <1>1, <1>4, <1>5, <1>6, ExactKept
  <1>8. Scheduled'
    BY <1>1 DEF LegacyInductive, Scheduled, Schedules
  <1> QED
    BY <1>4, <1>7, <1>8 DEF LegacyInductive

\* The memory of machine 0 after a step of a pipeline.
LEMMA PipeMemory ==
  ASSUME Pipelined, Exact, config' = config, NEW i \in Checkpoints, NEW held \in SUBSET {i},
         \A k \in Checkpoints : step'[Pipe(k)] \in Holding <=> k \in held,
         \A m \in Rank : step'[Main(m)] = step[Main(m)],
         \A m \in Rank \ {0} : level'[m] = level[m],
         Dram - level'[0] = (IF held = {} THEN 0 ELSE 1) + (IF step[Main(0)] \in Reading THEN 1 ELSE 0)
  PROVE  MemoryExact'
  <1>1. Rank' = Rank /\ Checkpoints' = Checkpoints
    BY DEF Rank, Checkpoints
  <1>2. \A m \in Rank : m # 0 =>
          Dram - level'[m] =
            Cardinality({k \in Checkpoints : m = 0 /\ step'[Pipe(k)] \in {"staging", "uploading", "freeing"}})
            + (IF step'[Main(m)] \in {"loading", "restoring"} THEN 1 ELSE 0)
    <2>1. ASSUME NEW m \in Rank, m # 0
          PROVE  {k \in Checkpoints : m = 0 /\ step'[Pipe(k)] \in {"staging", "uploading", "freeing"}} =
                 {k \in Checkpoints : m = 0 /\ step[Pipe(k)] \in {"staging", "uploading", "freeing"}}
      BY <2>1
    <2> QED
      BY <2>1 DEF Exact, MemoryExact
  <1>3. Dram - level'[0] =
            Cardinality({k \in Checkpoints : 0 = 0 /\ step'[Pipe(k)] \in {"staging", "uploading", "freeing"}})
            + (IF step'[Main(0)] \in {"loading", "restoring"} THEN 1 ELSE 0)
    <2>1. {k \in Checkpoints : 0 = 0 /\ step'[Pipe(k)] \in {"staging", "uploading", "freeing"}} = held
      BY DEF Holding
    <2>2. Cardinality(held) = IF held = {} THEN 0 ELSE 1
      BY HeldCount
    <2>3. 0 \in Rank
      BY LegacyBounds DEF Pipelined, LegacyTypes
    <2> QED
      BY <2>1, <2>2, <2>3 DEF Reading
  <1> QED
    BY <1>1, <1>2, <1>3 DEF MemoryExact

\* The steps of a pipeline.
LEMMA PipelineKept ==
  ASSUME LegacyInductive, NEW i \in Checkpoints, Reserve(i) \/ PutCheckpoint(i) \/ Free(i)
  PROVE  LegacyInductive'
  <1>1. /\ Pipelined /\ Exact /\ UNCHANGED <<config, schedule, rankIteration, loads>>
    BY DEF LegacyInductive, Reserve, PutCheckpoint, Free
  <1>2. Scheduled'
    BY <1>1 DEF LegacyInductive, Scheduled, Schedules
  <1>3. /\ config \in LegacySettings /\ newest \in Nat /\ level \in [AllRanks -> Int] /\ loads \in [AllRanks -> Nat]
    BY <1>1 DEF Pipelined, LegacyTypes, Exact
  <1>4. 0 \in Rank /\ Rank \subseteq AllRanks /\ i \in Nat
    BY <1>3, LegacyBounds
  <1>5. /\ Dram - level[0] = (IF HeldBy(0) = {} THEN 0 ELSE 1) + (IF step[Main(0)] \in Reading THEN 1 ELSE 0)
        /\ level[0] \in Int /\ Dram \in Nat
    BY <1>1, <1>4, MemoryCounts
  <1>6. Rank' = Rank
    BY <1>1 DEF Rank
  <1>7. ASSUME \A m \in Rank : step'[Main(m)] = step[Main(m)], newest' = newest
        PROVE  LoadsRecent'
    <2>1. \A m \in Rank : step'[Main(m)] \in Reading => step[Main(m)] \in Reading
                          /\ rankIteration'[m] = rankIteration[m] /\ loads'[m] = loads[m]
      BY <1>1, <1>7
    <2>2. \A m \in Rank : step'[Main(m)] \in {"loading", "restoring"} =>
            /\ loads'[m] < rankIteration'[m] /\ loads'[m] <= newest'
            /\ (loads[m] >= LastDue(rankIteration[m] - 2) - config.every)'
      BY <1>1, <1>3, <1>7, <2>1, LoadsKept
    <2> QED
      BY <1>6, <2>2 DEF LoadsRecent
  <1>8. CASE Reserve(i)
    <2>1. /\ step[Pipe(i)] = "waiting" /\ Granted(Pipe(i)) /\ Moves(Pipe(i), "staging") /\ newest' = newest
          /\ level' = [level EXCEPT ![0] = level[0] - 1]
      BY <1>8 DEF Reserve
    <2>2. /\ Pipelined'
          /\ \A m \in Rank : step'[Main(m)] = step[Main(m)]
          /\ \A k \in Checkpoints : step'[Pipe(k)] = IF k = i THEN "staging" ELSE step[Pipe(k)]
      BY <1>1, <2>1, PipeKept
    <2>3. \A k \in Checkpoints : step[Pipe(k)] \notin Holding
      BY <1>1, <2>1, HeldOne DEF Holding
    <2>4. HeldBy(0) = {}
      BY <2>3 DEF HeldBy
    <2>5. /\ level' \in [AllRanks -> Int] /\ level'[0] = level[0] - 1
          /\ \A m \in Rank \ {0} : level'[m] = level[m]
      BY <1>3, <1>4, <2>1
    <2>6. \A k \in Checkpoints : step'[Pipe(k)] \in Holding <=> k \in {i}
      BY <2>2, <2>3 DEF Holding
    <2>7. Dram - level'[0] = (IF {i} = {} THEN 0 ELSE 1) + (IF step[Main(0)] \in Reading THEN 1 ELSE 0)
      BY <1>5, <2>4, <2>5
    <2>8. MemoryExact'
      BY <1>1, <2>2, <2>5, <2>6, <2>7, PipeMemory
    <2> QED
      BY <1>1, <1>2, <1>3, <1>7, <2>1, <2>2, <2>5, <2>8 DEF LegacyInductive, Exact
  <1>9. CASE PutCheckpoint(i)
    <2>1. /\ step[Pipe(i)] = "uploading" /\ Moves(Pipe(i), "freeing") /\ level' = level
          /\ newest' = IF i < newest THEN newest ELSE i
      BY <1>9 DEF PutCheckpoint
    <2>2. /\ Pipelined'
          /\ \A m \in Rank : step'[Main(m)] = step[Main(m)]
          /\ \A k \in Checkpoints : step'[Pipe(k)] = IF k = i THEN "freeing" ELSE step[Pipe(k)]
      BY <1>1, <2>1, PipeKept
    <2>3. newest' \in Nat /\ newest' >= newest
      BY <1>3, <1>4, <2>1
    <2>4. \A k \in Checkpoints : step'[Pipe(k)] \in Holding <=> step[Pipe(k)] \in Holding
      BY <2>1, <2>2 DEF Holding
    <2>5. \A m \in Rank : /\ step'[Main(m)] \in Reading <=> step[Main(m)] \in Reading
                          /\ step'[Main(m)] \in Reading => rankIteration'[m] = rankIteration[m]
      BY <1>1, <2>2
    <2>6. Exact'
      BY <1>1, <2>1, <2>3, <2>4, <2>5, ExactKept
    <2> QED
      BY <1>2, <2>2, <2>6 DEF LegacyInductive
  <1>10. CASE Free(i)
    <2>1. /\ step[Pipe(i)] = "freeing" /\ Moves(Pipe(i), "done") /\ newest' = newest
          /\ level' = [level EXCEPT ![0] = level[0] + 1]
      BY <1>10 DEF Free, Frees
    <2>2. /\ Pipelined'
          /\ \A m \in Rank : step'[Main(m)] = step[Main(m)]
          /\ \A k \in Checkpoints : step'[Pipe(k)] = IF k = i THEN "done" ELSE step[Pipe(k)]
      BY <1>1, <2>1, PipeKept
    <2>3. step[Pipe(i)] \in Holding /\ \A k \in Checkpoints : step[Pipe(k)] \in Holding => k = i
      BY <1>1, <2>1, HeldOne DEF Holding
    <2>4. HeldBy(0) # {}
      BY <2>3 DEF HeldBy
    <2>5. /\ level' \in [AllRanks -> Int] /\ level'[0] = level[0] + 1
          /\ \A m \in Rank \ {0} : level'[m] = level[m]
      BY <1>3, <1>4, <2>1
    <2> DEFINE held == {}
    <2>0. held \in SUBSET {i}
      OBVIOUS
    <2>6. \A k \in Checkpoints : step'[Pipe(k)] \in Holding <=> k \in held
      BY <2>2, <2>3 DEF Holding
    <2>7. Dram - level'[0] = (IF held = {} THEN 0 ELSE 1) + (IF step[Main(0)] \in Reading THEN 1 ELSE 0)
      BY <1>5, <2>4, <2>5
    <2> HIDE DEF held
    <2>8. MemoryExact'
      BY <1>1, <2>0, <2>2, <2>5, <2>6, <2>7, PipeMemory
    <2> QED
      BY <1>1, <1>2, <1>3, <1>7, <2>1, <2>2, <2>5, <2>8 DEF LegacyInductive, Exact
  <1> QED
    BY <1>8, <1>9, <1>10

\* The initial states.
LEMMA LegacyStarts ==
  ASSUME LegacyInit
  PROVE  LegacyInductive
  <1>1. /\ config \in LegacySettings /\ schedule \in Schedules(config.world)
        /\ newest = 0
    BY DEF LegacyInit
  <1>2. /\ Dram \in Nat /\ TotalIterations \in Nat /\ TotalIterations >= 1
        /\ Rank \subseteq AllRanks /\ 0 \in Rank /\ Rank \subseteq Nat
        /\ Checkpoints \subseteq 1 .. TotalIterations
        /\ \A i \in Checkpoints : i \in Nat /\ i >= 1
        /\ \A n \in Rank : Main(n) \in Process
        /\ \A i \in 1 .. TotalIterations : Pipe(i) \in Process
        /\ Slot \in Resource /\ Cpu \in Resource
    BY <1>1, LegacyBounds
  <1>3. /\ DOMAIN step = Process
        /\ \A n \in Rank : step[Main(n)] = "forward"
        /\ \A i \in 1 .. TotalIterations : step[Pipe(i)] = "none"
    BY <1>2, ProcessesDiffer DEF LegacyInit
  <1>4. rankIteration = [n \in AllRanks |-> 1] /\ \A n \in Rank : rankIteration[n] = 1
    BY <1>2 DEF LegacyInit
  <1>5. DOMAIN queue = Resource /\ queue[Slot] = <<>> /\ queue[Cpu] = <<>>
    <2>1. Slot \notin {"gpu"} \X Rank /\ Cpu \notin {"gpu"} \X Rank
      BY DEF Slot, Cpu
    <2> QED
      BY <1>2, <2>1 DEF LegacyInit
  <1>6. /\ level \in [AllRanks -> Int] /\ \A n \in Rank : level[n] = Dram
        /\ loads \in [AllRanks -> Nat]
    BY <1>2 DEF LegacyInit
  <1>7. ToSet(<<>>) = {} /\ IsInjective(<<>>) /\ <<>> \in Seq(Process)
    BY DEF ToSet, IsInjective
  <1>8. \A i \in Checkpoints : step[Pipe(i)] = "none"
    BY <1>2, <1>3
  <1>9. LegacyTypes
    BY <1>1, <1>2, <1>3, <1>4, <1>5, <1>7 DEF LegacyTypes, RankSteps, Early, PipeSteps
  <1>10. RanksInStep
    BY <1>3, <1>4 DEF RanksInStep, Passed, Early, Exchanging
  <1>11. PipesFollow
    <2>1. \A i \in 1 .. TotalIterations : ~Behind0(i)
      BY <1>2, <1>3, <1>4 DEF Behind0
    <2> QED
      BY <1>3, <2>1 DEF PipesFollow, Staged
  <1>12. SlotHeld /\ InTurns /\ NewestIs
    BY <1>1, <1>5, <1>7, <1>8 DEF SlotHeld, InTurns, NewestIs, Holding
  <1>13. CpuHeld
    BY <1>2, <1>3, <1>5, <1>7, <1>8 DEF CpuHeld, Copying, OnCpuSteps
  <1>14. MemoryExact
    <2>1. \A n \in Rank : {i \in Checkpoints : n = 0 /\ step[Pipe(i)] \in {"staging", "uploading", "freeing"}} = {}
      BY <1>8
    <2> QED
      BY <1>2, <1>3, <1>6, <2>1, FS_EmptySet DEF MemoryExact
  <1>15. LoadsRecent
    BY <1>3 DEF LoadsRecent
  <1> QED
    BY <1>1, <1>6, <1>9, <1>10, <1>11, <1>12, <1>13, <1>14, <1>15
       DEF LegacyInductive, Pipelined, Exact, Scheduled

\* The invariant of the legacy simulation: the ranks are in step, the pipelines follow rank 0
\* one at a time through the slot, and what they and the recoveries hold is what is missing.
THEOREM LegacyInvariance == LegacySpec => []LegacyInductive
  <1>1. LegacyInit => LegacyInductive
    BY LegacyStarts
  <1>2. LegacyInductive /\ [LegacyNext]_legacyVars => LegacyInductive'
    <2> SUFFICES ASSUME LegacyInductive, [LegacyNext]_legacyVars PROVE LegacyInductive'
      OBVIOUS
    <2>1. CASE \E n \in Rank : ComputeStage(n) \/ Interrupt(n) \/ Load(n) \/ Exchange(n)
      BY <2>1, ComputeKept
    <2>2. CASE \E n \in Rank : Restart(n)
      BY <2>2, RestartKept
    <2>3. CASE \E n \in Rank : ReadStore(n)
      BY <2>3, ReadStoreKept
    <2>4. CASE \E n \in Rank : Restore(n)
      BY <2>4, RestoreKept
    <2>5. CASE \E n \in Rank : Optimize(n)
      <3>1. PICK n \in Rank : Optimize(n)
        BY <2>5
      <3>2. CASE n = 0 /\ rankIteration[n] \in Checkpoints
        BY <3>1, <3>2, CaptureExact
      <3>3. CASE ~(n = 0 /\ rankIteration[n] \in Checkpoints)
        BY <3>1, <3>3, EndKept
      <3> QED
        BY <3>2, <3>3
    <2>6. CASE Synchronize \/ NextExchange
      BY <2>6, BarrierKept
    <2>7. CASE \E i \in Checkpoints : Reserve(i) \/ PutCheckpoint(i) \/ Free(i)
      BY <2>7, PipelineKept
    <2>8. CASE \E i \in Checkpoints : Stage(i)
      BY <2>8, StageExact
    <2>9. CASE UNCHANGED legacyVars
      BY <2>9 DEF legacyVars, LegacyInductive, Pipelined, Exact, Scheduled, Schedules, LegacyTypes, RanksInStep, Passed,
                  PipesFollow, Behind0, SlotHeld, InTurns, CpuHeld, NewestIs, MemoryExact, LoadsRecent, LastDue,
                  Rank, Checkpoints
    <2> QED
      BY <2>1, <2>2, <2>3, <2>4, <2>5, <2>6, <2>7, <2>8, <2>9 DEF LegacyNext
  <1> QED
    BY <1>1, <1>2, PTL DEF LegacySpec

\* What the flush of a failure may free, and what a rank recovers (checkpoint_pipeline,
\* recover_from_object_store).
THEOREM LegacyRecoversRecent == LegacySpec => []RecoversRecent
  <1>1. LegacyInductive => RecoversRecent
    BY DEF LegacyInductive, Exact, RecoversRecent
  <1> QED
    BY <1>1, LegacyInvariance, PTL
=============================================================================

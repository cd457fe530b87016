----------------------- MODULE TieredCheckpointProofs -----------------------
(***************************************************************************)
(* Proofs about TieredCheckpoint, for any number of ranks, any pairing,    *)
(* any mode and any number of iterations and failures; and about           *)
(* EventKernel, for any processes, events and delays.                      *)
(***************************************************************************)
EXTENDS TieredCheckpoint, EventKernel, DataLemmas

-----------------------------------------------------------------------------
(***************************************************************************)
(* Type correctness.                                                       *)
(***************************************************************************)

\* The part of the assumption that type correctness rests on.
LEMMA IterationsType == Iterations \in Nat \ {0} /\ CheckpointEvery \in Nat \ {0}
  BY TieredAssumption DEF TieredAssumption

\* The initial state is well typed.
LEMMA TypeInit == Init => TypeOK
  BY IterationsType DEF Init, TypeOK, Stage, RecoveryStep, NoCopy

\* Stages follow one another within Stage.
LEMMA NextStageType ==
  ASSUME NEW p \in Place PROVE NextStage(p) \in Stage
  BY DEF NextStage, AfterPersist, Stage, Place, LocalPlace, PeerPlace

\* Registering a copy keeps the table of copies well typed.
LEMMA PutCopyType ==
  ASSUME TypeOK, NEW w \in Worker, NEW p \in Place, NEW i \in 0 .. Iterations,
         PutCopy(w, p, i)
  PROVE  copies' \in [Worker -> [Place -> {NoCopy} \cup 0 .. Iterations]]
  BY DEF TypeOK, PutCopy

\* Every step keeps each variable within its type.
LEMMA TypeStep == TypeOK /\ [Next]_vars => TypeOK'
  <1> SUFFICES ASSUME TypeOK, [Next]_vars PROVE TypeOK'
    OBVIOUS
  <1> USE IterationsType DEF ckptVars, recoveryVars, failVars, history, trainVars
  <1>1. CASE EndIteration
    <2>1. CASE NextIteration
      BY <1>1, <2>1 DEF TypeOK, EndIteration, NextIteration
    <2>2. CASE trainer' = "save" /\ UNCHANGED <<iteration, done>>
      BY <1>1, <2>2 DEF TypeOK, EndIteration
    <2> QED
      BY <1>1, <2>1, <2>2 DEF EndIteration
  <1>2. CASE Launch
    BY <1>2 DEF TypeOK, Launch
  <1>3. CASE Resume
    BY <1>3 DEF TypeOK, Resume, NextIteration
  <1>4. CASE Finish
    BY <1>4 DEF TypeOK, Finish
  <1>5. ASSUME NEW w \in Worker, FinishWork(w) PROVE TypeOK'
    BY <1>5 DEF TypeOK, FinishWork
  <1>6. ASSUME NEW w \in Worker, AcquireLock(w) PROVE TypeOK'
    BY <1>6 DEF TypeOK, AcquireLock, Stage
  <1>7. ASSUME NEW w \in Worker, BeginCapture(w) PROVE TypeOK'
    BY <1>7 DEF TypeOK, BeginCapture, Stage
  <1>8. ASSUME NEW w \in Worker, NEW s \in Stage, MoveTo(w, s) PROVE TypeOK'
    BY <1>8 DEF TypeOK, MoveTo
  <1>9. ASSUME NEW w \in Worker, Granted(w) PROVE TypeOK'
    BY <1>9, <1>8 DEF Granted, Stage, Place, LocalPlace
  <1>10. ASSUME NEW w \in Worker, CleanupEnds(w) PROVE TypeOK'
    BY <1>10, <1>8 DEF CleanupEnds, Stage
  <1>11. ASSUME NEW w \in Worker, NEW p \in Place, StageCompletes(w, p) PROVE TypeOK'
    <2>1. copies' \in [Worker -> [Place -> {NoCopy} \cup 0 .. Iterations]]
      BY <1>11, PutCopyType DEF StageCompletes, TypeOK
    <2>2. Configured \subseteq Place
      BY DEF Configured, Place, LocalPlace, PeerPlace
    <2>3. /\ acked' \in [Worker -> 0 .. Iterations]
          /\ surviving' \in [Worker -> SUBSET Place]
      <3>1. CASE NextStage(p) = AfterPersist
        <4>1. acked' = [acked EXCEPT ![w] = saving[w]]
          BY <1>11, <3>1 DEF StageCompletes
        <4>2. surviving' = [surviving EXCEPT ![w] = Configured]
          BY <1>11, <3>1 DEF StageCompletes
        <4> QED
          BY <4>1, <4>2, <2>2 DEF TypeOK
      <3>2. CASE NextStage(p) # AfterPersist
        BY <1>11, <3>2 DEF StageCompletes, TypeOK
      <3> QED
        BY <3>1, <3>2
    <2>4. stage' \in [Worker -> Stage]
      BY <1>11, NextStageType DEF StageCompletes, TypeOK
    <2>5. /\ staged' \in [Worker -> 0 .. Iterations]
          /\ watchedPeer' \in [Worker -> Nat]
      <3>1. Partner[w] \in Worker
        BY TieredAssumption DEF TieredAssumption
      <3> QED
        BY <1>11, <3>1 DEF StageCompletes, TypeOK
    <2> QED
      BY <1>11, <2>1, <2>3, <2>4, <2>5 DEF TypeOK, StageCompletes
  <1>12. ASSUME NEW w \in Worker, NEW p \in Place, StageAborts(w, p) PROVE TypeOK'
    BY <1>12, <1>8 DEF StageAborts, Stage
  <1>13. ASSUME NEW w \in Worker, NEW t \in FailureType, Fail(w, t) PROVE TypeOK'
    <2>1. copies' \in [Worker -> [Place -> {NoCopy} \cup 0 .. Iterations]]
      BY <1>13 DEF Fail, TypeOK
    <2>2. recovery' \in [Worker -> RecoveryStep]
      BY <1>13 DEF Fail, TypeOK, RecoveryStep
    <2> QED
      BY <1>13, <2>1, <2>2 DEF TypeOK, Fail
  <1>14. ASSUME NEW w \in Worker, CallRecover(w) PROVE TypeOK'
    <2>1. recovery' \in [Worker -> RecoveryStep]
      BY <1>14 DEF TypeOK, CallRecover, RecoveryStep
    <2>2. source' \in [Worker -> 0 .. Iterations]
      BY <1>14 DEF TypeOK, CallRecover, IsLatest, Candidates
    <2> QED
      BY <1>14, <2>1, <2>2 DEF TypeOK, CallRecover
  <1>15. ASSUME NEW w \in Worker, FetchEnds(w) PROVE TypeOK'
    <2>1. copies' \in [Worker -> [Place -> {NoCopy} \cup 0 .. Iterations]]
      BY <1>15, PutCopyType DEF FetchEnds, TypeOK, Place, LocalPlace
    <2> QED
      BY <1>15, <2>1 DEF TypeOK, FetchEnds, RecoveryStep
  <1>16. ASSUME NEW w \in Worker, RestoreEnds(w) PROVE TypeOK'
    BY <1>16 DEF TypeOK, RestoreEnds, RecoveryStep
  <1>17. ASSUME NEW w \in Worker, BackInService(w) PROVE TypeOK'
    BY <1>17 DEF TypeOK, BackInService, RecoveryStep
  <1>18. ASSUME NEW w \in Worker, RecoverAgain(w) PROVE TypeOK'
    BY <1>18 DEF TypeOK, RecoverAgain, RecoveryStep
  <1>19. CASE UNCHANGED vars
    BY <1>19 DEF TypeOK, vars
  <1> QED
    BY <1>1, <1>2, <1>3, <1>4, <1>5, <1>6, <1>7, <1>9, <1>10, <1>11, <1>12,
       <1>13, <1>14, <1>15, <1>16, <1>17, <1>18, <1>19 DEF Next

\* Every variable keeps its type in every behaviour of the system.
THEOREM TypeCorrect == Spec => []TypeOK
  BY TypeInit, TypeStep, PTL DEF Spec

-----------------------------------------------------------------------------
(***************************************************************************)
(* What the operations on the table of copies do.                          *)
(***************************************************************************)

\* The facts about constants and places that the steps below rest on.
LEMMA Constants ==
  /\ \A w \in Worker : Partner[w] \in Worker /\ Partner[Partner[w]] = w
  /\ \A w \in Worker : \A p \in Place : Holder(w, p) \in Worker
  /\ Configured \subseteq Place
  /\ LocalPlace \subseteq Place /\ PeerPlace \subseteq Place
  /\ LocalPlace \cap PeerPlace = {}
  BY TieredAssumption DEF TieredAssumption, Configured, Holder, Place, LocalPlace, PeerPlace

\* What TypeOK says of the numbers.
LEMMA Numbers ==
  ASSUME TypeOK
  PROVE  /\ iteration \in Nat /\ launched \in Nat /\ Iterations \in Nat
         /\ \A w \in Worker :
              /\ saving[w] \in 0 .. Iterations /\ acked[w] \in 0 .. Iterations
              /\ source[w] \in 0 .. Iterations
              /\ generation[w] \in Nat /\ watched[w] \in Nat
              /\ watchedPeer[w] \in Nat /\ called[w] \in Nat
              /\ \A p \in Place : copies[w][p] \in {NoCopy} \cup 0 .. Iterations
  BY IterationsType DEF TypeOK

\* _put_copy never lowers a copy, and leaves the place it fills at least as
\* new as the copy it is given.
LEMMA PutCopyGrows ==
  ASSUME TypeOK, NEW w \in Worker, NEW p \in Place, NEW i \in 0 .. Iterations,
         i <= iteration, PutCopy(w, p, i),
         \A o \in Worker : \A q \in Place : copies[o][q] <= iteration
  PROVE  /\ \A o \in Worker : \A q \in Place : copies'[o][q] >= copies[o][q]
         /\ copies'[w][p] >= i
         /\ \A o \in Worker : \A q \in Place : copies'[o][q] <= iteration
  <1>1. copies \in [Worker -> [Place -> {NoCopy} \cup 0 .. Iterations]]
    BY DEF TypeOK
  <1>2. iteration \in Nat /\ Iterations \in Nat
    BY IterationsType DEF TypeOK
  <1>3. CASE copies[w][p] <= i
    BY <1>1, <1>2, <1>3 DEF PutCopy, NoCopy
  <1>4. CASE ~(copies[w][p] <= i)
    BY <1>1, <1>2, <1>4 DEF PutCopy, NoCopy
  <1> QED
    BY <1>3, <1>4

\* handle_failure removes exactly the copies the failed rank held.
LEMMA FailWipes ==
  ASSUME TypeOK, NEW w \in Worker, NEW t \in FailureType, Fail(w, t)
  PROVE  /\ \A o \in Worker : \A p \in Place :
               \/ copies'[o][p] = copies[o][p]
               \/ copies'[o][p] = NoCopy /\ Holder(o, p) = w /\ p \notin surviving'[o]
         /\ \A o \in Worker : surviving'[o] \subseteq surviving[o]
  BY DEF TypeOK, Fail

\* The generation of the failed rank grows and no other changes.
LEMMA FailGeneration ==
  ASSUME TypeOK, NEW w \in Worker, NEW t \in FailureType, Fail(w, t)
  PROVE  /\ generation' = [generation EXCEPT ![w] = generation[w] + 1]
         /\ generation'[w] > generation[w]
         /\ \A v \in Worker : generation'[v] >= generation[v]
  BY DEF TypeOK, Fail

\* The iteration only grows.
LEMMA IterationGrows ==
  ASSUME TypeOK, [Next]_vars PROVE iteration' >= iteration
  <1> USE DEF trainVars
  <1>1. CASE EndIteration
    <2>1. CASE NextIteration
      BY <2>1 DEF TypeOK, NextIteration
    <2> QED
      BY <1>1, <2>1 DEF TypeOK, EndIteration
  <1>2. CASE Resume
    BY <1>2 DEF TypeOK, Resume, NextIteration
  <1>3. CASE ~EndIteration /\ ~Resume
    BY <1>3 DEF TypeOK, Next, vars, Launch, Finish, FinishWork, AcquireLock, BeginCapture,
        Granted, MoveTo, CleanupEnds, StageCompletes, StageAborts, Fail, CallRecover,
        FetchEnds, RestoreEnds, BackInService, RecoverAgain
  <1> QED
    BY <1>1, <1>2, <1>3

-----------------------------------------------------------------------------
(***************************************************************************)
(* The inductive invariant, one conjunct at a time.                        *)
(***************************************************************************)

\* The initial state satisfies the inductive invariant.
LEMMA InductiveInit == Init => Inductive
  <1> SUFFICES ASSUME Init PROVE Inductive
    OBVIOUS
  <1>1. TypeOK
    BY TypeInit
  <1>2. Captured /\ Ordered
    BY Constants DEF Init, Captured, Ordered, NoCopy
  <1>3. OneRecovery
    BY DEF Init, OneRecovery
  <1>4. StagesKept
    BY DEF Init, StagesKept, Filled
  <1>5. DurableUntilWiped
    BY DEF Init, DurableUntilWiped
  <1>6. RecoveryKept
    BY DEF Init, RecoveryKept
  <1>7. InServiceHoldsCopy
    BY DEF Init, InServiceHoldsCopy
  <1> QED
    BY <1>1, <1>2, <1>3, <1>4, <1>5, <1>6, <1>7 DEF Inductive

\* A generation is captured from what it is now.
LEMMA CapturedStep == TypeOK /\ Captured /\ [Next]_vars => Captured'
  <1> SUFFICES ASSUME TypeOK, Captured, [Next]_vars PROVE Captured'
    OBVIOUS
  <1> USE Constants DEF ckptVars, recoveryVars, failVars, history, trainVars
  <1>1. ASSUME NEW w \in Worker, BeginCapture(w) PROVE Captured'
    BY <1>1 DEF Captured, TypeOK, BeginCapture
  <1>2. ASSUME NEW w \in Worker, NEW p \in Place, StageCompletes(w, p) PROVE Captured'
    BY <1>2 DEF Captured, TypeOK, StageCompletes
  <1>3. ASSUME NEW w \in Worker, NEW t \in FailureType, Fail(w, t) PROVE Captured'
    <2>1. \A v \in Worker : generation'[v] >= generation[v]
      BY <1>3, FailGeneration
    <2>2. \A v \in Worker : generation'[v] \in Nat
      BY TypeStep DEF TypeOK
    <2>3. UNCHANGED <<watched, watchedPeer, called>>
      BY <1>3 DEF Fail
    <2> QED
      BY <2>1, <2>2, <2>3, Numbers DEF Captured
  <1>4. ASSUME NEW w \in Worker, CallRecover(w) PROVE Captured'
    BY <1>4 DEF Captured, TypeOK, CallRecover
  <1>5. CASE UNCHANGED <<generation, watched, watchedPeer, called>>
    BY <1>5 DEF Captured
  <1> QED
    BY <1>1, <1>2, <1>3, <1>4, <1>5 DEF Next, vars, EndIteration, Launch, Resume, Finish,
      NextIteration, FinishWork, AcquireLock, Granted, MoveTo, CleanupEnds, StageAborts,
      FetchEnds, RestoreEnds, BackInService, RecoverAgain

\* Nothing is newer than the iteration it was made in.
LEMMA OrderedStep == TypeOK /\ Ordered /\ [Next]_vars => Ordered'
  <1> SUFFICES ASSUME TypeOK, Ordered, [Next]_vars PROVE Ordered'
    OBVIOUS
  <1> USE IterationsType DEF ckptVars, recoveryVars, failVars, history, trainVars
  <1>t. TypeOK'
    BY TypeStep
  <1>1. CASE UNCHANGED <<launched, acked, saving, source, copies>>
    <2>1. iteration' >= iteration
      BY IterationGrows
    <2>2. iteration' \in Nat
      BY <1>t DEF TypeOK
    <2> QED
      BY <1>1, <2>1, <2>2, Numbers DEF Ordered, NoCopy
  <1>2. CASE Launch
    BY <1>2 DEF Ordered, TypeOK, Launch
  <1>3. ASSUME NEW w \in Worker, AcquireLock(w) PROVE Ordered'
    BY <1>3 DEF Ordered, TypeOK, AcquireLock
  <1>4. ASSUME NEW w \in Worker, NEW p \in Place, StageCompletes(w, p) PROVE Ordered'
    <2>1. \A o \in Worker : \A q \in Place : copies'[o][q] <= iteration
      <3>1. saving[w] \in 0 .. Iterations /\ saving[w] <= iteration
        BY Numbers DEF Ordered
      <3>2. PutCopy(w, p, saving[w])
        BY <1>4 DEF StageCompletes
      <3> QED
        BY <3>1, <3>2, PutCopyGrows DEF Ordered
    <2>2. \A v \in Worker : acked'[v] <= saving[v]
      <3>1. acked' = acked \/ acked' = [acked EXCEPT ![w] = saving[w]]
        BY <1>4 DEF StageCompletes
      <3>2. acked \in [Worker -> 0 .. Iterations]
        BY DEF TypeOK
      <3> QED
        BY <3>1, <3>2, Numbers DEF Ordered
    <2> QED
      BY <1>4, <2>1, <2>2 DEF Ordered, StageCompletes
  <1>5. ASSUME NEW w \in Worker, NEW t \in FailureType, Fail(w, t) PROVE Ordered'
    <2>1. \A o \in Worker : \A q \in Place : copies'[o][q] <= iteration
      BY <1>5, FailWipes, Numbers DEF Ordered, NoCopy
    <2> QED
      BY <1>5, <2>1 DEF Ordered, Fail
  <1>6. ASSUME NEW w \in Worker, CallRecover(w) PROVE Ordered'
    <2>1. source \in [Worker -> 0 .. Iterations]
      BY DEF TypeOK
    <2>2. PICK i \in Int : source' = [source EXCEPT ![w] = i] /\ i <= iteration
      BY <1>6, Numbers DEF CallRecover, IsLatest, Candidates, NoCopy
    <2> QED
      BY <1>6, <2>1, <2>2 DEF Ordered, CallRecover
  <1>7. ASSUME NEW w \in Worker, FetchEnds(w) PROVE Ordered'
    <2>1. \A o \in Worker : \A q \in Place : copies'[o][q] <= iteration
      BY <1>7, PutCopyGrows DEF Ordered, TypeOK, FetchEnds, Place, LocalPlace
    <2> QED
      BY <1>7, <2>1 DEF Ordered, FetchEnds
  <1> QED
    BY <1>1, <1>2, <1>3, <1>4, <1>5, <1>6, <1>7 DEF Next, vars, EndIteration, Resume, Finish,
      NextIteration, FinishWork, BeginCapture, Granted, MoveTo, CleanupEnds, StageAborts,
      RestoreEnds, BackInService, RecoverAgain

\* A recovery process starts with an outage and ends with it.
LEMMA OneRecoveryStep == TypeOK /\ OneRecovery /\ [Next]_vars => OneRecovery'
  <1> SUFFICES ASSUME TypeOK, OneRecovery, [Next]_vars PROVE OneRecovery'
    OBVIOUS
  <1> USE DEF ckptVars, recoveryVars, failVars, history, trainVars
  <1>1. ASSUME NEW w \in Worker, NEW p \in Place, StageCompletes(w, p) PROVE OneRecovery'
    BY <1>1 DEF OneRecovery, TypeOK, StageCompletes
  <1>2. ASSUME NEW w \in Worker, NEW t \in FailureType, Fail(w, t) PROVE OneRecovery'
    <2>1. \A v \in Worker : surviving'[v] \subseteq Configured
      BY <1>2, FailWipes DEF OneRecovery
    <2> QED
      BY <1>2, <2>1 DEF OneRecovery, TypeOK, Fail
  <1>3. ASSUME NEW w \in Worker, CallRecover(w) PROVE OneRecovery'
    BY <1>3 DEF OneRecovery, TypeOK, CallRecover
  <1>4. ASSUME NEW w \in Worker, FetchEnds(w) PROVE OneRecovery'
    BY <1>4 DEF OneRecovery, TypeOK, FetchEnds
  <1>5. ASSUME NEW w \in Worker, RestoreEnds(w) PROVE OneRecovery'
    BY <1>5 DEF OneRecovery, TypeOK, RestoreEnds
  <1>6. ASSUME NEW w \in Worker, BackInService(w) PROVE OneRecovery'
    BY <1>6 DEF OneRecovery, TypeOK, BackInService, RecoveryAccepted
  <1>7. ASSUME NEW w \in Worker, RecoverAgain(w) PROVE OneRecovery'
    BY <1>7 DEF OneRecovery, TypeOK, RecoverAgain
  <1>8. CASE UNCHANGED <<failed, restarting, recovery, surviving>>
    BY <1>8 DEF OneRecovery
  <1> QED
    BY <1>1, <1>2, <1>3, <1>4, <1>5, <1>6, <1>7, <1>8 DEF Next, vars, EndIteration, Launch,
      Resume, Finish, NextIteration, FinishWork, AcquireLock, BeginCapture, Granted, MoveTo,
      CleanupEnds, StageAborts

\* The stages fill the configured places one by one, and the last one is
\* reached only when all are filled.
LEMMA FilledNext ==
  ASSUME NEW p \in Place
  PROVE  /\ Filled(NextStage(p)) \subseteq Filled(p) \cup {p}
         /\ NextStage(p) = AfterPersist => Configured \subseteq Filled(p) \cup {p}
         /\ Filled(p) \subseteq Place
  BY TieredAssumption DEF TieredAssumption, Filled, NextStage, AfterPersist, Configured,
    Place, LocalPlace, PeerPlace

\* When a stage completes, the checkpoint is in every place the next one
\* presupposes, and in every configured place if it was the last.
LEMMA StageBacks ==
  ASSUME TypeOK, Ordered, StagesKept, NEW w \in Worker, NEW p \in Place, StageCompletes(w, p)
  PROVE  /\ \A q \in Filled(NextStage(p)) : copies'[w][q] >= saving[w]
         /\ NextStage(p) = AfterPersist => \A q \in Configured : copies'[w][q] >= saving[w]
         /\ \A o \in Worker : \A q \in Place : copies'[o][q] >= copies[o][q]
  <1>1. saving[w] \in 0 .. Iterations /\ saving[w] <= iteration
    BY Numbers DEF Ordered
  <1>2. PutCopy(w, p, saving[w])
    BY DEF StageCompletes
  <1>3. /\ \A o \in Worker : \A q \in Place : copies'[o][q] >= copies[o][q]
        /\ copies'[w][p] >= saving[w]
    BY <1>1, <1>2, PutCopyGrows DEF Ordered
  <1>4. \A q \in Filled(p) : copies[w][q] >= saving[w]
    BY DEF StagesKept, StageCompletes, Valid, Undisturbed
  <1>5. TypeOK'
    <2>1. [Next]_vars
      BY DEF Next
    <2> QED
      BY <2>1, TypeStep
  <1>6. \A q \in Place : copies[w][q] \in Int /\ copies'[w][q] \in Int
    BY <1>5, IterationsType DEF TypeOK, NoCopy
  <1>7. \A q \in Filled(p) \cup {p} : copies'[w][q] >= saving[w]
    BY <1>1, <1>3, <1>4, <1>6, FilledNext
  <1> QED
    BY <1>3, <1>7, FilledNext

\* FetchEnds registers a copy and lowers none.
LEMMA FetchGrows ==
  ASSUME TypeOK, Ordered, NEW w \in Worker, FetchEnds(w)
  PROVE  /\ \A o \in Worker : \A q \in Place : copies'[o][q] >= copies[o][q]
         /\ recovery'[w] = "restore" => copies'[w]["localDram"] >= source[w]
  <1>1. source[w] \in 0 .. Iterations /\ source[w] <= iteration
    BY Numbers DEF Ordered
  <1>2. "localDram" \in Place
    BY DEF Place, LocalPlace
  <1>3. CASE generation[w] = called[w]
    <2>1. PutCopy(w, "localDram", source[w])
      BY <1>3 DEF FetchEnds
    <2> QED
      BY <1>1, <1>2, <2>1, PutCopyGrows DEF Ordered
  <1>4. CASE generation[w] # called[w]
    <2>1. UNCHANGED copies /\ recovery'[w] = "aborted"
      BY <1>4 DEF FetchEnds, TypeOK
    <2> QED
      BY <2>1, Numbers, IterationsType DEF NoCopy
  <1> QED
    BY <1>3, <1>4

\* The places a stage presupposes are on the ranks that it watches.
LEMMA FilledWatched ==
  ASSUME NEW w \in Worker, NEW s \in Stage, NEW q \in Filled(s), q \notin LocalPlace
  PROVE  s \in PeerPlace /\ Holder(w, q) = Partner[w]
  BY DEF Filled, Configured, Holder, Stage, Place, LocalPlace, PeerPlace

\* A checkpoint that nothing disturbed keeps what its stages have filled.
LEMMA StagesKeptStep ==
  TypeOK /\ Captured /\ Ordered /\ StagesKept /\ [Next]_vars => StagesKept'
  <1> SUFFICES ASSUME TypeOK, Captured, Ordered, StagesKept, [Next]_vars,
                      NEW v \in Worker, NEW q \in Filled(stage'[v]), Undisturbed(v, stage[v])',
                      TypeOK'
               PROVE  copies'[v][q] >= saving'[v]
    BY TypeStep DEF StagesKept, Undisturbed
  <1> USE DEF ckptVars, recoveryVars, failVars, history, trainVars
  <1>t. q \in Place /\ copies[v][q] \in Int /\ copies'[v][q] \in Int /\ saving[v] \in Nat
    <2>1. stage'[v] \in Stage
      BY DEF TypeOK
    <2>2. q \in Place
      BY <2>1, FilledNext, Constants DEF Filled, Stage, Place, LocalPlace
    <2> QED
      BY <2>2, IterationsType DEF TypeOK, NoCopy
  <1>k. ASSUME UNCHANGED <<stage, saving, watched, watchedPeer, generation>>,
               copies'[v][q] >= copies[v][q]
        PROVE  copies'[v][q] >= saving'[v]
    <2>1. copies[v][q] >= saving[v]
      BY <1>k DEF StagesKept, Undisturbed
    <2> QED
      BY <1>k, <1>t, <2>1
  <1>1. ASSUME NEW w \in Worker, NEW s \in Stage \ {"localSsd", "peerDram", "peerSsd"},
               stage' = [stage EXCEPT ![w] = s], UNCHANGED <<copies, generation, watchedPeer>>,
               \A u \in Worker \ {w} : saving'[u] = saving[u] /\ watched'[u] = watched[u]
        PROVE  copies'[v][q] >= saving'[v]
    <2>1. v # w
      BY <1>1 DEF TypeOK, Filled, Stage
    <2>2. stage'[v] = stage[v]
      BY <1>1, <2>1 DEF TypeOK
    <2> QED
      BY <1>1, <2>1, <2>2 DEF StagesKept, Undisturbed
  <1>2. ASSUME NEW w \in Worker, AcquireLock(w) PROVE copies'[v][q] >= saving'[v]
    BY <1>1, <1>2 DEF AcquireLock, TypeOK, Stage
  <1>3. ASSUME NEW w \in Worker, BeginCapture(w) PROVE copies'[v][q] >= saving'[v]
    BY <1>1, <1>3 DEF BeginCapture, TypeOK, Stage
  <1>4. ASSUME NEW w \in Worker, Granted(w) \/ CleanupEnds(w) PROVE copies'[v][q] >= saving'[v]
    BY <1>1, <1>4 DEF Granted, CleanupEnds, MoveTo, Stage, Place, LocalPlace
  <1>5. ASSUME NEW w \in Worker, NEW p \in Place, StageAborts(w, p)
        PROVE  copies'[v][q] >= saving'[v]
    BY <1>1, <1>5 DEF StageAborts, MoveTo, Stage
  <1>6. ASSUME NEW w \in Worker, NEW p \in Place, StageCompletes(w, p)
        PROVE  copies'[v][q] >= saving'[v]
    <2>1. CASE v = w
      <3>1. stage'[v] = NextStage(p) /\ saving'[v] = saving[v]
        BY <1>6, <2>1 DEF StageCompletes, TypeOK
      <3> QED
        BY <1>6, <2>1, <3>1, StageBacks
    <2>2. CASE v # w
      <3>1. /\ stage'[v] = stage[v] /\ saving'[v] = saving[v] /\ watched'[v] = watched[v]
            /\ watchedPeer'[v] = watchedPeer[v] /\ generation' = generation
        BY <1>6, <2>2 DEF StageCompletes, TypeOK
      <3>2. copies[v][q] >= saving[v]
        BY <3>1 DEF StagesKept, Undisturbed
      <3>3. copies'[v][q] >= copies[v][q]
        BY <1>6, <1>t, StageBacks
      <3> QED
        BY <1>t, <3>1, <3>2, <3>3
    <2> QED
      BY <2>1, <2>2
  <1>7. ASSUME NEW w \in Worker, NEW t \in FailureType, Fail(w, t)
        PROVE  copies'[v][q] >= saving'[v]
    <2>1. UNCHANGED <<stage, saving, watched, watchedPeer>>
      BY <1>7 DEF Fail
    <2>2. v # w /\ generation'[v] = generation[v]
      BY <1>7, <2>1, FailGeneration, Numbers DEF Captured, Undisturbed, TypeOK
    <2>3. ASSUME stage[v] \in PeerPlace
          PROVE  Partner[v] # w /\ generation'[Partner[v]] = generation[Partner[v]]
      <3>1. Partner[v] \in Worker
        BY Constants
      <3>2. generation'[Partner[v]] = generation[Partner[v]]
        BY <1>7, <2>1, <2>3, <3>1, FailGeneration, Numbers DEF Captured, Undisturbed, TypeOK
      <3> QED
        BY <1>7, <3>1, <3>2, FailGeneration, Numbers
    <2>4. copies[v][q] >= saving[v]
      BY <2>1, <2>2, <2>3 DEF StagesKept, Undisturbed
    <2>5. Holder(v, q) # w
      <3>1. CASE q \in LocalPlace
        BY <3>1, <2>2 DEF Holder
      <3>2. CASE q \notin LocalPlace
        BY <3>2, <2>1, <2>3, FilledWatched DEF TypeOK
      <3> QED
        BY <3>1, <3>2
    <2>6. copies'[v][q] = copies[v][q]
      BY <1>7, <1>t, <2>5, FailWipes
    <2> QED
      BY <2>1, <2>4, <2>6
  <1>8. ASSUME NEW w \in Worker, FetchEnds(w) PROVE copies'[v][q] >= saving'[v]
    BY <1>8, <1>k, <1>t, FetchGrows DEF FetchEnds
  <1>9. CASE UNCHANGED <<stage, saving, watched, watchedPeer, generation, copies>>
    BY <1>9, <1>k, <1>t
  <1> QED
    BY <1>2, <1>3, <1>4, <1>5, <1>6, <1>7, <1>8, <1>9 DEF Next, vars, EndIteration, Launch,
      Resume, Finish, NextIteration, FinishWork, CallRecover, RestoreEnds, BackInService,
      RecoverAgain

\* What becomes of the history: a completed checkpoint is everywhere, a
\* failure takes the places it wipes, and no other step changes it.
LEMMA HistoryStep ==
  ASSUME TypeOK, Ordered, StagesKept, [Next]_vars, NEW v \in Worker
  PROVE  \/ /\ acked'[v] = acked[v]
            /\ surviving'[v] \subseteq surviving[v]
            /\ \A p \in surviving'[v] \cap Place : copies'[v][p] >= copies[v][p]
         \/ /\ ~failed[v] /\ ~failed'[v]
            /\ acked'[v] = saving[v]
            /\ surviving'[v] = Configured
            /\ \A p \in Configured : copies'[v][p] >= acked'[v]
            /\ \E p \in Place : StageCompletes(v, p)
  <1> USE DEF ckptVars, recoveryVars, failVars, history, trainVars
  <1>t. \A p \in Place : copies[v][p] \in Int
    BY Numbers, IterationsType DEF NoCopy
  <1>1. ASSUME NEW w \in Worker, NEW p \in Place, StageCompletes(w, p),
               v = w, NextStage(p) = AfterPersist
        PROVE  /\ ~failed[v] /\ ~failed'[v]
               /\ acked'[v] = saving[v]
               /\ surviving'[v] = Configured
               /\ \A q \in Configured : copies'[v][q] >= acked'[v]
               /\ StageCompletes(v, p)
    <2>1. acked'[v] = saving[v] /\ surviving'[v] = Configured
      BY <1>1 DEF StageCompletes, TypeOK
    <2>2. ~failed[v] /\ ~failed'[v]
      BY <1>1 DEF StageCompletes, Valid
    <2> QED
      BY <1>1, <2>1, <2>2, StageBacks
  <1>2. ASSUME NEW w \in Worker, NEW p \in Place, StageCompletes(w, p),
               v # w \/ NextStage(p) # AfterPersist
        PROVE  /\ acked'[v] = acked[v] /\ surviving'[v] = surviving[v]
               /\ \A q \in Place : copies'[v][q] >= copies[v][q]
    <2>1. acked'[v] = acked[v] /\ surviving'[v] = surviving[v]
      BY <1>2 DEF StageCompletes, TypeOK
    <2> QED
      BY <1>2, <2>1, StageBacks
  <1>3. ASSUME NEW w \in Worker, NEW t \in FailureType, Fail(w, t)
        PROVE  /\ acked'[v] = acked[v] /\ surviving'[v] \subseteq surviving[v]
               /\ \A p \in surviving'[v] \cap Place : copies'[v][p] >= copies[v][p]
    <2>1. acked' = acked
      BY <1>3 DEF Fail
    <2> QED
      BY <1>3, <1>t, <2>1, FailWipes
  <1>4. ASSUME NEW w \in Worker, FetchEnds(w)
        PROVE  /\ acked' = acked /\ surviving' = surviving
               /\ \A p \in Place : copies'[v][p] >= copies[v][p]
    BY <1>4, FetchGrows DEF FetchEnds
  <1>5. CASE UNCHANGED <<acked, surviving, copies>>
    BY <1>5, <1>t
  <1> QED
    BY <1>1, <1>2, <1>3, <1>4, <1>5 DEF Next, vars, EndIteration, Launch, Resume, Finish,
      NextIteration, FinishWork, AcquireLock, BeginCapture, Granted, MoveTo, CleanupEnds,
      StageAborts, CallRecover, RestoreEnds, BackInService, RecoverAgain

\* A completed checkpoint is lost only with the place that holds it.
LEMMA DurableStep ==
  TypeOK /\ Ordered /\ OneRecovery /\ StagesKept /\ DurableUntilWiped /\ [Next]_vars
    => DurableUntilWiped'
  <1> SUFFICES ASSUME TypeOK, Ordered, OneRecovery, StagesKept, DurableUntilWiped, [Next]_vars,
                      TypeOK', NEW v \in Worker, NEW p \in surviving'[v]
               PROVE  copies'[v][p] >= acked'[v]
    BY TypeStep DEF DurableUntilWiped
  <1>1. p \in Place
    BY DEF TypeOK
  <1>2. /\ copies[v][p] \in Int /\ copies'[v][p] \in Int
        /\ acked[v] \in Nat /\ acked'[v] \in Nat
    BY <1>1, IterationsType DEF TypeOK, NoCopy
  <1>3. CASE acked'[v] = acked[v] /\ p \in surviving[v] /\ copies'[v][p] >= copies[v][p]
    BY <1>2, <1>3 DEF DurableUntilWiped
  <1>4. CASE surviving'[v] = Configured /\ \A q \in Configured : copies'[v][q] >= acked'[v]
    BY <1>4
  <1> QED
    BY <1>1, <1>3, <1>4, HistoryStep

\* What an undisturbed recovery has, it keeps.
LEMMA RecoveryStepKept ==
  Inductive /\ [Next]_vars => RecoveryKept'
  <1> SUFFICES ASSUME Inductive, [Next]_vars, TypeOK', NEW v \in Worker, (called[v] = generation[v])'
               PROVE  /\ (/\ recovery'[v] \in {"fetch", "restore", "restored"}
                          /\ surviving'[v] \cap LocalPlace # {})
                            => source'[v] >= acked'[v]
                      /\ recovery'[v] \in {"restore", "restored"}
                            => copies'[v]["localDram"] >= source'[v]
    BY TypeStep DEF RecoveryKept, Inductive
  <1> USE DEF ckptVars, recoveryVars, failVars, history, trainVars
  <1>a. /\ TypeOK /\ Captured /\ Ordered /\ OneRecovery /\ StagesKept /\ DurableUntilWiped
        /\ RecoveryKept
    BY DEF Inductive
  <1>d. "localDram" \in LocalPlace /\ "localDram" \in Place
    BY DEF LocalPlace, Place
  <1>t. /\ copies[v]["localDram"] \in Int /\ copies'[v]["localDram"] \in Int
        /\ source[v] \in Nat /\ acked[v] \in Nat
    BY <1>a, <1>d, IterationsType DEF TypeOK, NoCopy
  \* A step that leaves this recovery alone, or moves it on.
  <1>k. ASSUME recovery[v] \in {"fetch", "restore", "restored"}, called[v] = generation[v],
               source'[v] = source[v], acked'[v] = acked[v],
               surviving'[v] \subseteq surviving[v],
               recovery'[v] \in {"restore", "restored"}
                 => /\ copies'[v]["localDram"] >= copies[v]["localDram"]
                    /\ recovery[v] \in {"restore", "restored"}
        PROVE  /\ (/\ recovery'[v] \in {"fetch", "restore", "restored"}
                   /\ surviving'[v] \cap LocalPlace # {})
                     => source'[v] >= acked'[v]
               /\ recovery'[v] \in {"restore", "restored"}
                     => copies'[v]["localDram"] >= source'[v]
    BY <1>a, <1>k, <1>t DEF RecoveryKept
  <1>h. failed[v] => /\ acked'[v] = acked[v]
                     /\ surviving'[v] \subseteq surviving[v]
    BY <1>a, HistoryStep
  <1>f. recovery[v] # "none" => failed[v]
    BY <1>a DEF OneRecovery
  <1>1. ASSUME NEW w \in Worker, NEW p \in Place, StageCompletes(w, p)
        PROVE  /\ copies'[v]["localDram"] >= copies[v]["localDram"]
               /\ UNCHANGED <<recovery, source, called, generation>>
    BY <1>1, <1>a, <1>d, StageBacks DEF StageCompletes
  <1>2. ASSUME NEW w \in Worker, NEW t \in FailureType, Fail(w, t), v # w
        PROVE  /\ copies'[v]["localDram"] = copies[v]["localDram"]
               /\ recovery'[v] = recovery[v] /\ generation'[v] = generation[v]
               /\ UNCHANGED <<source, called>>
    <2>1. Holder(v, "localDram") # w
      BY <1>d, <1>2 DEF Holder
    <2>2. copies'[v]["localDram"] = copies[v]["localDram"]
      BY <1>2, <1>a, <1>d, <2>1, FailWipes
    <2> QED
      BY <1>2, <1>a, <2>2 DEF Fail, TypeOK
  <1>3. ASSUME NEW t \in FailureType, Fail(v, t) PROVE FALSE
    <2>1. generation'[v] > generation[v] /\ generation' = [generation EXCEPT ![v] = @ + 1]
      BY <1>3, <1>a, FailGeneration
    <2>2. called'[v] <= generation[v]
      BY <1>3, <1>a DEF Captured, Fail
    <2>3. called'[v] \in Nat /\ generation[v] \in Nat /\ generation'[v] \in Nat
      BY <1>a DEF TypeOK
    <2> QED
      BY <2>1, <2>2, <2>3
  <1>4. CASE CallRecover(v)
    <2>1. /\ acked'[v] = acked[v] /\ surviving'[v] = surviving[v] /\ copies' = copies
          /\ recovery[v] = "restart"
      BY <1>4 DEF CallRecover
    <2>2. ASSUME surviving[v] \cap LocalPlace # {}
          PROVE  source'[v] >= acked[v]
      <3>1. PICK q \in surviving[v] \cap LocalPlace : copies[v][q] >= acked[v]
        BY <1>a, <2>2 DEF DurableUntilWiped
      <3>2. q \in Place /\ q \notin PeerPlace
        BY Constants, <3>1
      <3>3. copies[v][q] \in Int /\ copies[v][q] <= iteration /\ copies[v][q] # NoCopy
        BY <1>a, <1>t, <3>1, <3>2, Numbers, IterationsType DEF Ordered, NoCopy
      <3>4. q \in Candidates(v)
        BY <3>2, <3>3 DEF Candidates
      <3>5. PICK p \in Place : IsLatest(v, p) /\ source' = [source EXCEPT ![v] = copies[v][p]]
        BY <1>4, <3>4 DEF CallRecover
      <3>6. source'[v] = copies[v][p] /\ copies[v][p] \in Int
        BY <1>a, <3>5, Numbers, IterationsType DEF TypeOK, NoCopy
      <3>7. copies[v][q] <= copies[v][p]
        BY <3>3, <3>4, <3>5, <3>6 DEF IsLatest
      <3> QED
        BY <1>t, <3>1, <3>3, <3>6, <3>7
    <2>3. ASSUME recovery'[v] \in {"restore", "restored"}
          PROVE  copies'[v]["localDram"] >= source'[v]
      <3>1. PICK p \in Place :
               /\ source' = [source EXCEPT ![v] = copies[v][p]]
               /\ recovery' = [recovery EXCEPT ![v] =
                                 IF p = "localDram" THEN "restore" ELSE "fetch"]
        BY <1>4, <1>a, <2>3 DEF CallRecover, TypeOK
      <3>2. p = "localDram" /\ source'[v] = copies[v][p]
        BY <1>a, <2>3, <3>1 DEF TypeOK
      <3> QED
        BY <2>1, <1>t, <3>2
    <2> QED
      BY <2>1, <2>2, <2>3
  <1>5. ASSUME NEW w \in Worker, CallRecover(w), w # v
        PROVE  /\ recovery'[v] = recovery[v] /\ source'[v] = source[v]
               /\ called'[v] = called[v]
               /\ UNCHANGED <<copies, generation>>
    BY <1>5, <1>a DEF CallRecover, TypeOK
  <1>6. CASE FetchEnds(v)
    <2>1. /\ recovery[v] = "fetch" /\ source'[v] = source[v]
          /\ acked'[v] = acked[v] /\ surviving'[v] = surviving[v]
          /\ called[v] = generation[v]
      BY <1>6 DEF FetchEnds
    <2>2. recovery'[v] = "restore"
      BY <1>6, <1>a, <2>1 DEF FetchEnds, TypeOK
    <2>3. copies'[v]["localDram"] >= source[v]
      BY <1>6, <1>a, <2>2, FetchGrows
    <2> QED
      BY <1>a, <2>1, <2>2, <2>3 DEF RecoveryKept
  <1>7. ASSUME NEW w \in Worker, FetchEnds(w), w # v
        PROVE  /\ recovery'[v] = recovery[v]
               /\ copies'[v]["localDram"] >= copies[v]["localDram"]
               /\ UNCHANGED <<source, called, generation>>
    BY <1>7, <1>a, <1>d, FetchGrows DEF FetchEnds, TypeOK
  <1>8. CASE RestoreEnds(v)
    <2>1. /\ recovery[v] = "restore" /\ source'[v] = source[v] /\ copies' = copies
          /\ acked'[v] = acked[v] /\ surviving'[v] = surviving[v]
          /\ called[v] = generation[v]
      BY <1>8 DEF RestoreEnds
    <2> QED
      BY <1>a, <2>1 DEF RecoveryKept
  <1>9. CASE BackInService(v) \/ RecoverAgain(v)
    BY <1>9, <1>a DEF BackInService, RecoverAgain, TypeOK
  <1>10. ASSUME NEW w \in Worker, RestoreEnds(w) \/ BackInService(w) \/ RecoverAgain(w), w # v
         PROVE  /\ recovery'[v] = recovery[v]
                /\ UNCHANGED <<copies, source, called, generation>>
    BY <1>10, <1>a DEF RestoreEnds, BackInService, RecoverAgain, TypeOK
  <1>11. ASSUME recovery'[v] = recovery[v], source'[v] = source[v], called'[v] = called[v],
                generation'[v] = generation[v],
                copies'[v]["localDram"] >= copies[v]["localDram"]
         PROVE  /\ (/\ recovery'[v] \in {"fetch", "restore", "restored"}
                    /\ surviving'[v] \cap LocalPlace # {})
                      => source'[v] >= acked'[v]
                /\ recovery'[v] \in {"restore", "restored"}
                      => copies'[v]["localDram"] >= source'[v]
    BY <1>11, <1>k, <1>h, <1>f
  <1>12. CASE UNCHANGED <<recovery, source, called, generation, copies>>
    BY <1>12, <1>11, <1>t
  <1> QED
    BY <1>1, <1>2, <1>3, <1>4, <1>5, <1>6, <1>7, <1>8, <1>9, <1>10, <1>11, <1>12, <1>t
    DEF Next, vars, EndIteration, Launch, Resume, Finish, NextIteration, FinishWork,
      AcquireLock, BeginCapture, Granted, MoveTo, CleanupEnds, StageAborts

\* A rank that is in service after a step has not been signalled by it and
\* has lost nothing from its DRAM.
LEMMA InServiceUndisturbed ==
  ASSUME TypeOK, Ordered, StagesKept, [Next]_vars, NEW v \in Worker, ~failed'[v]
  PROVE  /\ generation'[v] = generation[v]
         /\ copies'[v]["localDram"] >= copies[v]["localDram"]
  <1> USE DEF ckptVars, recoveryVars, failVars, history, trainVars
  <1>d. "localDram" \in LocalPlace /\ "localDram" \in Place
    BY DEF LocalPlace, Place
  <1>t. copies[v]["localDram"] \in Int
    BY <1>d, Numbers, IterationsType DEF NoCopy
  <1>1. ASSUME NEW w \in Worker, NEW p \in Place, StageCompletes(w, p)
        PROVE  /\ generation'[v] = generation[v]
               /\ copies'[v]["localDram"] >= copies[v]["localDram"]
    BY <1>1, <1>d, StageBacks DEF StageCompletes
  <1>2. ASSUME NEW w \in Worker, NEW t \in FailureType, Fail(w, t)
        PROVE  /\ generation'[v] = generation[v]
               /\ copies'[v]["localDram"] >= copies[v]["localDram"]
    <2>1. v # w
      BY <1>2 DEF Fail, TypeOK
    <2>2. Holder(v, "localDram") # w
      BY <1>d, <2>1 DEF Holder
    <2> QED
      BY <1>2, <1>d, <1>t, <2>1, <2>2, FailWipes, FailGeneration DEF TypeOK
  <1>3. ASSUME NEW w \in Worker, FetchEnds(w)
        PROVE  /\ generation'[v] = generation[v]
               /\ copies'[v]["localDram"] >= copies[v]["localDram"]
    BY <1>3, <1>d, FetchGrows DEF FetchEnds
  <1>4. ASSUME UNCHANGED <<generation, copies>>
        PROVE  /\ generation'[v] = generation[v]
               /\ copies'[v]["localDram"] >= copies[v]["localDram"]
    BY <1>4, <1>t
  <1>5. \/ \E w \in Worker : \E p \in Place : StageCompletes(w, p)
        \/ \E w \in Worker : \E t \in FailureType : Fail(w, t)
        \/ \E w \in Worker : FetchEnds(w)
        \/ UNCHANGED <<generation, copies>>
    BY DEF Next, vars, EndIteration, Launch, Resume, Finish,
      NextIteration, FinishWork, AcquireLock, BeginCapture, Granted, MoveTo, CleanupEnds,
      StageAborts, CallRecover, RestoreEnds, BackInService, RecoverAgain
  <1> QED
    BY <1>1, <1>2, <1>3, <1>4, <1>5

\* A rank comes back only with what an undisturbed recovery has, and keeps it
\* as long as it is in service.
LEMMA InServiceStep == Inductive /\ [Next]_vars => InServiceHoldsCopy'
  <1> SUFFICES ASSUME Inductive, [Next]_vars, TypeOK', NEW v \in Worker, ~failed'[v]
               PROVE  /\ surviving'[v] \cap LocalPlace # {}
                            => copies'[v]["localDram"] >= acked'[v]
                      /\ generation'[v] > 0 => copies'[v]["localDram"] # NoCopy
    BY TypeStep DEF InServiceHoldsCopy, Inductive
  <1>a. /\ TypeOK /\ Captured /\ Ordered /\ OneRecovery /\ StagesKept /\ DurableUntilWiped
        /\ RecoveryKept /\ InServiceHoldsCopy
    BY DEF Inductive
  <1>t. /\ copies[v]["localDram"] \in {NoCopy} \cup Nat
        /\ copies'[v]["localDram"] \in {NoCopy} \cup Nat
        /\ source[v] \in Nat /\ acked[v] \in Nat
    BY <1>a, IterationsType DEF TypeOK, NoCopy, Place, LocalPlace
  <1>l. "localDram" \in Configured
    BY DEF Configured
  <1>g. /\ generation'[v] = generation[v]
        /\ copies'[v]["localDram"] >= copies[v]["localDram"]
    BY <1>a, InServiceUndisturbed
  <1>1. CASE failed[v]
    <2>1. BackInService(v)
      BY <1>a, <1>1 DEF TypeOK, Next, vars, trainVars, ckptVars, recoveryVars, failVars, history,
        EndIteration, Launch, Resume, Finish, NextIteration, FinishWork, AcquireLock,
        BeginCapture, Granted, MoveTo, CleanupEnds, StageCompletes, StageAborts, Fail,
        CallRecover, FetchEnds, RestoreEnds, BackInService, RecoverAgain
    <2>2. /\ recovery[v] = "restored" /\ called[v] = generation[v]
          /\ UNCHANGED <<copies, acked, surviving>>
      BY <2>1 DEF BackInService, RecoveryAccepted, history
    <2>3. /\ copies[v]["localDram"] >= source[v]
          /\ surviving[v] \cap LocalPlace # {} => source[v] >= acked[v]
      BY <1>a, <2>2 DEF RecoveryKept
    <2> QED
      BY <1>t, <2>2, <2>3 DEF NoCopy
  <1>2. CASE ~failed[v]
    <2>1. /\ surviving[v] \cap LocalPlace # {} => copies[v]["localDram"] >= acked[v]
          /\ generation[v] > 0 => copies[v]["localDram"] # NoCopy
      BY <1>a, <1>2 DEF InServiceHoldsCopy
    <2>2. generation'[v] > 0 => copies'[v]["localDram"] # NoCopy
      BY <1>g, <1>t, <2>1 DEF NoCopy
    <2>3. CASE acked'[v] = acked[v] /\ surviving'[v] \subseteq surviving[v]
      BY <1>g, <1>t, <2>1, <2>2, <2>3 DEF NoCopy
    <2>4. CASE \A p \in Configured : copies'[v][p] >= acked'[v]
      BY <1>l, <2>2, <2>4
    <2> QED
      BY <1>a, <2>3, <2>4, HistoryStep
  <1> QED
    BY <1>1, <1>2

\* Every step preserves the inductive invariant.
LEMMA InductiveStep == Inductive /\ [Next]_vars => Inductive'
  BY TypeStep, CapturedStep, OrderedStep, OneRecoveryStep, StagesKeptStep, DurableStep,
    RecoveryStepKept, InServiceStep DEF Inductive

-----------------------------------------------------------------------------
(***************************************************************************)
(* How far training runs ahead of its checkpoints.                         *)
(***************************************************************************)

\* After one multiple of CheckpointEvery the next is CheckpointEvery later.
LEMMA NextMultiple ==
  ASSUME NEW c \in Nat \ {0}, NEW a \in Nat, a % c = 0
  PROVE  (a + c) % c = 0
  <1> DEFINE q == a \div c
  <1>1. q \in Int /\ a = c * q + (a % c)
    BY SMT
  <1>2. a + c = c * (q + 1) + 0
    BY <1>1
  <1>3. ASSUME NEW b \in Nat, NEW k \in Int, b = c * k + 0 PROVE b % c = 0
    BY <1>3
  <1> QED
    BY <1>1, <1>2, <1>3

\* The training loop stops at every multiple of CheckpointEvery to launch.
LEMMA CadenceStep == TypeOK /\ Cadence /\ [Next]_vars => Cadence'
  <1> SUFFICES ASSUME TypeOK, Cadence, [Next]_vars PROVE Cadence'
    OBVIOUS
  <1> USE IterationsType DEF trainVars
  <1>t. iteration \in Nat /\ launched \in Nat /\ CheckpointEvery \in Nat \ {0}
    BY DEF TypeOK
  <1>1. CASE EndIteration
    <2>1. CASE iteration % CheckpointEvery = 0
      BY <1>1, <2>1 DEF EndIteration, Cadence
    <2>2. CASE iteration % CheckpointEvery # 0
      <3>1. iteration # launched + CheckpointEvery
        BY <1>t, <2>2, NextMultiple DEF Cadence
      <3>2. iteration <= launched + CheckpointEvery /\ launched' = launched
        BY <1>1 DEF EndIteration, Cadence
      <3>3. NextIteration
        BY <1>1, <2>2 DEF EndIteration
      <3> QED
        BY <1>t, <3>1, <3>2, <3>3 DEF Cadence, NextIteration
    <2> QED
      BY <2>1, <2>2
  <1>2. CASE Launch
    BY <1>2, <1>t DEF Launch, Cadence
  <1>3. CASE Resume
    BY <1>3, <1>t DEF Resume, Cadence, NextIteration
  <1>4. CASE Finish
    BY <1>4 DEF Finish, Cadence
  <1>5. CASE UNCHANGED <<trainer, iteration, launched>>
    BY <1>5 DEF Cadence
  <1> QED
    BY <1>1, <1>2, <1>3, <1>4, <1>5 DEF Next, vars, FinishWork, AcquireLock, BeginCapture,
      Granted, MoveTo, CleanupEnds, StageCompletes, StageAborts, Fail, CallRecover, FetchEnds,
      RestoreEnds, BackInService, RecoverAgain

\* What the completion of a stage does to the progress of the checkpoint.
LEMMA StageProgress ==
  ASSUME TypeOK, NEW w \in Worker, NEW p \in Place, StageCompletes(w, p)
  PROVE  /\ UNCHANGED <<trainVars, saving>>
         /\ stage'[w] \in {"idle", "cleanup"} => acked'[w] = saving[w]
         /\ acked'[w] \in {acked[w], saving[w]} /\ staged'[w] \in {staged[w], saving[w]}
         /\ \A v \in Worker \ {w} :
              stage'[v] = stage[v] /\ acked'[v] = acked[v] /\ staged'[v] = staged[v]
  <1>1. stage'[w] = NextStage(p)
    BY DEF StageCompletes, TypeOK
  <1>2. NextStage(p) \in {"idle", "cleanup"} => NextStage(p) = AfterPersist
    BY DEF NextStage, Place, LocalPlace, PeerPlace
  <1> QED
    BY <1>1, <1>2 DEF StageCompletes, TypeOK, history

\* The lock is idle again only when the checkpoint that held it is complete.
LEMMA ProgressedStep == TypeOK /\ Progressed /\ [Next]_vars => Progressed'
  <1> SUFFICES ASSUME TypeOK, Progressed, [Next]_vars PROVE Progressed'
    OBVIOUS
  <1> USE IterationsType
  <1>t. \A v \in Worker : staged[v] \in Nat /\ saving[v] \in Nat /\ acked[v] \in Nat
    BY DEF TypeOK
  <1>1. ASSUME NEW w \in Worker, AcquireLock(w) PROVE Progressed'
    <2>1. \A v \in Worker : saving'[v] >= saving[v]
      BY <1>1 DEF AcquireLock, TypeOK
    <2>2. \A v \in Worker : stage'[v] # "healthy" => saving'[v] = saving[v] /\ stage'[v] = stage[v]
      BY <1>1 DEF AcquireLock, TypeOK
    <2>3. saving' \in [Worker -> Nat]
      BY <1>1 DEF AcquireLock, TypeOK
    <2> QED
      BY <1>1, <1>t, <2>1, <2>2, <2>3 DEF AcquireLock, Progressed, history
  <1>2. ASSUME NEW w \in Worker, NEW s \in Stage, MoveTo(w, s),
               s \in {"idle", "cleanup"} => stage[w] = "cleanup"
        PROVE  Progressed'
    BY <1>2 DEF MoveTo, Progressed, TypeOK, history
  <1>3. ASSUME NEW w \in Worker, BeginCapture(w) PROVE Progressed'
    BY <1>3 DEF BeginCapture, Progressed, TypeOK, history
  <1>4. ASSUME NEW w \in Worker, Granted(w) \/ CleanupEnds(w) PROVE Progressed'
    BY <1>4, <1>2 DEF Granted, CleanupEnds, Stage, Place, LocalPlace
  <1>5. ASSUME NEW w \in Worker, NEW p \in Place, StageAborts(w, p) PROVE Progressed'
    BY <1>5, <1>2 DEF StageAborts, Stage
  <1>6. ASSUME NEW w \in Worker, NEW p \in Place, StageCompletes(w, p) PROVE Progressed'
    BY <1>6, <1>t, StageProgress DEF Progressed
  <1>7. CASE UNCHANGED <<staged, saving, stage, acked>>
    BY <1>7 DEF Progressed
  <1> QED
    BY <1>1, <1>3, <1>4, <1>5, <1>6, <1>7 DEF Next, vars, ckptVars, history, EndIteration,
      Launch, Resume, Finish, FinishWork, Fail, CallRecover, FetchEnds, RestoreEnds,
      BackInService, RecoverAgain

\* Each mode lets training go on when its checkpoints are as far as it says.
LEMMA TrainingWaitsStep ==
  TypeOK /\ Ordered /\ WaitsKept /\ [Next]_vars => TrainingWaits'
  <1> SUFFICES ASSUME TypeOK, Ordered, Cadence, Progressed, TrainingWaits, [Next]_vars
               PROVE  TrainingWaits'
    BY DEF WaitsKept
  <1> USE IterationsType
  <1>t. /\ iteration \in Nat /\ launched \in Nat /\ CheckpointEvery \in Nat
        /\ \A v \in Worker : staged[v] \in Nat /\ saving[v] \in Nat /\ acked[v] \in Nat
    BY DEF TypeOK
  <1>1. CASE EndIteration
    BY <1>1 DEF EndIteration, NextIteration, TrainingWaits, ckptVars, history
  <1>d. Drained => \A v \in Worker : acked[v] = launched
    BY DEF Drained, Progressed
  <1>2. CASE Launch
    BY <1>2, <1>t, <1>d DEF Launch, TrainingWaits, Cadence, ckptVars, history
  <1>3. CASE Resume
    <2>1. iteration = launched /\ UNCHANGED <<launched, staged, acked>>
      BY <1>3 DEF Resume, Cadence, ckptVars, history
    <2>2. \A v \in Worker : staged[v] <= launched
      BY <1>t DEF Progressed, Ordered
    <2>3. Mode = "backpressure" => \A v \in Worker : staged[v] = launched
      BY <1>3, <1>t, <2>1, <2>2 DEF Resume
    <2>4. Mode = "synchronous" => \A v \in Worker : acked[v] = launched
      BY <1>3, <1>d DEF Resume
    <2> QED
      BY <2>1, <2>3, <2>4 DEF TrainingWaits
  <1>4. CASE Finish
    BY <1>4 DEF Finish, TrainingWaits, ckptVars, history
  <1>5. ASSUME NEW w \in Worker, NEW p \in Place, StageCompletes(w, p) PROVE TrainingWaits'
    <2>1. UNCHANGED <<trainer, launched>>
      BY <1>5, StageProgress DEF trainVars
    <2>2. ASSUME NEW v \in Worker
          PROVE  /\ acked[v] = launched => acked'[v] = launched
                 /\ staged[v] = launched => staged'[v] = launched
                 /\ launched - acked[v] <= CheckpointEvery
                      => launched - acked'[v] <= CheckpointEvery
      <3>1. /\ acked'[v] \in {acked[v], saving[v]} /\ staged'[v] \in {staged[v], saving[v]}
        BY <1>5, StageProgress
      <3>2. acked[v] <= saving[v] /\ staged[v] <= saving[v] /\ saving[v] <= launched
        BY DEF Ordered, Progressed
      <3> QED
        BY <1>t, <3>1, <3>2
    <2> QED
      BY <2>1, <2>2 DEF TrainingWaits
  <1>6. CASE UNCHANGED <<trainer, launched, staged, acked>>
    BY <1>6 DEF TrainingWaits
  <1> QED
    BY <1>1, <1>2, <1>3, <1>4, <1>5, <1>6 DEF Next, vars, trainVars, ckptVars, history,
      FinishWork, AcquireLock, BeginCapture, Granted, MoveTo, CleanupEnds, StageAborts, Fail,
      CallRecover, FetchEnds, RestoreEnds, BackInService, RecoverAgain

-----------------------------------------------------------------------------
(***************************************************************************)
(* The theorems.                                                           *)
(***************************************************************************)

\* Every reachable state satisfies the inductive invariant.
THEOREM Invariance == Spec => []Inductive
  BY InductiveInit, InductiveStep, PTL DEF Spec

\* While nothing that a checkpoint watches has failed, each stage that it has
\* been through has left its copy (tiered.py:380-505).
THEOREM StagesBackedCorrect == Spec => []StagesBacked
  <1>1. Inductive => StagesBacked
    BY DEF Inductive, StagesKept, StagesBacked, Valid, Undisturbed
  <1> QED
    BY <1>1, Invariance, PTL

\* A completed checkpoint is lost only with the place that holds it.
THEOREM Durability == Spec => []DurableUntilWiped
  <1>1. Inductive => DurableUntilWiped
    BY DEF Inductive
  <1> QED
    BY <1>1, Invariance, PTL

\* A rank in service has its last completed checkpoint in its own DRAM unless
\* its own copies were wiped, and after an outage has some copy there.
THEOREM InServiceCorrect == Spec => []InServiceHoldsCopy
  <1>1. Inductive => InServiceHoldsCopy
    BY DEF Inductive
  <1> QED
    BY <1>1, Invariance, PTL

\* Training runs ahead of its checkpoints only as far as the mode allows
\* (runtime.py:928-1000): not at all when they are synchronous, by one that is
\* captured with backpressure.
THEOREM WaitingCorrect == Spec => []TrainingWaits
  <1>1. Init => WaitsKept
    BY IterationsType DEF Init, WaitsKept, Cadence, Progressed, TrainingWaits
  <1>2. Inductive /\ WaitsKept /\ [Next]_vars => WaitsKept'
    BY CadenceStep, ProgressedStep, TrainingWaitsStep DEF Inductive, WaitsKept
  <1>3. WaitsKept => TrainingWaits
    BY DEF WaitsKept
  <1> QED
    BY <1>1, <1>2, <1>3, Invariance, PTL DEF Spec

\* A checkpoint is acknowledged only when every configured place holds it.
THEOREM Completeness == Spec => CompleteEverywhere
  <1>1. Inductive /\ [Next]_vars =>
          [\A w \in Worker : acked'[w] # acked[w] =>
             \A p \in Configured : copies'[w][p] >= acked'[w]]_vars
    BY HistoryStep DEF Inductive
  <1> QED
    BY <1>1, Invariance, PTL DEF Spec, CompleteEverywhere

\* Recovery resumes at least at the last completed checkpoint whenever some
\* place that holds it can be reached.
THEOREM ResumeCorrect == Spec => ResumesFromDurable
  <1>1. ASSUME Inductive, [Next]_vars, NEW w \in Worker,
               recovery[w] = "restart", recovery'[w] \in {"fetch", "restore"},
               NEW q \in surviving[w], q \in PeerPlace => ~failed[Partner[w]]
        PROVE  source'[w] >= acked[w]
    <2>a. TypeOK /\ Ordered /\ DurableUntilWiped
      BY <1>1 DEF Inductive
    <2>1. CallRecover(w)
      <3>1. ASSUME NEW v \in Worker, NEW t \in FailureType, Fail(v, t)
            PROVE  recovery'[w] = "restart"
        BY <1>1, <2>a, <3>1 DEF Fail, TypeOK
      <3>2. ASSUME NEW v \in Worker, v # w,
                   CallRecover(v) \/ FetchEnds(v) \/ RestoreEnds(v) \/ BackInService(v)
                     \/ RecoverAgain(v)
            PROVE  recovery'[w] = recovery[w]
        BY <2>a, <3>2 DEF TypeOK, CallRecover, FetchEnds, RestoreEnds, BackInService,
          RecoverAgain
      <3>3. ~(FetchEnds(w) \/ RestoreEnds(w) \/ BackInService(w) \/ RecoverAgain(w))
        BY <1>1 DEF FetchEnds, RestoreEnds, BackInService, RecoveryAccepted, RecoverAgain
      <3>4. \/ \E v \in Worker : \/ \E t \in FailureType : Fail(v, t)
                                 \/ CallRecover(v) \/ FetchEnds(v) \/ RestoreEnds(v)
                                 \/ BackInService(v) \/ RecoverAgain(v)
            \/ recovery' = recovery
        BY <1>1 DEF Next, vars, trainVars, recoveryVars, failVars, EndIteration, Launch,
          Resume, Finish, NextIteration, FinishWork, AcquireLock, BeginCapture, Granted,
          MoveTo, CleanupEnds, StageCompletes, StageAborts
      <3> QED
        BY <1>1, <3>1, <3>2, <3>3, <3>4
    <2>2. q \in Place /\ acked[w] \in Nat
      BY <2>a, IterationsType DEF TypeOK
    <2>3. copies[w][q] \in Int /\ copies[w][q] >= acked[w]
      BY <2>a, <2>2, Numbers, IterationsType DEF DurableUntilWiped, NoCopy
    <2>4. q \in Candidates(w)
      BY <1>1, <2>a, <2>2, <2>3 DEF Candidates, Ordered, NoCopy
    <2>5. PICK p \in Place : IsLatest(w, p) /\ source' = [source EXCEPT ![w] = copies[w][p]]
      BY <2>1, <2>4 DEF CallRecover
    <2>6. source'[w] = copies[w][p] /\ copies[w][p] \in Int
      BY <2>a, <2>5, Numbers, IterationsType DEF TypeOK, NoCopy
    <2>7. copies[w][q] <= copies[w][p]
      BY <2>3, <2>4, <2>5, <2>6 DEF IsLatest
    <2> QED
      BY <2>2, <2>3, <2>6, <2>7
  <1>2. Inductive /\ [Next]_vars =>
          [\A w \in Worker :
             (/\ recovery[w] = "restart" /\ recovery'[w] \in {"fetch", "restore"}
              /\ \E p \in surviving[w] : p \in PeerPlace => ~failed[Partner[w]])
             => source'[w] >= acked[w]]_vars
    BY <1>1
  <1> QED
    BY <1>2, Invariance, PTL DEF Spec, ResumesFromDurable

-----------------------------------------------------------------------------
(***************************************************************************)
(* The refinement of Outage.                                               *)
(***************************************************************************)

\* Every rank starts up, in generation 0.
LEMMA OutageInit == Init => Abstract!Init
  BY DEF Init, Abstract!Init, PhaseOf

\* A failure is a signal, choosing a recovery source ends a restart delay, an
\* accepted recovery ends a restore, and every other step is invisible.
LEMMA OutageStep == Inductive /\ [Next]_vars => [Abstract!Next]_(Abstract!vars)
  <1> SUFFICES ASSUME Inductive, [Next]_vars
               PROVE  Abstract!Next \/ UNCHANGED Abstract!vars
    OBVIOUS
  <1>a. TypeOK /\ OneRecovery
    BY DEF Inductive
  <1> DEFINE phases == [w \in Worker |-> PhaseOf(w)]
  <1>1. ASSUME NEW w \in Worker, NEW t \in FailureType, Fail(w, t) PROVE Abstract!Next
    <2>1. phases' = [v \in Worker |-> IF v \in {w} THEN "restart" ELSE phases[v]]
      BY <1>1, <1>a DEF Fail, PhaseOf, TypeOK
    <2>2. generation' = [v \in Worker |-> generation[v] + (IF v \in {w} THEN 1 ELSE 0)]
      <3>1. generation' = [generation EXCEPT ![w] = generation[w] + 1]
        BY <1>1, <1>a, FailGeneration
      <3>2. \A v \in Worker : generation[v] \in Nat /\ generation[v] + 0 = generation[v]
        BY <1>a, Numbers
      <3> QED
        BY <3>1, <3>2, <1>a DEF TypeOK
    <2>3. generation[w] < MaxSignals[w]
      BY <1>1 DEF Fail
    <2>4. Abstract!Signal({w})
      BY <2>1, <2>2, <2>3 DEF Abstract!Signal
    <2>5. {w} \in (SUBSET Worker) \ {{}}
      OBVIOUS
    <2> QED
      BY <2>4, <2>5 DEF Abstract!Next
  <1>2. ASSUME NEW w \in Worker, CallRecover(w) PROVE Abstract!Next \/ UNCHANGED Abstract!vars
    <2>1. failed[w] /\ generation' = generation /\ failed' = failed
      BY <1>2, <1>a DEF CallRecover, OneRecovery
    <2>2. restarting' = [restarting EXCEPT ![w] = FALSE]
      BY <1>2 DEF CallRecover
    <2>3. CASE restarting[w]
      <3>1. phases[w] = "restart" /\ phases' = [phases EXCEPT ![w] = "restore"]
        BY <2>1, <2>2, <2>3, <1>a DEF PhaseOf, TypeOK
      <3>2. Abstract!Restarted(w)
        BY <3>1, <2>1 DEF Abstract!Restarted
      <3> QED
        BY <3>2 DEF Abstract!Next
    <2>4. CASE ~restarting[w]
      <3>1. restarting' = restarting
        BY <2>2, <2>4, <1>a DEF TypeOK
      <3> QED
        BY <3>1, <2>1 DEF Abstract!vars, PhaseOf
    <2> QED
      BY <2>3, <2>4
  <1>3. ASSUME NEW w \in Worker, BackInService(w) PROVE Abstract!Next
    <2>1. /\ failed[w] /\ ~restarting[w] /\ failed' = [failed EXCEPT ![w] = FALSE]
          /\ generation' = generation /\ restarting' = restarting
      BY <1>3, <1>a DEF BackInService, RecoveryAccepted, OneRecovery
    <2>2. phases[w] = "restore" /\ phases' = [phases EXCEPT ![w] = "up"]
      BY <2>1, <1>a DEF PhaseOf, TypeOK
    <2>3. Abstract!Restored(w)
      BY <2>1, <2>2 DEF Abstract!Restored
    <2> QED
      BY <2>3 DEF Abstract!Next
  <1>4. CASE UNCHANGED <<failed, restarting, generation>>
    BY <1>4 DEF Abstract!vars, PhaseOf
  <1> QED
    BY <1>1, <1>2, <1>3, <1>4 DEF Next, vars, trainVars, ckptVars, failVars, EndIteration,
      Launch, Resume, Finish, NextIteration, FinishWork, AcquireLock, BeginCapture, Granted,
      MoveTo, CleanupEnds, StageCompletes, StageAborts, FetchEnds, RestoreEnds, RecoverAgain

\* Failure, copying and recovery together behave as the abstract outage.
THEOREM ImplementsOutageCorrect == Spec => ImplementsOutage
  BY OutageInit, OutageStep, Invariance, PTL DEF Spec, ImplementsOutage, Abstract!Safe

-----------------------------------------------------------------------------
(***************************************************************************)
(* The event loop: for any processes, any number of events, any delays and *)
(* any turns, whatever the generators call.                                *)
(***************************************************************************)

\* The callbacks that the kernel schedules.
Callback ==
  {Start(p) : p \in Process} \cup {Fire(e) : e \in Created}
  \cup {Check(x[1], x[2]) : x \in Created \X Event}
  \cup {Wake(x[1], x[2], x[3]) : x \in Process \X Event \X Nat}

\* What the agenda holds.
Entry == [at : Nat, urgent : BOOLEAN, do : Callback]

\* The variables have their types.
KernelTypes ==
  /\ agenda \in Seq(Entry)
  /\ kind \in [Created -> {"none", "timeout", "event", "all", "any"}]
  /\ members \in [Created -> SUBSET Event]
  /\ seen \in [Created -> SUBSET Event]
  /\ outcome \in [Event -> {"pending", "ok", "failed"}]
  /\ callbacks \in [Event -> Seq(Callback)]
  /\ running \in Process \cup {None}
  /\ turns \in [Process -> Nat]
  /\ token \in [Process -> Nat]
  /\ awaited \in [Process -> Event]
  /\ interrupted \in SUBSET Process

\* The callbacks on the agenda, in order.
Calls(a) == [i \in 1 .. Len(a) |-> a[i].do]

\* Entry x of the agenda may run before y.
RunsFirst(x, y) == x.at < y.at \/ (x.at = y.at /\ (y.urgent => x.urgent))

\* The agenda a is in the order in which it runs.
InOrder(a) == \A i, j \in 1 .. Len(a) : i < j => RunsFirst(a[i], a[j])

\* The elements of a sequence.
In(s) == {s[i] : i \in 1 .. Len(s)}

\* Event c is an AllOf or an AnyOf.
Condition(c) == kind[c] \in {"all", "any"}

\* What a callback on the agenda is: the trigger of a timeout, the check of a member that
\* was triggered, the resumption by an event that was, or the start of a process.
Scheduled(do) ==
  /\ \A e \in Created : do = Fire(e) => kind[e] = "timeout"
  /\ \A c \in Created, e \in Event :
       do = Check(c, e) => Condition(c) /\ e \in members[c] /\ Triggered(e)
  /\ \A p \in Process, e \in Event, n \in Nat : do = Wake(p, e, n) =>
       /\ Triggered(e) /\ n <= token[p]
       /\ n = token[p] => e = awaited[p]
  /\ \A p \in Process :
       do = Start(p) /\ ~Triggered(p) => turns[p] = 0 \/ p \in interrupted

\* What one is that event e holds.
Held(e, do) ==
  \/ \E c \in Created : do = Check(c, e) /\ Condition(c) /\ e \in members[c]
  \/ \E p \in Process, n \in Nat :
       do = Wake(p, e, n) /\ n <= token[p] /\ (n = token[p] => e = awaited[p])

\* Every callback is one of these, on the agenda and with the events.
AgendaKnown(a) == \A do \in In(Calls(a)) : Scheduled(do)
HeldKnown == \A e \in Event : \A do \in In(callbacks[e]) : Held(e, do)

\* Only events that exist and are pending call back.
PendingHold == \A e \in Event : callbacks[e] # <<>> => Exists(e) /\ ~Triggered(e)

\* An event that was not created is pending; a timeout never fails.
Outcomes ==
  \A e \in Created : /\ kind[e] = "none" => outcome[e] = "pending" /\ seen[e] = {}
                     /\ kind[e] = "timeout" => outcome[e] # "failed"

\* A condition that is pending will see each of its members, and has seen no failure.
Waits(c, a) ==
  /\ members[c] # {} /\ ~(members[c] \subseteq seen[c])
  /\ kind[c] = "any" => seen[c] = {}
  /\ \A e \in seen[c] : outcome[e] = "ok"
  /\ \A e \in members[c] :
       /\ ~Triggered(e) => Check(c, e) \in In(callbacks[e])
       /\ Triggered(e) => e \in seen[c] \/ Check(c, e) \in In(Calls(a))

\* One that was triggered was so for a reason.
Decided(c) ==
  /\ outcome[c] = "ok" => IF kind[c] = "all" THEN \A e \in members[c] : outcome[e] = "ok"
                          ELSE \E e \in members[c] : outcome[e] = "ok"
  /\ outcome[c] = "failed" => \E e \in members[c] : outcome[e] = "failed"

\* Every condition is as it should be.
Conditions ==
  \A c \in Created : Condition(c) => Decided(c) /\ (~Triggered(c) => Waits(c, agenda))

\* The callbacks that would resume process p, whose wait token is n.
Wakers(p, n) == {Start(p)} \cup {Wake(p, e, n) : e \in Event}

\* None, or one, of the elements of the sequence s is in X.
NoneOf(s, X) == \A i \in 1 .. Len(s) : s[i] \notin X
OneOf(s, X) == \E i \in 1 .. Len(s) : s[i] \in X /\ \A k \in 1 .. Len(s) : s[k] \in X => k = i

\* None, or one, of the callbacks in X is on the agenda a or held by an event.
Nothing(a, held, X) == NoneOf(Calls(a), X) /\ \A e \in Event : NoneOf(held[e], X)
Sole(a, held, X) ==
  \/ OneOf(Calls(a), X) /\ \A e \in Event : NoneOf(held[e], X)
  \/ /\ NoneOf(Calls(a), X)
     /\ \E e \in Event : OneOf(held[e], X) /\ \A f \in Event \ {e} : NoneOf(held[f], X)

\* Process p was interrupted before it started.
Unstarted(p) == turns[p] = 0 /\ p \in interrupted

\* Nothing resumes the process whose turn it is, and one callback every other one, but for
\* one that was interrupted before it started.
OneAnswer ==
  /\ running # None => ~Triggered(running)
  /\ \A p \in Process : ~Triggered(p) =>
       /\ running = p => Nothing(agenda, callbacks, Wakers(p, token[p])) /\ p \notin interrupted
       /\ running # p /\ ~Unstarted(p) => Sole(agenda, callbacks, Wakers(p, token[p]))

\* The facts about callbacks, events and conditions.
CallsExact ==
  /\ KernelTypes /\ InOrder(agenda) /\ AgendaKnown(agenda) /\ HeldKnown
  /\ PendingHold /\ Outcomes /\ Conditions

\* The inductive invariant of the event loop.
KernelInductive == CallsExact /\ OneAnswer

-----------------------------------------------------------------------------
(* What scheduling does to the agenda. *)

\* The entries that run before a new one are the first of an agenda in order.
LEMMA EarlierFirst ==
  ASSUME NEW a \in Seq(Entry), InOrder(a), NEW delay \in Nat, NEW urgent \in BOOLEAN
  PROVE  \E n \in 0 .. Len(a) : /\ n = Cardinality(Earlier(a, delay, urgent))
                                /\ Earlier(a, delay, urgent) = 1 .. n
  <1> DEFINE S == Earlier(a, delay, urgent)
  <1>1. S \in SUBSET (1 .. Len(a)) /\ Len(a) \in Nat
    BY DEF Earlier
  <1>2. ASSUME NEW i \in S, NEW j \in 1 .. i PROVE j \in S
    <2>1. i \in 1 .. Len(a) /\ j \in 1 .. Len(a)
      BY <1>1
    <2>2. a[i] \in Entry /\ a[j] \in Entry
      BY <2>1
    <2>3. a[i].at \in Nat /\ a[j].at \in Nat /\ a[i].urgent \in BOOLEAN /\ a[j].urgent \in BOOLEAN
      BY <2>2 DEF Entry
    <2>4. j = i \/ a[j].at < a[i].at \/ (a[j].at = a[i].at /\ (a[i].urgent => a[j].urgent))
      BY <2>1 DEF InOrder, RunsFirst
    <2>5. a[i].at < delay \/ (a[i].at = delay /\ (a[i].urgent \/ ~urgent))
      BY DEF Earlier
    <2>6. a[j].at < delay \/ (a[j].at = delay /\ (a[j].urgent \/ ~urgent))
      <3>1. CASE j = i
        BY <2>5, <3>1
      <3>2. CASE a[j].at < a[i].at
        BY <2>3, <2>5, <3>2
      <3>3. CASE a[j].at = a[i].at /\ (a[i].urgent => a[j].urgent)
        BY <2>5, <3>3
      <3> QED
        BY <2>4, <3>1, <3>2, <3>3
    <2> QED
      BY <2>1, <2>6 DEF Earlier
  <1>3. \A i \in S : \A j \in 1 .. i : j \in S
    BY <1>2
  <1>4. Cardinality(S) \in 0 .. Len(a) /\ S = 1 .. Cardinality(S)
    BY <1>1, <1>3, PrefixCount
  <1> QED
    BY <1>4

\* The n-th place of agenda b is where the callbacks dos are put that are scheduled
\* together; what was behind it moves up.
PutAt(a, b, n, delay, urgent, dos) ==
  /\ b \in Seq(Entry) /\ Len(b) = Len(a) + Len(dos)
  /\ \A i \in 1 .. n : b[i] = a[i]
  /\ \A i \in 1 .. Len(dos) : b[n + i] = [at |-> delay, urgent |-> urgent, do |-> dos[i]]
  /\ \A i \in n + 1 .. Len(a) : b[Len(dos) + i] = a[i]

\* Scheduling puts callbacks behind the entries that run earlier.
LEMMA ScheduledAt ==
  ASSUME NEW a \in Seq(Entry), InOrder(a), NEW delay \in Nat, NEW urgent \in BOOLEAN,
         NEW dos \in Seq(Callback)
  PROVE  \E n \in 0 .. Len(a) :
           /\ Earlier(a, delay, urgent) = 1 .. n
           /\ PutAt(a, ScheduleAll(a, delay, urgent, dos), n, delay, urgent, dos)
  <1>1. PICK n \in 0 .. Len(a) : /\ n = Cardinality(Earlier(a, delay, urgent))
                                 /\ Earlier(a, delay, urgent) = 1 .. n
    BY EarlierFirst
  <1> DEFINE x == SubSeq(a, 1, n)
             y == [i \in 1 .. Len(dos) |-> [at |-> delay, urgent |-> urgent, do |-> dos[i]]]
             z == SubSeq(a, n + 1, Len(a))
             b == ScheduleAll(a, delay, urgent, dos)
  <1>2. b = x \o y \o z
    BY <1>1 DEF ScheduleAll
  <1>3. x \in Seq(Entry) /\ Len(x) = n /\ \A i \in 1 .. n : x[i] = a[i]
    OBVIOUS
  <1>4. y \in Seq(Entry) /\ Len(y) = Len(dos)
    BY DEF Entry
  <1>5. \A i \in 1 .. Len(dos) : y[i] = [at |-> delay, urgent |-> urgent, do |-> dos[i]]
    OBVIOUS
  <1>6. z \in Seq(Entry) /\ Len(z) = Len(a) - n /\ \A i \in 1 .. Len(a) - n : z[i] = a[n + i]
    OBVIOUS
  <1> HIDE DEF x, y, z, b
  <1>7. \A u, v \in Seq(Entry) :
          /\ u \o v \in Seq(Entry) /\ Len(u \o v) = Len(u) + Len(v)
          /\ \A i \in 1 .. Len(u) : (u \o v)[i] = u[i]
          /\ \A i \in 1 .. Len(v) : (u \o v)[Len(u) + i] = v[i]
    OBVIOUS
  <1> DEFINE w == x \o y
  <1>8. /\ w \in Seq(Entry) /\ Len(w) = n + Len(dos)
        /\ \A i \in 1 .. n : w[i] = x[i]
        /\ \A i \in 1 .. Len(dos) : w[n + i] = y[i]
    <2>1. /\ w \in Seq(Entry) /\ Len(w) = Len(x) + Len(y)
          /\ \A i \in 1 .. Len(x) : w[i] = x[i]
          /\ \A i \in 1 .. Len(y) : w[Len(x) + i] = y[i]
      BY <1>3, <1>4, <1>7, Zenon
    <2> QED
      BY <1>3, <1>4, <2>1
  <1>9. b = w \o z
    BY <1>2
  <1> HIDE DEF w
  <1>10. /\ b \in Seq(Entry) /\ Len(b) = Len(w) + Len(z)
         /\ \A i \in 1 .. Len(w) : b[i] = w[i]
         /\ \A i \in 1 .. Len(z) : b[Len(w) + i] = z[i]
    BY <1>6, <1>7, <1>8, <1>9
  <1>11. Len(a) \in Nat /\ Len(dos) \in Nat
    OBVIOUS
  <1>12. Len(b) = Len(a) + Len(dos)
    BY <1>6, <1>8, <1>10, <1>11
  <1>13. \A i \in 1 .. n : b[i] = a[i]
    BY <1>3, <1>8, <1>10, <1>11
  <1>14. \A i \in 1 .. Len(dos) : b[n + i] = y[i]
    <2> TAKE i \in 1 .. Len(dos)
    <2>1. n + i \in 1 .. Len(w) /\ w[n + i] = y[i]
      BY <1>8, <1>11
    <2> QED
      BY <1>10, <2>1
  <1>15. \A i \in n + 1 .. Len(a) : b[Len(dos) + i] = a[i]
    <2> TAKE i \in n + 1 .. Len(a)
    <2>1. i - n \in 1 .. Len(z) /\ z[i - n] = a[n + (i - n)] /\ n + (i - n) = i
      BY <1>6, <1>11
    <2>2. Len(w) + (i - n) = Len(dos) + i
      BY <1>8, <1>11
    <2>3. b[Len(w) + (i - n)] = z[i - n]
      BY <1>10, <2>1
    <2> QED
      BY <2>1, <2>2, <2>3
  <1>16. PutAt(a, b, n, delay, urgent, dos)
    BY <1>5, <1>10, <1>12, <1>13, <1>14, <1>15 DEF PutAt
  <1> QED
    BY <1>1, <1>16 DEF b

\* Every place of the new agenda holds an old entry or a new one.
LEMMA Places ==
  ASSUME NEW a \in Seq(Entry), NEW b, NEW n \in 0 .. Len(a), NEW delay, NEW urgent,
         NEW dos \in Seq(Callback), PutAt(a, b, n, delay, urgent, dos), NEW k \in 1 .. Len(b)
  PROVE  \/ k \in 1 .. n
         \/ \E i \in 1 .. Len(dos) : k = n + i
         \/ \E i \in n + 1 .. Len(a) : k = Len(dos) + i
  <1>1. Len(a) \in Nat /\ Len(dos) \in Nat /\ Len(b) = Len(a) + Len(dos)
    BY DEF PutAt
  <1>2. CASE k <= n
    BY <1>1, <1>2
  <1>3. CASE k > n /\ k <= n + Len(dos)
    <2>1. k - n \in 1 .. Len(dos) /\ k = n + (k - n)
      BY <1>1, <1>3
    <2> QED
      BY <2>1
  <1>4. CASE k > n + Len(dos)
    <2>1. k - Len(dos) \in n + 1 .. Len(a) /\ k = Len(dos) + (k - Len(dos))
      BY <1>1, <1>4
    <2> QED
      BY <2>1
  <1> QED
    BY <1>1, <1>2, <1>3, <1>4


\* The agenda stays in order.
LEMMA StaysInOrder ==
  ASSUME NEW a \in Seq(Entry), InOrder(a), NEW delay \in Nat, NEW urgent \in BOOLEAN,
         NEW dos \in Seq(Callback)
  PROVE  /\ ScheduleAll(a, delay, urgent, dos) \in Seq(Entry)
         /\ InOrder(ScheduleAll(a, delay, urgent, dos))
  <1> DEFINE b == ScheduleAll(a, delay, urgent, dos)
  <1>1. PICK n \in 0 .. Len(a) : /\ Earlier(a, delay, urgent) = 1 .. n
                                 /\ PutAt(a, b, n, delay, urgent, dos)
    BY ScheduledAt
  <1> HIDE DEF b
  <1> DEFINE new(i) == [at |-> delay, urgent |-> urgent, do |-> dos[i]]
  <1>2. Len(a) \in Nat /\ Len(dos) \in Nat /\ Len(b) \in Nat
    BY <1>1 DEF PutAt
  <1>3. \A i, j \in 1 .. Len(a) : i < j => RunsFirst(a[i], a[j])
    BY DEF InOrder
  <1>4. \A i \in 1 .. n, j \in 1 .. Len(dos) : RunsFirst(a[i], new(j))
    <2> TAKE i \in 1 .. n, j \in 1 .. Len(dos)
    <2>1. i \in Earlier(a, delay, urgent)
      BY <1>1
    <2> QED
      BY <2>1 DEF Earlier, RunsFirst
  <1>5. \A i \in n + 1 .. Len(a), j \in 1 .. Len(dos) : RunsFirst(new(j), a[i])
    <2> TAKE i \in n + 1 .. Len(a), j \in 1 .. Len(dos)
    <2>1. i \in 1 .. Len(a) /\ i \notin Earlier(a, delay, urgent)
      BY <1>1, <1>2
    <2>2. a[i] \in Entry
      BY <2>1
    <2>3. a[i].at \in Nat /\ a[i].urgent \in BOOLEAN
      BY <2>2 DEF Entry
    <2>4. ~(a[i].at < delay) /\ ~(a[i].at = delay /\ (a[i].urgent \/ ~urgent))
      BY <2>1 DEF Earlier
    <2> QED
      BY <2>3, <2>4 DEF RunsFirst
  <1>6. \A i, j \in 1 .. Len(dos) : RunsFirst(new(i), new(j))
    BY DEF RunsFirst
  <1> HIDE DEF new
  <1>7. /\ \A i \in 1 .. n : b[i] = a[i]
        /\ \A i \in 1 .. Len(dos) : b[n + i] = new(i)
        /\ \A i \in n + 1 .. Len(a) : b[Len(dos) + i] = a[i]
    BY <1>1 DEF PutAt, new
  <1>a. \A k \in 1 .. Len(b) : \/ k \in 1 .. n
                               \/ \E i \in 1 .. Len(dos) : k = n + i
                               \/ \E i \in n + 1 .. Len(a) : k = Len(dos) + i
    BY <1>1, Places
  <1>8. ASSUME NEW i \in 1 .. Len(b), NEW j \in 1 .. Len(b), i < j PROVE RunsFirst(b[i], b[j])
    <2>1. CASE i \in 1 .. n
      <3>1. CASE j \in 1 .. n
        <4>1. i \in 1 .. Len(a) /\ j \in 1 .. Len(a)
          BY <1>2, <2>1, <3>1
        <4>2. RunsFirst(a[i], a[j])
          BY <1>3, <1>8, <4>1
        <4> QED
          BY <1>7, <2>1, <3>1, <4>2
      <3>2. CASE \E k \in 1 .. Len(dos) : j = n + k
        BY <1>4, <1>7, <2>1, <3>2
      <3>3. ASSUME NEW k \in n + 1 .. Len(a), j = Len(dos) + k PROVE RunsFirst(b[i], b[j])
        <4>1. i < k /\ i \in 1 .. Len(a) /\ k \in 1 .. Len(a)
          BY <1>2, <2>1
        <4>2. b[i] = a[i] /\ b[j] = a[k]
          BY <1>7, <2>1, <3>3
        <4> QED
          BY <1>3, <4>1, <4>2
      <3> QED
        BY <1>a, <3>1, <3>2, <3>3, Zenon
    <2>2. ASSUME NEW k \in 1 .. Len(dos), i = n + k PROVE RunsFirst(b[i], b[j])
      <3>1. CASE \E m \in 1 .. Len(dos) : j = n + m
        BY <1>6, <1>7, <2>2, <3>1
      <3>2. CASE \E m \in n + 1 .. Len(a) : j = Len(dos) + m
        BY <1>5, <1>7, <2>2, <3>2
      <3>3. ~(j \in 1 .. n)
        BY <1>2, <1>8, <2>2
      <3> QED
        BY <1>a, <3>1, <3>2, <3>3, Zenon
    <2>3. ASSUME NEW k \in n + 1 .. Len(a), i = Len(dos) + k PROVE RunsFirst(b[i], b[j])
      <3>1. ~(j \in 1 .. n)
        BY <1>2, <1>8, <2>3
      <3>2. ~(\E m \in 1 .. Len(dos) : j = n + m)
        BY <1>2, <1>8, <2>3
      <3>3. ASSUME NEW m \in n + 1 .. Len(a), j = Len(dos) + m PROVE RunsFirst(b[i], b[j])
        <4>1. k < m /\ k \in 1 .. Len(a) /\ m \in 1 .. Len(a)
          BY <1>2, <1>8, <2>3, <3>3
        <4> QED
          BY <1>3, <1>7, <2>3, <3>3, <4>1
      <3> QED
        BY <1>a, <3>1, <3>2, <3>3, Zenon
    <2> QED
      BY <1>a, <2>1, <2>2, <2>3, Zenon
  <1>9. b \in Seq(Entry)
    BY <1>1 DEF PutAt
  <1> QED
    BY <1>8, <1>9 DEF InOrder, b

\* The calls on the agenda are those that were there and the new ones.
LEMMA CallsAdded ==
  ASSUME NEW a \in Seq(Entry), InOrder(a), NEW delay \in Nat, NEW urgent \in BOOLEAN,
         NEW dos \in Seq(Callback)
  PROVE  In(Calls(ScheduleAll(a, delay, urgent, dos))) = In(Calls(a)) \cup In(dos)
  <1> DEFINE b == ScheduleAll(a, delay, urgent, dos)
  <1>1. PICK n \in 0 .. Len(a) : PutAt(a, b, n, delay, urgent, dos)
    BY ScheduledAt
  <1> HIDE DEF b
  <1>2. Len(a) \in Nat /\ Len(dos) \in Nat /\ Len(b) = Len(a) + Len(dos)
    BY <1>1 DEF PutAt
  <1>3. /\ \A i \in 1 .. n : b[i].do = a[i].do
        /\ \A i \in 1 .. Len(dos) : b[n + i].do = dos[i]
        /\ \A i \in n + 1 .. Len(a) : b[Len(dos) + i].do = a[i].do
    <2>1. \A i \in 1 .. Len(dos) :
            b[n + i] = [at |-> delay, urgent |-> urgent, do |-> dos[i]]
      BY <1>1 DEF PutAt
    <2>2. \A i \in 1 .. Len(dos) :
            [at |-> delay, urgent |-> urgent, do |-> dos[i]].do = dos[i]
      OBVIOUS
    <2>3. \A i \in 1 .. Len(dos) : b[n + i].do = dos[i]
      BY <2>1, <2>2
    <2>4. /\ \A i \in 1 .. n : b[i].do = a[i].do
          /\ \A i \in n + 1 .. Len(a) : b[Len(dos) + i].do = a[i].do
      BY <1>1 DEF PutAt
    <2> QED
      BY <2>3, <2>4
  <1>4. \A s : Len(s) \in Nat => In(Calls(s)) = {s[i].do : i \in 1 .. Len(s)}
    BY DEF In, Calls
  <1>a. \A k \in 1 .. Len(b) : \/ k \in 1 .. n
                               \/ \E i \in 1 .. Len(dos) : k = n + i
                               \/ \E i \in n + 1 .. Len(a) : k = Len(dos) + i
    BY <1>1, Places
  <1>5. ASSUME NEW k \in 1 .. Len(b) PROVE b[k].do \in In(Calls(a)) \cup In(dos)
    <2>a. \A i \in 1 .. Len(a) : a[i].do \in In(Calls(a))
      BY <1>2, <1>4
    <2>1. CASE k \in 1 .. n
      BY <1>2, <1>3, <2>a, <2>1
    <2>2. CASE \E i \in 1 .. Len(dos) : k = n + i
      BY <1>3, <2>2 DEF In
    <2>3. CASE \E i \in n + 1 .. Len(a) : k = Len(dos) + i
      <3>1. PICK i \in n + 1 .. Len(a) : k = Len(dos) + i
        BY <2>3
      <3>2. i \in 1 .. Len(a) /\ b[k].do = a[i].do
        BY <1>2, <1>3, <3>1
      <3> QED
        BY <2>a, <3>2
    <2> QED
      BY <1>a, <2>1, <2>2, <2>3, Zenon
  <1>6. ASSUME NEW k \in 1 .. Len(a) PROVE \E i \in 1 .. Len(b) : b[i].do = a[k].do
    <2>1. CASE k <= n
      <3>1. k \in 1 .. n /\ k \in 1 .. Len(b)
        BY <1>2, <2>1
      <3> QED
        BY <1>3, <3>1
    <2>2. CASE ~(k <= n)
      <3>1. k \in n + 1 .. Len(a) /\ Len(dos) + k \in 1 .. Len(b)
        BY <1>2, <2>2
      <3> QED
        BY <1>3, <3>1
    <2> QED
      BY <2>1, <2>2
  <1>7. ASSUME NEW k \in 1 .. Len(dos) PROVE \E i \in 1 .. Len(b) : b[i].do = dos[k]
    <2>1. n + k \in 1 .. Len(b)
      BY <1>2
    <2> QED
      BY <1>3, <2>1
  <1>8. In(Calls(a)) = {a[i].do : i \in 1 .. Len(a)} /\ In(Calls(b)) = {b[i].do : i \in 1 .. Len(b)}
    BY <1>2, <1>4
  <1>9. In(Calls(b)) = In(Calls(a)) \cup In(dos)
    <2>1. \A x \in In(Calls(b)) : x \in In(Calls(a)) \cup In(dos)
      BY <1>5, <1>8
    <2>2. \A x \in In(Calls(a)) : x \in In(Calls(b))
      BY <1>6, <1>8
    <2>3. \A x \in In(dos) : x \in In(Calls(b))
      BY <1>7, <1>8 DEF In
    <2> QED
      BY <2>1, <2>2, <2>3
  <1> QED
    BY <1>9 DEF b

\* Which of the calls in X are on the agenda after scheduling: if one of them at most was,
\* and one at most is added.
LEMMA OneAdded ==
  ASSUME NEW a \in Seq(Entry), InOrder(a), NEW delay \in Nat, NEW urgent \in BOOLEAN,
         NEW dos \in Seq(Callback), NEW X
  PROVE  LET b == ScheduleAll(a, delay, urgent, dos)
         IN  /\ NoneOf(Calls(a), X) /\ NoneOf(dos, X) => NoneOf(Calls(b), X)
             /\ OneOf(Calls(a), X) /\ NoneOf(dos, X) => OneOf(Calls(b), X)
             /\ NoneOf(Calls(a), X) /\ OneOf(dos, X) => OneOf(Calls(b), X)
  <1> DEFINE b == ScheduleAll(a, delay, urgent, dos)
  <1>1. PICK n \in 0 .. Len(a) : PutAt(a, b, n, delay, urgent, dos)
    BY ScheduledAt
  <1> HIDE DEF b
  <1>2. Len(a) \in Nat /\ Len(dos) \in Nat /\ Len(b) = Len(a) + Len(dos) /\ n \in Nat /\ n <= Len(a)
    BY <1>1 DEF PutAt
  <1>3. \A k \in 1 .. Len(b) : \/ k \in 1 .. n
                               \/ \E i \in 1 .. Len(dos) : k = n + i
                               \/ \E i \in n + 1 .. Len(a) : k = Len(dos) + i
    BY <1>1, Places
  <1> DEFINE c == Calls(a)
             d == Calls(b)
  <1>4. Len(c) = Len(a) /\ Len(d) = Len(b)
    BY <1>2 DEF Calls
  <1>5. /\ \A i \in 1 .. n : d[i] = c[i]
        /\ \A i \in n + 1 .. Len(a) : d[Len(dos) + i] = c[i]
    <2>1. \A i \in 1 .. n : b[i].do = a[i].do /\ i \in 1 .. Len(b) /\ i \in 1 .. Len(a)
      BY <1>1, <1>2 DEF PutAt
    <2>2. \A i \in n + 1 .. Len(a) :
            /\ b[Len(dos) + i].do = a[i].do
            /\ Len(dos) + i \in 1 .. Len(b) /\ i \in 1 .. Len(a)
      BY <1>1, <1>2 DEF PutAt
    <2> QED
      BY <2>1, <2>2 DEF Calls
  <1>6. \A i \in 1 .. Len(dos) : d[n + i] = dos[i]
    <2> TAKE i \in 1 .. Len(dos)
    <2>1. b[n + i] = [at |-> delay, urgent |-> urgent, do |-> dos[i]]
      BY <1>1 DEF PutAt
    <2>2. n + i \in 1 .. Len(b)
      BY <1>2
    <2>3. d[n + i] = b[n + i].do
      BY <2>2 DEF Calls
    <2> QED
      BY <2>1, <2>3
  <1> HIDE DEF c, d
  <1>7. NoneOf(c, X) => \A k \in 1 .. Len(b) : d[k] \in X => \E i \in 1 .. Len(dos) : k = n + i
    <2> SUFFICES ASSUME NoneOf(c, X), NEW k \in 1 .. Len(b), d[k] \in X
                 PROVE  \E i \in 1 .. Len(dos) : k = n + i
      OBVIOUS
    <2>1. k \notin 1 .. n
      BY <1>2, <1>4, <1>5 DEF NoneOf
    <2>2. ~(\E i \in n + 1 .. Len(a) : k = Len(dos) + i)
      BY <1>2, <1>4, <1>5 DEF NoneOf
    <2> QED
      BY <1>3, <2>1, <2>2
  <1>8. NoneOf(c, X) /\ NoneOf(dos, X) => NoneOf(d, X)
    BY <1>4, <1>6, <1>7 DEF NoneOf
  <1>9. OneOf(c, X) /\ NoneOf(dos, X) => OneOf(d, X)
    <2> SUFFICES ASSUME OneOf(c, X), NoneOf(dos, X) PROVE OneOf(d, X)
      OBVIOUS
    <2>1. PICK i \in 1 .. Len(a) : c[i] \in X /\ \A k \in 1 .. Len(a) : c[k] \in X => k = i
      BY <1>4 DEF OneOf
    <2>2. \A k \in 1 .. Len(b) : d[k] \in X => \/ k = i /\ i \in 1 .. n
                                               \/ k = Len(dos) + i /\ i \in n + 1 .. Len(a)
      <3> SUFFICES ASSUME NEW k \in 1 .. Len(b), d[k] \in X
                   PROVE  \/ k = i /\ i \in 1 .. n
                          \/ k = Len(dos) + i /\ i \in n + 1 .. Len(a)
        OBVIOUS
      <3>1. CASE k \in 1 .. n
        BY <1>2, <1>5, <2>1, <3>1
      <3>2. CASE \E m \in n + 1 .. Len(a) : k = Len(dos) + m
        BY <1>2, <1>5, <2>1, <3>2
      <3>3. ~(\E m \in 1 .. Len(dos) : k = n + m)
        BY <1>6 DEF NoneOf
      <3> QED
        BY <1>3, <3>1, <3>2, <3>3
    <2>3. CASE i <= n
      <3>1. i \in 1 .. n /\ i \in 1 .. Len(b) /\ ~(i \in n + 1 .. Len(a))
        BY <1>2, <2>3
      <3>2. d[i] \in X /\ \A k \in 1 .. Len(b) : d[k] \in X => k = i
        BY <1>5, <2>1, <2>2, <3>1
      <3> QED
        BY <1>4, <3>1, <3>2 DEF OneOf
    <2>4. CASE ~(i <= n)
      <3>1. i \in n + 1 .. Len(a) /\ Len(dos) + i \in 1 .. Len(b) /\ ~(i \in 1 .. n)
        BY <1>2, <2>4
      <3>2. d[Len(dos) + i] \in X /\ \A k \in 1 .. Len(b) : d[k] \in X => k = Len(dos) + i
        BY <1>5, <2>1, <2>2, <3>1
      <3> QED
        BY <1>4, <3>1, <3>2 DEF OneOf
    <2> QED
      BY <2>3, <2>4
  <1>10. NoneOf(c, X) /\ OneOf(dos, X) => OneOf(d, X)
    <2> SUFFICES ASSUME NoneOf(c, X), OneOf(dos, X) PROVE OneOf(d, X)
      OBVIOUS
    <2>1. PICK i \in 1 .. Len(dos) :
            dos[i] \in X /\ \A k \in 1 .. Len(dos) : dos[k] \in X => k = i
      BY DEF OneOf
    <2>2. n + i \in 1 .. Len(b) /\ d[n + i] \in X
      BY <1>2, <1>6, <2>1
    <2>3. \A k \in 1 .. Len(b) : d[k] \in X => k = n + i
      BY <1>6, <1>7, <2>1
    <2> QED
      BY <1>4, <2>2, <2>3 DEF OneOf
  <1> QED
    BY <1>8, <1>9, <1>10 DEF b, c, d

\* The agenda without its first entry.
LEMMA RestOfAgenda ==
  ASSUME agenda \in Seq(Entry), InOrder(agenda), agenda # <<>>
  PROVE  /\ Rest \in Seq(Entry) /\ InOrder(Rest) /\ Len(Rest) = Len(agenda) - 1
         /\ 1 \in 1 .. Len(agenda) /\ Due = Calls(agenda)[1] /\ Due \in Callback
         /\ \A i \in 1 .. Len(Rest) : Calls(Rest)[i] = Calls(agenda)[i + 1]
  <1> DEFINE a == agenda
             n == Len(agenda) - 1
             r(i) == [a[i + 1] EXCEPT !.at = @ - Head(a).at]
  <1>1. Len(a) \in Nat /\ n \in Nat /\ Head(a) = a[1] /\ 1 \in 1 .. Len(a)
    OBVIOUS
  <1>2. \A i \in 1 .. Len(a) : a[i] \in Entry
    OBVIOUS
  <1>3. \A i \in 1 .. n : i + 1 \in 1 .. Len(a) /\ 1 < i + 1
    BY <1>1
  <1>4. \A i \in 1 .. n : /\ r(i).at = a[i + 1].at - a[1].at
                          /\ r(i).urgent = a[i + 1].urgent /\ r(i).do = a[i + 1].do
    BY <1>1, <1>2, <1>3 DEF Entry
  <1>5. \A i \in 1 .. n : a[1].at <= a[i + 1].at
    BY <1>1, <1>2, <1>3 DEF InOrder, RunsFirst, Entry
  <1>6. \A i \in 1 .. n : r(i) \in Entry
    <2> TAKE i \in 1 .. n
    <2>1. a[i + 1] \in Entry /\ a[1] \in Entry
      BY <1>1, <1>2, <1>3
    <2>2. a[i + 1].at - a[1].at \in Nat
      BY <1>5, <2>1 DEF Entry
    <2>3. r(i) = [a[i + 1] EXCEPT !.at = a[i + 1].at - a[1].at]
      BY <1>1
    <2> QED
      BY <2>1, <2>2, <2>3 DEF Entry
  <1>7. Rest = [i \in 1 .. n |-> r(i)]
    BY DEF Rest
  <1>8. Rest \in Seq(Entry) /\ Len(Rest) = n /\ \A i \in 1 .. n : Rest[i] = r(i)
    BY <1>1, <1>6, <1>7
  <1>9. InOrder(Rest)
    <2> SUFFICES ASSUME NEW i \in 1 .. n, NEW j \in 1 .. n, i < j
                 PROVE  RunsFirst(r(i), r(j))
      <3> HIDE DEF r
      <3> QED
        BY <1>8 DEF InOrder
    <2>1. i + 1 < j + 1 /\ i + 1 \in 1 .. Len(a) /\ j + 1 \in 1 .. Len(a)
      BY <1>3
    <2>2. RunsFirst(a[i + 1], a[j + 1])
      BY <2>1 DEF InOrder
    <2>3. a[1].at \in Nat /\ a[i + 1].at \in Nat /\ a[j + 1].at \in Nat
      BY <1>1, <1>2, <2>1 DEF Entry
    <2> HIDE DEF r
    <2> QED
      BY <1>4, <2>2, <2>3 DEF RunsFirst
  <1>10. \A i \in 1 .. n : Calls(Rest)[i] = Calls(a)[i + 1]
    BY <1>3, <1>4, <1>8 DEF Calls
  <1>11. Due = Calls(a)[1] /\ Due \in Callback
    BY <1>1, <1>2 DEF Due, Calls, Entry
  <1> QED
    BY <1>1, <1>8, <1>9, <1>10, <1>11

\* What is left on it, when the first entry runs.
LEMMA CallsLeft ==
  ASSUME agenda \in Seq(Entry), InOrder(agenda), agenda # <<>>
  PROVE  /\ In(Calls(agenda)) = In(Calls(Rest)) \cup {Due}
         /\ \A X : /\ NoneOf(Calls(agenda), X) => Due \notin X /\ NoneOf(Calls(Rest), X)
                   /\ OneOf(Calls(agenda), X) /\ Due \in X => NoneOf(Calls(Rest), X)
                   /\ OneOf(Calls(agenda), X) /\ Due \notin X => OneOf(Calls(Rest), X)
  <1> DEFINE c == Calls(agenda)
             d == Calls(Rest)
  <1>1. Len(agenda) \in Nat /\ Len(Rest) = Len(agenda) - 1 /\ Len(Rest) \in Nat
    BY RestOfAgenda
  <1>2. Len(c) = Len(agenda) /\ Len(d) = Len(Rest)
    BY <1>1 DEF Calls
  <1>3. 1 \in 1 .. Len(c) /\ Due = c[1] /\ \A i \in 1 .. Len(d) : d[i] = c[i + 1]
    BY <1>2, RestOfAgenda
  <1> HIDE DEF c, d
  <1>4. \A i \in 1 .. Len(c) : i = 1 \/ (i - 1 \in 1 .. Len(d) /\ (i - 1) + 1 = i)
    BY <1>1, <1>2
  <1>5. \A i \in 1 .. Len(d) : i + 1 \in 1 .. Len(c) /\ i + 1 # 1
    BY <1>1, <1>2
  <1>6. \A i \in 1 .. Len(c) : i = 1 \/ c[i] = d[i - 1]
    BY <1>3, <1>4
  <1>7. In(c) = In(d) \cup {Due}
    <2>1. \A x \in In(c) : x \in In(d) \cup {Due}
      BY <1>3, <1>4, <1>6 DEF In
    <2>2. \A x \in In(d) : x \in In(c)
      BY <1>3, <1>5 DEF In
    <2>3. Due \in In(c)
      BY <1>3 DEF In
    <2> QED
      BY <2>1, <2>2, <2>3
  <1>8. ASSUME NEW X, NoneOf(c, X) PROVE Due \notin X /\ NoneOf(d, X)
    BY <1>3, <1>5, <1>8 DEF NoneOf
  <1>9. ASSUME NEW X, OneOf(c, X), Due \in X PROVE NoneOf(d, X)
    <2>1. \A k \in 1 .. Len(c) : c[k] \in X => k = 1
      BY <1>3, <1>9 DEF OneOf
    <2> QED
      BY <1>3, <1>5, <2>1 DEF NoneOf
  <1>10. ASSUME NEW X, OneOf(c, X), Due \notin X PROVE OneOf(d, X)
    <2>1. PICK i \in 1 .. Len(c) : c[i] \in X /\ \A k \in 1 .. Len(c) : c[k] \in X => k = i
      BY <1>10 DEF OneOf
    <2>2. i # 1 /\ i - 1 \in 1 .. Len(d) /\ d[i - 1] \in X
      BY <1>3, <1>4, <1>6, <1>10, <2>1
    <2>3. \A k \in 1 .. Len(d) : d[k] \in X => k = i - 1
      <3> SUFFICES ASSUME NEW k \in 1 .. Len(d), d[k] \in X PROVE k = i - 1
        OBVIOUS
      <3>1. k + 1 = i
        BY <1>3, <1>5, <2>1
      <3> QED
        BY <3>1
    <2> QED
      BY <2>2, <2>3 DEF OneOf
  <1> QED
    BY <1>7, <1>8, <1>9, <1>10 DEF c, d

-----------------------------------------------------------------------------
(* Callbacks. *)

\* What each kind of callback carries.
LEMMA Carried ==
  /\ \A p : Start(p)[1] = "turn" /\ Start(p)[2] = p
  /\ \A e : Fire(e)[1] = "fire" /\ Fire(e)[2] = e
  /\ \A c, e : Check(c, e)[1] = "check" /\ Check(c, e)[2] = c /\ Check(c, e)[3] = e
  /\ \A p, e, n : /\ Wake(p, e, n)[1] = "resume" /\ Wake(p, e, n)[2] = p
                  /\ Wake(p, e, n)[3] = e /\ Wake(p, e, n)[4] = n
  BY DEF Start, Fire, Check, Wake

\* There is no other.
LEMMA Kinds ==
  /\ \A p \in Process : Start(p) \in Callback
  /\ \A e \in Created : Fire(e) \in Callback
  /\ \A c \in Created, e \in Event : Check(c, e) \in Callback
  /\ \A p \in Process, e \in Event, n \in Nat : Wake(p, e, n) \in Callback
  /\ \A do \in Callback : \/ do[1] = "turn" /\ \E p \in Process : do = Start(p)
                          \/ do[1] = "fire" /\ \E e \in Created : do = Fire(e)
                          \/ do[1] = "check" /\ \E c \in Created, e \in Event : do = Check(c, e)
                          \/ do[1] = "resume" /\ \E p \in Process, e \in Event, n \in Nat :
                                                    do = Wake(p, e, n)
  <1>1. \A p \in Process : Start(p) \in Callback
    BY DEF Callback
  <1>2. \A e \in Created : Fire(e) \in Callback
    BY DEF Callback
  <1>3. ASSUME NEW c \in Created, NEW e \in Event PROVE Check(c, e) \in Callback
    <2>1. <<c, e>> \in Created \X Event /\ <<c, e>>[1] = c /\ <<c, e>>[2] = e
      OBVIOUS
    <2>2. Check(c, e) \in {Check(x[1], x[2]) : x \in Created \X Event}
      BY <2>1
    <2> QED
      BY <2>2 DEF Callback
  <1>4. ASSUME NEW p \in Process, NEW e \in Event, NEW n \in Nat PROVE Wake(p, e, n) \in Callback
    <2> DEFINE t == <<p, e, n>>
    <2>1. t \in Process \X Event \X Nat /\ t[1] = p /\ t[2] = e /\ t[3] = n
      OBVIOUS
    <2> HIDE DEF t
    <2>2. Wake(p, e, n) \in {Wake(x[1], x[2], x[3]) : x \in Process \X Event \X Nat}
      BY <2>1
    <2> QED
      BY <2>2 DEF Callback
  <1>5. ASSUME NEW do \in Callback
        PROVE  \/ do[1] = "turn" /\ \E p \in Process : do = Start(p)
               \/ do[1] = "fire" /\ \E e \in Created : do = Fire(e)
               \/ do[1] = "check" /\ \E c \in Created, e \in Event : do = Check(c, e)
               \/ do[1] = "resume" /\ \E p \in Process, e \in Event, n \in Nat :
                                         do = Wake(p, e, n)
    <2>1. CASE do \in {Start(p) : p \in Process}
      BY <2>1, Carried
    <2>2. CASE do \in {Fire(e) : e \in Created}
      BY <2>2, Carried
    <2>3. CASE do \in {Check(x[1], x[2]) : x \in Created \X Event}
      <3>1. PICK x \in Created \X Event : do = Check(x[1], x[2])
        BY <2>3
      <3>2. x[1] \in Created /\ x[2] \in Event
        OBVIOUS
      <3> QED
        BY <3>1, <3>2, Carried
    <2>4. CASE do \in {Wake(x[1], x[2], x[3]) : x \in Process \X Event \X Nat}
      <3>1. PICK x \in Process \X Event \X Nat : do = Wake(x[1], x[2], x[3])
        BY <2>4
      <3>2. x[1] \in Process /\ x[2] \in Event /\ x[3] \in Nat
        OBVIOUS
      <3> QED
        BY <3>1, <3>2, Carried
    <2> QED
      BY <2>1, <2>2, <2>3, <2>4 DEF Callback
  <1> QED
    BY <1>1, <1>2, <1>3, <1>4, <1>5

\* A process and an event that one creates are different.
LEMMA ProcessOrCreated ==
  /\ Created \subseteq Event /\ Process \subseteq Event /\ Process \cap Created = {}
  /\ None \notin Process
  BY KernelAssumption DEF KernelAssumption, Created, Event

\* A callback is dropped as stale or resumes its process.
LEMMA WakesOrStale ==
  ASSUME NEW do \in Callback, do[1] \in {"turn", "resume"}
  PROVE  /\ do[2] \in Process
         /\ \A p \in Process : do \in Wakers(p, token[p]) => p = do[2]
         /\ ~Stale(do) => ~Triggered(do[2]) /\ do \in Wakers(do[2], token[do[2]])
         /\ Stale(do) /\ ~Triggered(do[2]) => do \notin Wakers(do[2], token[do[2]])
  <1>1. CASE \E p \in Process : do = Start(p)
    BY <1>1, Carried DEF Wakers, Stale
  <1>2. CASE \E p \in Process, e \in Event, n \in Nat : do = Wake(p, e, n)
    BY <1>2, Carried DEF Wakers, Stale
  <1> QED
    BY <1>1, <1>2, Kinds, Carried

\* Nobody goes on because a timeout is over or a condition checked.
LEMMA NoWaker ==
  ASSUME NEW do, do[1] \in {"fire", "check"}, NEW p, NEW n
  PROVE  do \notin Wakers(p, n)
  BY Carried DEF Wakers

\* How a callback that is added to a list counts.
LEMMA Appended ==
  ASSUME NEW s \in Seq(Callback), NEW do \in Callback
  PROVE  /\ Append(s, do) \in Seq(Callback) /\ In(Append(s, do)) = In(s) \cup {do}
         /\ Append(s, do) # <<>>
         /\ \A X : /\ NoneOf(s, X) /\ do \notin X => NoneOf(Append(s, do), X)
                   /\ OneOf(s, X) /\ do \notin X => OneOf(Append(s, do), X)
                   /\ NoneOf(s, X) /\ do \in X => OneOf(Append(s, do), X)
  <1> DEFINE r == Append(s, do)
  <1>1. /\ r \in Seq(Callback) /\ Len(s) \in Nat /\ Len(r) = Len(s) + 1
        /\ \A i \in 1 .. Len(s) : r[i] = s[i] /\ i \in 1 .. Len(r)
        /\ r[Len(s) + 1] = do /\ Len(s) + 1 \in 1 .. Len(r)
    OBVIOUS
  <1>2. r # <<>>
    <2>1. Len(r) # 0
      BY <1>1
    <2> HIDE DEF r
    <2>2. Len(<<>>) = 0
      OBVIOUS
    <2> QED
      BY <2>1, <2>2
  <1> HIDE DEF r
  <1>3. \A i \in 1 .. Len(r) : i \in 1 .. Len(s) \/ i = Len(s) + 1
    BY <1>1
  <1>4. Len(s) + 1 \notin 1 .. Len(s)
    BY <1>1
  <1>5. In(r) = In(s) \cup {do}
    <2>1. \A x \in In(r) : x \in In(s) \cup {do}
      BY <1>1, <1>3 DEF In
    <2>2. \A x \in In(s) : x \in In(r)
      BY <1>1 DEF In
    <2>3. do \in In(r)
      BY <1>1 DEF In
    <2> QED
      BY <2>1, <2>2, <2>3
  <1>6. ASSUME NEW X, NoneOf(s, X), do \notin X PROVE NoneOf(r, X)
    BY <1>1, <1>3, <1>6 DEF NoneOf
  <1>7. ASSUME NEW X, OneOf(s, X), do \notin X PROVE OneOf(r, X)
    <2>1. PICK i \in 1 .. Len(s) : s[i] \in X /\ \A k \in 1 .. Len(s) : s[k] \in X => k = i
      BY <1>7 DEF OneOf
    <2>2. i \in 1 .. Len(r) /\ r[i] \in X /\ \A k \in 1 .. Len(r) : r[k] \in X => k = i
      BY <1>1, <1>3, <1>7, <2>1
    <2> QED
      BY <2>2 DEF OneOf
  <1>8. ASSUME NEW X, NoneOf(s, X), do \in X PROVE OneOf(r, X)
    <2>1. \A k \in 1 .. Len(r) : r[k] \in X => k = Len(s) + 1
      BY <1>1, <1>3, <1>8 DEF NoneOf
    <2> QED
      BY <1>1, <1>8, <2>1 DEF OneOf
  <1> QED
    BY <1>1, <1>2, <1>5, <1>6, <1>7, <1>8 DEF r

-----------------------------------------------------------------------------
(* Triggering an event. *)

\* What an event holds goes to the agenda, and no callback is lost or repeated.
LEMMA TriggerMoves ==
  ASSUME NEW a \in Seq(Entry), InOrder(a), callbacks \in [Event -> Seq(Callback)],
         NEW e \in Event, NEW result, Trigger(a, e, result)
  PROVE  /\ agenda' \in Seq(Entry) /\ InOrder(agenda')
         /\ callbacks' \in [Event -> Seq(Callback)]
         /\ In(Calls(agenda')) = In(Calls(a)) \cup In(callbacks[e])
         /\ callbacks'[e] = <<>> /\ \A f \in Event \ {e} : callbacks'[f] = callbacks[f]
         /\ \A X : /\ Nothing(a, callbacks, X) => Nothing(agenda', callbacks', X)
                   /\ Sole(a, callbacks, X) => Sole(agenda', callbacks', X)
  <1>1. /\ agenda' = ScheduleAll(a, 0, FALSE, callbacks[e])
        /\ callbacks' = [callbacks EXCEPT ![e] = <<>>]
        /\ callbacks[e] \in Seq(Callback)
    BY DEF Trigger
  <1>2. agenda' \in Seq(Entry) /\ InOrder(agenda')
    BY <1>1, StaysInOrder
  <1>3. In(Calls(agenda')) = In(Calls(a)) \cup In(callbacks[e])
    <2>1. 0 \in Nat /\ FALSE \in BOOLEAN
      OBVIOUS
    <2>2. In(Calls(ScheduleAll(a, 0, FALSE, callbacks[e]))) = In(Calls(a)) \cup In(callbacks[e])
      BY <1>1, <2>1, CallsAdded, Zenon
    <2> QED
      BY <1>1, <2>2, Zenon
  <1>4. <<>> \in Seq(Callback) /\ \A X : NoneOf(<<>>, X)
    BY DEF NoneOf
  <1>5. callbacks' \in [Event -> Seq(Callback)]
    BY <1>1, <1>4
  <1>6. callbacks'[e] = <<>> /\ \A f \in Event \ {e} : callbacks'[f] = callbacks[f]
    BY <1>1
  <1>7. \A X : /\ NoneOf(Calls(a), X) /\ NoneOf(callbacks[e], X) => NoneOf(Calls(agenda'), X)
               /\ OneOf(Calls(a), X) /\ NoneOf(callbacks[e], X) => OneOf(Calls(agenda'), X)
               /\ NoneOf(Calls(a), X) /\ OneOf(callbacks[e], X) => OneOf(Calls(agenda'), X)
    BY <1>1, OneAdded
  <1>8. ASSUME NEW X, Nothing(a, callbacks, X) PROVE Nothing(agenda', callbacks', X)
    BY <1>4, <1>6, <1>7, <1>8 DEF Nothing
  <1>9. ASSUME NEW X, Sole(a, callbacks, X) PROVE Sole(agenda', callbacks', X)
    <2>1. CASE OneOf(Calls(a), X) /\ \A f \in Event : NoneOf(callbacks[f], X)
      <3>1. OneOf(Calls(agenda'), X)
        BY <1>7, <2>1
      <3>2. \A f \in Event : NoneOf(callbacks'[f], X)
        BY <1>4, <1>6, <2>1
      <3> QED
        BY <3>1, <3>2 DEF Sole
    <2>2. ASSUME NoneOf(Calls(a), X), NEW f \in Event, OneOf(callbacks[f], X),
                 \A g \in Event \ {f} : NoneOf(callbacks[g], X)
          PROVE  Sole(agenda', callbacks', X)
      <3>1. CASE f = e
        <4>1. OneOf(Calls(agenda'), X)
          BY <1>7, <2>2, <3>1
        <4>2. \A g \in Event : NoneOf(callbacks'[g], X)
          BY <1>4, <1>6, <2>2, <3>1
        <4> QED
          BY <4>1, <4>2 DEF Sole
      <3>2. CASE f # e
        <4>1. NoneOf(Calls(agenda'), X)
          BY <1>7, <2>2, <3>2
        <4>2. OneOf(callbacks'[f], X)
          BY <1>6, <2>2, <3>2
        <4>3. \A g \in Event \ {f} : NoneOf(callbacks'[g], X)
          BY <1>4, <1>6, <2>2
        <4> QED
          BY <4>1, <4>2, <4>3 DEF Sole
      <3> QED
        BY <3>1, <3>2
    <2> QED
      BY <1>9, <2>1, <2>2 DEF Sole
  <1> QED
    BY <1>2, <1>3, <1>5, <1>6, <1>8, <1>9

\* They are kept when an event is triggered that was pending, or was a timeout.
LEMMA TriggerKeeps ==
  ASSUME CallsExact, NEW a \in Seq(Entry), InOrder(a), AgendaKnown(a),
         NEW e \in Event, NEW result \in {"ok", "failed"}, Trigger(a, e, result), Exists(e),
         outcome[e] \in {"pending", result},
         e \in Created /\ kind[e] = "timeout" => result = "ok",
         UNCHANGED <<kind, members, turns, token, awaited>>,
         seen' \in [Created -> SUBSET Event],
         \A c \in Created : c # e => seen'[c] = seen[c],
         running' \in Process \cup {None}, interrupted' \in SUBSET Process,
         \A p \in Process : p # e => (p \in interrupted' <=> p \in interrupted),
         \A c \in Created : Condition(c) /\ ~Triggered(c) /\ c # e => Waits(c, a),
         e \in Created /\ Condition(e) => Decided(e)'
  PROVE  CallsExact'
  <1> USE DEF CallsExact, KernelTypes
  <1>1. /\ agenda' \in Seq(Entry) /\ InOrder(agenda')
        /\ callbacks' \in [Event -> Seq(Callback)]
        /\ In(Calls(agenda')) = In(Calls(a)) \cup In(callbacks[e])
        /\ callbacks'[e] = <<>> /\ \A f \in Event \ {e} : callbacks'[f] = callbacks[f]
    BY TriggerMoves
  <1>2. /\ outcome' \in [Event -> {"pending", "ok", "failed"}]
        /\ outcome'[e] = result /\ \A f \in Event \ {e} : outcome'[f] = outcome[f]
    BY DEF Trigger
  <1>3. \A f \in Event : Triggered(f) => Triggered(f)' /\ outcome'[f] = outcome[f]
    BY <1>2 DEF Triggered
  <1>4. Triggered(e)' /\ \A f \in Event \ {e} : Triggered(f)' <=> Triggered(f)
    BY <1>2 DEF Triggered
  <1>5. \A c : Condition(c)' <=> Condition(c)
    BY DEF Condition
  <1>6. KernelTypes'
    BY <1>1, <1>2
  <1>7. ASSUME NEW do \in In(Calls(a)) PROVE Scheduled(do)'
    <2>1. Scheduled(do)
      BY DEF AgendaKnown
    <2>2. \A f \in Created : do = Fire(f) => kind'[f] = "timeout"
      BY <2>1 DEF Scheduled
    <2>3. \A c \in Created, f \in Event :
            do = Check(c, f) => Condition(c)' /\ f \in members'[c] /\ Triggered(f)'
      BY <1>3, <1>5, <2>1 DEF Scheduled
    <2>4. \A p \in Process, f \in Event, n \in Nat : do = Wake(p, f, n) =>
            /\ Triggered(f)' /\ n <= token'[p]
            /\ n = token'[p] => f = awaited'[p]
      BY <1>3, <2>1 DEF Scheduled
    <2>5. \A p \in Process :
            do = Start(p) /\ ~Triggered(p)' => turns'[p] = 0 \/ p \in interrupted'
      <3> SUFFICES ASSUME NEW p \in Process, do = Start(p), ~Triggered(p)'
                   PROVE  turns'[p] = 0 \/ p \in interrupted'
        OBVIOUS
      <3>1. p # e /\ p \in Event /\ ~Triggered(p)
        BY <1>3, <1>4, ProcessOrCreated
      <3> QED
        BY <2>1, <3>1 DEF Scheduled
    <2> QED
      BY <2>2, <2>3, <2>4, <2>5 DEF Scheduled
  <1>8. ASSUME NEW do \in In(callbacks[e]) PROVE Scheduled(do)'
    <2>1. Held(e, do)
      BY DEF HeldKnown
    <2>2. CASE \E c \in Created : do = Check(c, e) /\ Condition(c) /\ e \in members[c]
      <3>1. PICK c \in Created : do = Check(c, e) /\ Condition(c) /\ e \in members[c]
        BY <2>2
      <3>2. do[1] = "check" /\ do[2] = c /\ do[3] = e
        BY <3>1, Carried
      <3>3. \A d \in Created, f \in Event : do = Check(d, f) => d = c /\ f = e
        BY <3>2, Carried
      <3>4. /\ \A f \in Created : do # Fire(f)
            /\ \A p \in Process, f \in Event, n \in Nat : do # Wake(p, f, n)
            /\ \A p \in Process : do # Start(p)
        BY <3>2, Carried
      <3> QED
        BY <1>4, <1>5, <3>1, <3>3, <3>4 DEF Scheduled
    <2>3. CASE \E p \in Process, n \in Nat :
                 do = Wake(p, e, n) /\ n <= token[p] /\ (n = token[p] => e = awaited[p])
      <3>1. PICK p \in Process, n \in Nat :
              do = Wake(p, e, n) /\ n <= token[p] /\ (n = token[p] => e = awaited[p])
        BY <2>3
      <3>a. do = Wake(p, e, n)
        BY <3>1
      <3>2. do[1] = "resume" /\ do[2] = p /\ do[3] = e /\ do[4] = n
        BY <3>a, Carried
      <3>3. \A q \in Process, f \in Event, m \in Nat : do = Wake(q, f, m) => q = p /\ f = e /\ m = n
        BY <3>2, Carried
      <3>4. /\ \A f \in Created : do # Fire(f)
            /\ \A c \in Created, f \in Event : do # Check(c, f)
            /\ \A q \in Process : do # Start(q)
        BY <3>2, Carried
      <3> QED
        BY <1>4, <3>1, <3>3, <3>4 DEF Scheduled
    <2> QED
      BY <2>1, <2>2, <2>3 DEF Held
  <1>9. AgendaKnown(agenda)'
    BY <1>1, <1>7, <1>8 DEF AgendaKnown
  <1>10. HeldKnown'
    <2> SUFFICES ASSUME NEW f \in Event, NEW do \in In(callbacks'[f]) PROVE Held(f, do)'
      BY DEF HeldKnown
    <2>1. f # e
      BY <1>1 DEF In
    <2>2. Held(f, do)
      BY <1>1, <2>1 DEF HeldKnown
    <2> QED
      BY <1>5, <2>2 DEF Held
  <1>11. PendingHold'
    BY <1>1, <1>4 DEF PendingHold, Exists
  <1>12. Outcomes'
    <2>1. ASSUME NEW f \in Created, kind'[f] = "none"
          PROVE  outcome'[f] = "pending" /\ seen'[f] = {}
      <3>1. f # e /\ f \in Event
        BY <2>1, ProcessOrCreated DEF Exists
      <3> QED
        BY <1>2, <2>1, <3>1 DEF Outcomes
    <2>2. ASSUME NEW f \in Created, kind'[f] = "timeout" PROVE outcome'[f] # "failed"
      <3>1. f \in Event
        BY ProcessOrCreated
      <3> QED
        BY <1>2, <2>2, <3>1 DEF Outcomes
    <2> QED
      BY <2>1, <2>2 DEF Outcomes
  <1>13. ASSUME NEW c \in Created, Condition(c), c # e
         PROVE  Decided(c)' /\ (~Triggered(c)' => Waits(c, agenda)')
    <2>1. c \in Event /\ outcome'[c] = outcome[c] /\ (Triggered(c)' <=> Triggered(c))
      BY <1>2, <1>4, <1>13, ProcessOrCreated
    <2>2. /\ members'[c] = members[c] /\ members[c] \subseteq Event
          /\ seen'[c] = seen[c] /\ seen[c] \subseteq Event /\ kind'[c] = kind[c]
      BY <1>13
    <2>3. Decided(c)
      BY <1>13 DEF Conditions
    <2>4. \A f \in members[c] : outcome[f] \in {"ok", "failed"} => outcome'[f] = outcome[f]
      BY <1>3, <2>2 DEF Triggered
    <2>5. Decided(c)'
      BY <2>1, <2>2, <2>3, <2>4 DEF Decided
    <2>6. ASSUME ~Triggered(c)' PROVE Waits(c, agenda)'
      <3>1. Waits(c, a)
        BY <1>13, <2>1, <2>6
      <3>2. \A f \in seen[c] : outcome'[f] = "ok"
        BY <1>3, <2>2, <3>1 DEF Waits, Triggered
      <3>3. ASSUME NEW f \in members[c], ~Triggered(f)' PROVE Check(c, f) \in In(callbacks'[f])
        <4>1. f # e /\ f \in Event /\ ~Triggered(f)
          BY <1>3, <1>4, <2>2, <3>3
        <4> QED
          BY <1>1, <3>1, <4>1 DEF Waits
      <3>4. ASSUME NEW f \in members[c], Triggered(f)'
            PROVE  f \in seen[c] \/ Check(c, f) \in In(Calls(agenda'))
        <4>1. f \in Event
          BY <2>2
        <4>2. CASE Triggered(f)
          BY <1>1, <3>1, <4>2 DEF Waits
        <4>3. CASE ~Triggered(f)
          <5>1. f = e
            BY <1>4, <3>4, <4>1, <4>3
          <5> QED
            BY <1>1, <3>1, <4>3, <5>1 DEF Waits
        <4> QED
          BY <4>2, <4>3
      <3> QED
        BY <2>2, <3>1, <3>2, <3>3, <3>4 DEF Waits
    <2> QED
      BY <2>5, <2>6
  <1>14. Conditions'
    <2> SUFFICES ASSUME NEW c \in Created, Condition(c)'
                 PROVE  Decided(c)' /\ (~Triggered(c)' => Waits(c, agenda)')
      BY DEF Conditions
    <2>1. CASE c = e
      BY <1>4, <1>5, <2>1
    <2>2. CASE c # e
      BY <1>5, <1>13, <2>2
    <2> QED
      BY <2>1, <2>2
  <1> QED
    BY <1>1, <1>6, <1>9, <1>10, <1>11, <1>12, <1>14

-----------------------------------------------------------------------------
(* The event loop. *)

\* What is known of the rest of the agenda when its first entry runs.
LEMMA RestKnown ==
  ASSUME CallsExact, agenda # <<>>
  PROVE  /\ Rest \in Seq(Entry) /\ InOrder(Rest) /\ AgendaKnown(Rest)
         /\ Due \in Callback /\ Scheduled(Due)
         /\ In(Calls(agenda)) = In(Calls(Rest)) \cup {Due}
         /\ \A c : Waits(c, agenda) /\ (\A e \in members[c] : Due # Check(c, e)) => Waits(c, Rest)
  <1>1. agenda \in Seq(Entry) /\ InOrder(agenda)
    BY DEF CallsExact, KernelTypes
  <1>2. Rest \in Seq(Entry) /\ InOrder(Rest) /\ Due \in Callback
    BY <1>1, RestOfAgenda
  <1>3. In(Calls(agenda)) = In(Calls(Rest)) \cup {Due}
    BY <1>1, CallsLeft
  <1>4. AgendaKnown(Rest) /\ Scheduled(Due)
    BY <1>3 DEF CallsExact, AgendaKnown
  <1>5. ASSUME NEW c, Waits(c, agenda), \A e \in members[c] : Due # Check(c, e)
        PROVE  Waits(c, Rest)
    BY <1>3, <1>5 DEF Waits
  <1> QED
    BY <1>2, <1>3, <1>4, <1>5

\* How many callbacks resume a process, when the first entry of the agenda is none or is one.
LEMMA RestAnswers ==
  ASSUME CallsExact, agenda # <<>>, NEW X
  PROVE  /\ Sole(agenda, callbacks, X) /\ Due \notin X => Sole(Rest, callbacks, X)
         /\ Sole(agenda, callbacks, X) /\ Due \in X => Nothing(Rest, callbacks, X)
  <1>1. agenda \in Seq(Entry) /\ InOrder(agenda)
    BY DEF CallsExact, KernelTypes
  <1> QED
    BY <1>1, CallsLeft DEF Sole, Nothing

\* The end of a timeout.
LEMMA FireTimeoutKeeps ==
  ASSUME KernelInductive, FireTimeout PROVE KernelInductive'
  <1> USE DEF KernelInductive
  <1> DEFINE e == Due[2]
  <1>1. running = None /\ agenda # <<>> /\ Due[1] = "fire" /\ Trigger(Rest, e, "ok")
    BY DEF FireTimeout, Stepping
  <1>2. UNCHANGED <<kind, members, seen, running, turns, token, awaited, interrupted>>
    BY DEF FireTimeout, eventVars, turnVars, waitVars
  <1>3. /\ Rest \in Seq(Entry) /\ InOrder(Rest) /\ AgendaKnown(Rest)
        /\ Due \in Callback /\ Scheduled(Due)
    BY <1>1, RestKnown
  <1>4. e \in Created /\ Due = Fire(e) /\ kind[e] = "timeout"
    BY <1>1, <1>3, Kinds, Carried DEF Scheduled
  <1>5. e \in Event /\ e \notin Process /\ Exists(e) /\ ~Condition(e)
    BY <1>4, ProcessOrCreated DEF Exists, Condition
  <1>6. outcome[e] \in {"pending", "ok"}
    <2>1. e \in Created /\ outcome[e] \in {"pending", "ok", "failed"}
      BY <1>4, <1>5 DEF CallsExact, KernelTypes
    <2> QED
      BY <1>4, <2>1 DEF CallsExact, Outcomes
  <1>7. \A c \in Created : Condition(c) /\ ~Triggered(c) => Waits(c, Rest)
    <2>1. \A c, f : Due # Check(c, f)
      BY <1>1, Carried
    <2> QED
      BY <1>1, <2>1, RestKnown DEF CallsExact, Conditions
  <1> HIDE DEF e
  <1>8. CallsExact'
    <2>1. seen' \in [Created -> SUBSET Event] /\ running' \in Process \cup {None} /\ interrupted' \in SUBSET Process
      BY <1>2 DEF CallsExact, KernelTypes
    <2> QED
      BY <1>1, <1>2, <1>3, <1>5, <1>6, <1>7, <2>1, TriggerKeeps
  <1>9. OneAnswer'
    <2> SUFFICES ASSUME NEW p \in Process, ~Triggered(p)', ~Unstarted(p)
                 PROVE  Sole(agenda', callbacks', Wakers(p, token[p]))
      BY <1>1, <1>2, ProcessOrCreated DEF OneAnswer, Unstarted
    <2>1. ~Triggered(p)
      BY <1>1, <1>5 DEF Triggered, Trigger, CallsExact, KernelTypes
    <2>2. Sole(agenda, callbacks, Wakers(p, token[p]))
      BY <1>1, <2>1, ProcessOrCreated DEF OneAnswer
    <2>3. Due \notin Wakers(p, token[p])
      BY <1>1, NoWaker
    <2>4. Sole(Rest, callbacks, Wakers(p, token[p]))
      BY <1>1, <2>2, <2>3, RestAnswers
    <2> QED
      BY <1>1, <1>3, <1>5, <2>4, TriggerMoves DEF CallsExact, KernelTypes
  <1> QED
    BY <1>8, <1>9

\* The facts about callbacks are kept when the first entry of the agenda triggers nothing.
LEMMA RestKeeps ==
  ASSUME CallsExact, agenda # <<>>, agenda' = Rest,
         UNCHANGED <<kind, members, outcome, callbacks, token, awaited>>,
         seen' \in [Created -> SUBSET Event], turns' \in [Process -> Nat],
         running' \in Process \cup {None}, interrupted' \in SUBSET Process,
         \A e \in Created : kind[e] = "none" => seen'[e] = {},
         \A p \in Process :
           ~Triggered(p) /\ Start(p) \in In(Calls(Rest)) /\ (turns[p] = 0 \/ p \in interrupted)
             => turns'[p] = 0 \/ p \in interrupted',
         \A c \in Created : Condition(c) /\ ~Triggered(c) => Waits(c, agenda)'
  PROVE  CallsExact'
  <1> USE DEF CallsExact, KernelTypes
  <1>1. Rest \in Seq(Entry) /\ InOrder(Rest) /\ AgendaKnown(Rest)
    BY RestKnown
  <1>2. KernelTypes' /\ InOrder(agenda')
    BY <1>1
  <1>3. /\ \A e : Triggered(e)' <=> Triggered(e)
        /\ \A c : Condition(c)' <=> Condition(c)
    BY DEF Triggered, Condition
  <1>4. AgendaKnown(agenda)'
    <2> SUFFICES ASSUME NEW do \in In(Calls(Rest)) PROVE Scheduled(do)'
      BY DEF AgendaKnown
    <2>1. Scheduled(do)
      BY <1>1 DEF AgendaKnown
    <2> QED
      BY <1>3, <2>1 DEF Scheduled
  <1>5. HeldKnown'
    <2> SUFFICES ASSUME NEW f \in Event, NEW do \in In(callbacks[f]) PROVE Held(f, do)'
      BY DEF HeldKnown
    <2>1. Held(f, do)
      BY DEF HeldKnown
    <2> QED
      BY <1>3, <2>1 DEF Held
  <1>6. PendingHold'
    BY <1>3 DEF PendingHold, Exists
  <1>7. Outcomes'
    BY DEF Outcomes
  <1>8. Conditions'
    BY <1>3 DEF Conditions, Decided
  <1> QED
    BY <1>1, <1>2, <1>4, <1>5, <1>6, <1>7, <1>8

\* A condition looks at a member that was triggered.
LEMMA CheckConditionKeeps ==
  ASSUME KernelInductive, CheckCondition PROVE KernelInductive'
  <1> USE DEF KernelInductive
  <1>1. running = None /\ agenda # <<>> /\ Due[1] = "check"
    BY DEF CheckCondition, Stepping
  <1>2. UNCHANGED <<kind, members, running, turns, token, awaited, interrupted>>
    BY DEF CheckCondition, turnVars, waitVars
  <1>3. /\ Rest \in Seq(Entry) /\ InOrder(Rest) /\ AgendaKnown(Rest)
        /\ Due \in Callback /\ Scheduled(Due)
    BY <1>1, RestKnown
  <1>4. PICK c \in Created, e \in Event : Due = Check(c, e)
    BY <1>1, <1>3, Kinds, Carried
  <1>a. PICK verdict : verdict = Verdict(c, e)
    OBVIOUS
  <1>b. /\ Triggered(c) => agenda' = Rest /\ UNCHANGED <<outcome, callbacks, seen>>
        /\ ~Triggered(c) => /\ seen' = [seen EXCEPT ![c] = @ \cup {e}]
                            /\ verdict = "pending" =>
                                 agenda' = Rest /\ UNCHANGED <<outcome, callbacks>>
                            /\ verdict # "pending" => Trigger(Rest, c, verdict)
    <2>1. Due[2] = c /\ Due[3] = e
      BY <1>4, Carried
    <2> QED
      BY <1>a, <2>1 DEF CheckCondition
  <1>5. Condition(c) /\ e \in members[c] /\ Triggered(e)
    BY <1>3, <1>4 DEF Scheduled
  <1>6. c \in Event /\ c \notin Process /\ Exists(c) /\ members[c] \subseteq Event
    BY <1>4, <1>5, ProcessOrCreated DEF Exists, Condition, CallsExact, KernelTypes
  <1>7. CASE Triggered(c)
    <2>1. agenda' = Rest /\ UNCHANGED <<outcome, callbacks, seen>>
      BY <1>7, <1>b
    <2>2. \A d \in Created : Condition(d) /\ ~Triggered(d) => Waits(d, Rest)
      <3>1. \A d : ~Triggered(d) => \A f : Due # Check(d, f)
        BY <1>4, <1>7, Carried
      <3> QED
        BY <1>1, <3>1, RestKnown DEF CallsExact, Conditions
    <2>3. \A d \in Created : Condition(d) /\ ~Triggered(d) => Waits(d, agenda)'
      BY <1>2, <2>1, <2>2 DEF Waits, Triggered
    <2>4. \A d \in Created : kind[d] = "none" => seen'[d] = {}
      BY <2>1 DEF CallsExact, Outcomes
    <2>5. CallsExact'
      <3>1. /\ seen' \in [Created -> SUBSET Event] /\ turns' \in [Process -> Nat]
            /\ running' \in Process \cup {None} /\ interrupted' \in SUBSET Process
        BY <1>2, <2>1 DEF CallsExact, KernelTypes
      <3> QED
        BY <1>1, <1>2, <2>1, <2>3, <2>4, <3>1, RestKeeps
    <2>6. ASSUME NEW p \in Process, ~Triggered(p), ~Unstarted(p)
          PROVE  Sole(Rest, callbacks, Wakers(p, token[p]))
      <3>1. Sole(agenda, callbacks, Wakers(p, token[p]))
        BY <1>1, <2>6, ProcessOrCreated DEF OneAnswer
      <3> QED
        BY <1>1, <3>1, NoWaker, RestAnswers
    <2>7. OneAnswer'
      BY <1>1, <1>2, <2>1, <2>6, ProcessOrCreated DEF OneAnswer, Triggered, Unstarted
    <2> QED
      BY <2>5, <2>7
  <1>8. CASE ~Triggered(c)
    <2>1. Waits(c, agenda)
      BY <1>4, <1>5, <1>8 DEF CallsExact, Conditions
    <2>2. seen' = [seen EXCEPT ![c] = @ \cup {e}]
      BY <1>8, <1>b
    <2>3. /\ seen' \in [Created -> SUBSET Event] /\ seen'[c] = seen[c] \cup {e}
          /\ \A d \in Created : d # c => seen'[d] = seen[d]
      BY <1>4, <2>2 DEF CallsExact, KernelTypes
    <2>4. \A d \in Created : Condition(d) /\ ~Triggered(d) /\ d # c => Waits(d, Rest)
      <3>1. \A d : d # c => \A f : Due # Check(d, f)
        BY <1>4, Carried
      <3> QED
        BY <1>1, <3>1, RestKnown DEF CallsExact, Conditions
    <2>5. outcome[e] \in {"ok", "failed"} /\ e # c
      BY <1>4, <1>5, <1>8 DEF Triggered, CallsExact, KernelTypes
    <2>6. verdict \in {"pending", "ok", "failed"}
      BY <1>a DEF Verdict
    <2>7. CASE verdict = "pending"
      <3>1. agenda' = Rest /\ UNCHANGED <<outcome, callbacks>>
        BY <1>8, <1>b, <2>7
      <3>2. outcome[e] = "ok" /\ kind[c] # "any" /\ ~(members[c] \subseteq seen[c] \cup {e})
        BY <1>a, <2>5, <2>7 DEF Verdict
      <3>3. \A f \in members[c] :
              /\ ~Triggered(f) => Check(c, f) \in In(callbacks[f])
              /\ Triggered(f) => f \in seen'[c] \/ Check(c, f) \in In(Calls(Rest))
        <4> TAKE f \in members[c]
        <4>1. ~Triggered(f) => Check(c, f) \in In(callbacks[f])
          BY <2>1 DEF Waits
        <4>2. Triggered(f) => f \in seen[c] \/ Check(c, f) \in In(Calls(agenda))
          BY <2>1 DEF Waits
        <4>3. Check(c, f) = Due => f = e
          BY <1>4, Carried
        <4>4. In(Calls(agenda)) = In(Calls(Rest)) \cup {Due}
          BY <1>1, RestKnown
        <4> QED
          BY <2>3, <4>1, <4>2, <4>3, <4>4
      <3>4. Waits(c, agenda)'
        BY <1>2, <2>1, <2>3, <3>1, <3>2, <3>3 DEF Waits, Triggered
      <3>5. \A d \in Created : Condition(d) /\ ~Triggered(d) => Waits(d, agenda)'
        <4> SUFFICES ASSUME NEW d \in Created, Condition(d), ~Triggered(d), d # c
                     PROVE  Waits(d, agenda)'
          BY <3>4
        <4>1. Waits(d, Rest) /\ seen'[d] = seen[d]
          BY <2>3, <2>4
        <4> QED
          BY <1>2, <3>1, <4>1 DEF Waits, Triggered
      <3>6. \A d \in Created : kind[d] = "none" => seen'[d] = {}
        BY <1>5, <2>3 DEF CallsExact, Outcomes, Condition
      <3>7. CallsExact'
        <4>1. /\ turns' \in [Process -> Nat]
              /\ running' \in Process \cup {None} /\ interrupted' \in SUBSET Process
          BY <1>2 DEF CallsExact, KernelTypes
        <4> QED
          BY <1>1, <1>2, <2>3, <3>1, <3>5, <3>6, <4>1, RestKeeps
      <3>8. ASSUME NEW p \in Process, ~Triggered(p), ~Unstarted(p)
            PROVE  Sole(Rest, callbacks, Wakers(p, token[p]))
        <4>1. Sole(agenda, callbacks, Wakers(p, token[p]))
          BY <1>1, <3>8, ProcessOrCreated DEF OneAnswer
        <4> QED
          BY <1>1, <4>1, NoWaker, RestAnswers
      <3>9. OneAnswer'
        BY <1>1, <1>2, <3>1, <3>8, ProcessOrCreated DEF OneAnswer, Triggered, Unstarted
      <3> QED
        BY <3>7, <3>9
    <2>8. CASE verdict \in {"ok", "failed"}
      <3>1. Trigger(Rest, c, verdict)
        BY <1>8, <1>b, <2>8
      <3>2. /\ outcome'[c] = verdict /\ \A f \in Event \ {c} : outcome'[f] = outcome[f]
        BY <1>6, <3>1 DEF Trigger, CallsExact, KernelTypes
      <3>3. Decided(c)'
        <4>3. CASE verdict = "failed"
          <5>1. outcome'[e] = "failed"
            BY <1>a, <2>5, <3>2, <4>3 DEF Verdict
          <5> QED
            BY <1>2, <1>5, <3>2, <4>3, <5>1 DEF Decided
        <4>4. CASE verdict = "ok" /\ kind[c] = "any"
          <5>1. outcome'[e] = "ok"
            BY <1>a, <2>5, <3>2, <4>4 DEF Verdict
          <5> QED
            BY <1>2, <1>5, <3>2, <4>4, <5>1 DEF Decided
        <4>5. CASE verdict = "ok" /\ kind[c] = "all"
          <5>1. outcome[e] = "ok" /\ members[c] \subseteq seen[c] \cup {e}
            BY <1>a, <2>5, <4>5 DEF Verdict
          <5>2. \A f \in members[c] : outcome[f] = "ok" /\ f \in Event
            BY <1>6, <2>1, <5>1 DEF Waits
          <5>3. \A f \in members[c] : outcome'[f] = "ok"
            BY <3>2, <4>5, <5>2
          <5> QED
            BY <1>2, <3>2, <4>5, <5>3 DEF Decided
        <4> QED
          BY <1>5, <2>8, <4>3, <4>4, <4>5 DEF Condition
      <3>6. CallsExact'
        <4>1. running' \in Process \cup {None} /\ interrupted' \in SUBSET Process
          BY <1>2 DEF CallsExact, KernelTypes
        <4>2. outcome[c] = "pending" /\ kind[c] # "timeout"
          BY <1>5, <1>8 DEF Triggered, Condition
        <4> QED
          BY <1>2, <1>3, <1>6, <2>3, <2>4, <2>8, <3>1, <3>3, <4>1, <4>2, TriggerKeeps
      <3>7. ASSUME NEW p \in Process, ~Triggered(p)', ~Unstarted(p)
            PROVE  Sole(agenda', callbacks', Wakers(p, token[p]))
        <4>1. ~Triggered(p)
          BY <1>6, <3>2, <3>7, ProcessOrCreated DEF Triggered
        <4>2. Sole(agenda, callbacks, Wakers(p, token[p]))
          BY <1>1, <3>7, <4>1, ProcessOrCreated DEF OneAnswer
        <4>3. Sole(Rest, callbacks, Wakers(p, token[p]))
          BY <1>1, <4>2, NoWaker, RestAnswers
        <4> QED
          BY <1>3, <1>6, <3>1, <4>3, TriggerMoves DEF CallsExact, KernelTypes
      <3>8. OneAnswer'
        BY <1>1, <1>2, <3>7, ProcessOrCreated DEF OneAnswer, Unstarted
      <3> QED
        BY <3>6, <3>8
    <2> QED
      BY <2>6, <2>7, <2>8
  <1> QED
    BY <1>7, <1>8

\* A callback that is stale is dropped.
LEMMA DropResumeKeeps ==
  ASSUME KernelInductive, DropResume PROVE KernelInductive'
  <1> USE DEF KernelInductive
  <1>1. /\ running = None /\ agenda # <<>> /\ Due[1] \in {"turn", "resume"} /\ Stale(Due)
        /\ agenda' = Rest
    BY DEF DropResume, Stepping
  <1>2. UNCHANGED <<kind, members, seen, outcome, callbacks, running, turns, token, awaited,
                    interrupted>>
    BY DEF DropResume, eventVars, turnVars, waitVars
  <1>3. Due \in Callback
    BY <1>1, RestKnown
  <1>4. \A d \in Created : Condition(d) /\ ~Triggered(d) => Waits(d, agenda)'
    <2>1. \A d, f : Due # Check(d, f)
      BY <1>1, Carried
    <2>2. \A d \in Created : Condition(d) /\ ~Triggered(d) => Waits(d, Rest)
      BY <1>1, <2>1, RestKnown DEF CallsExact, Conditions
    <2> QED
      BY <1>1, <1>2, <2>2 DEF Waits, Triggered
  <1>5. CallsExact'
    <2>1. \A d \in Created : kind[d] = "none" => seen'[d] = {}
      BY <1>2 DEF CallsExact, Outcomes
    <2>2. /\ seen' \in [Created -> SUBSET Event] /\ turns' \in [Process -> Nat]
          /\ running' \in Process \cup {None} /\ interrupted' \in SUBSET Process
      BY <1>2 DEF CallsExact, KernelTypes
    <2> QED
      BY <1>1, <1>2, <1>4, <2>1, <2>2, RestKeeps
  <1>6. ASSUME NEW p \in Process, ~Triggered(p), ~Unstarted(p)
        PROVE  Sole(Rest, callbacks, Wakers(p, token[p]))
    <2>1. Sole(agenda, callbacks, Wakers(p, token[p]))
      BY <1>1, <1>6, ProcessOrCreated DEF OneAnswer
    <2>2. Due \notin Wakers(p, token[p])
      BY <1>1, <1>3, <1>6, WakesOrStale
    <2> QED
      BY <1>1, <2>1, <2>2, RestAnswers
  <1>7. OneAnswer'
    BY <1>1, <1>2, <1>6, ProcessOrCreated DEF OneAnswer, Triggered, Unstarted
  <1> QED
    BY <1>5, <1>7

\* An interrupt ends a process that has not started.
LEMMA InterruptUnstartedKeeps ==
  ASSUME KernelInductive, InterruptUnstarted PROVE KernelInductive'
  <1> USE DEF KernelInductive
  <1> DEFINE q == Due[2]
  <1>1. /\ running = None /\ agenda # <<>> /\ Due[1] \in {"turn", "resume"} /\ ~Stale(Due)
        /\ Trigger(Rest, q, "failed") /\ interrupted' = interrupted \ {q}
    BY DEF InterruptUnstarted, Stepping
  <1>2. UNCHANGED <<kind, members, seen, running, turns, token, awaited>>
    BY DEF InterruptUnstarted, eventVars, turnVars
  <1>3. /\ Rest \in Seq(Entry) /\ InOrder(Rest) /\ AgendaKnown(Rest) /\ Due \in Callback
    BY <1>1, RestKnown
  <1>4. q \in Process /\ ~Triggered(q) /\ \A p \in Process : Due \in Wakers(p, token[p]) => p = q
    BY <1>1, <1>3, WakesOrStale
  <1>5. q \in Event /\ q \notin Created /\ Exists(q) /\ outcome[q] = "pending"
    BY <1>4, ProcessOrCreated DEF Exists, Triggered
  <1>6. \A d \in Created : Condition(d) /\ ~Triggered(d) => Waits(d, Rest)
    <2>1. \A d, f : Due # Check(d, f)
      BY <1>1, Carried
    <2> QED
      BY <1>1, <2>1, RestKnown DEF CallsExact, Conditions
  <1> HIDE DEF q
  <1>7. CallsExact'
    <2>1. /\ seen' \in [Created -> SUBSET Event]
          /\ running' \in Process \cup {None} /\ interrupted' \in SUBSET Process
      BY <1>1, <1>2 DEF CallsExact, KernelTypes
    <2>2. \A p \in Process : p # q => (p \in interrupted' <=> p \in interrupted)
      BY <1>1
    <2> QED
      BY <1>1, <1>2, <1>3, <1>5, <1>6, <2>1, <2>2, TriggerKeeps
  <1>8. ASSUME NEW p \in Process, ~Triggered(p)', ~Unstarted(p)'
        PROVE  Sole(agenda', callbacks', Wakers(p, token[p]))
    <2>1. p # q /\ ~Triggered(p)
      BY <1>1, <1>5, <1>8 DEF Triggered, Trigger, CallsExact, KernelTypes
    <2>2. ~Unstarted(p)
      BY <1>1, <1>2, <1>8, <2>1 DEF Unstarted
    <2>3. Sole(agenda, callbacks, Wakers(p, token[p]))
      BY <1>1, <2>1, <2>2, ProcessOrCreated DEF OneAnswer
    <2>4. Sole(Rest, callbacks, Wakers(p, token[p]))
      BY <1>1, <1>4, <2>1, <2>3, RestAnswers
    <2> QED
      BY <1>1, <1>3, <1>5, <2>4, TriggerMoves DEF CallsExact, KernelTypes
  <1>9. OneAnswer'
    BY <1>1, <1>2, <1>8, ProcessOrCreated DEF OneAnswer
  <1> QED
    BY <1>7, <1>9

\* A process goes on.
LEMMA ResumeProcessKeeps ==
  ASSUME KernelInductive, ResumeProcess PROVE KernelInductive'
  <1> USE DEF KernelInductive
  <1> DEFINE q == Due[2]
  <1>1. /\ running = None /\ agenda # <<>> /\ Due[1] \in {"turn", "resume"} /\ ~Stale(Due)
        /\ ~Unstarted(q) /\ running' = q /\ turns' = [turns EXCEPT ![q] = @ + 1]
        /\ interrupted' = interrupted \ {q} /\ agenda' = Rest
    BY DEF ResumeProcess, Stepping, Unstarted
  <1>2. UNCHANGED <<kind, members, seen, outcome, callbacks, token, awaited>>
    BY DEF ResumeProcess, eventVars
  <1>3. Due \in Callback
    BY <1>1, RestKnown
  <1>4. /\ q \in Process /\ ~Triggered(q) /\ Due \in Wakers(q, token[q])
        /\ \A p \in Process : Due \in Wakers(p, token[p]) => p = q
    BY <1>1, <1>3, WakesOrStale
  <1>5. \A d \in Created : Condition(d) /\ ~Triggered(d) => Waits(d, agenda)'
    <2>1. \A d, f : Due # Check(d, f)
      BY <1>1, Carried
    <2>2. \A d \in Created : Condition(d) /\ ~Triggered(d) => Waits(d, Rest)
      BY <1>1, <2>1, RestKnown DEF CallsExact, Conditions
    <2> QED
      BY <1>1, <1>2, <2>2 DEF Waits, Triggered
  <1>6. Nothing(Rest, callbacks, Wakers(q, token[q]))
    <2>1. Sole(agenda, callbacks, Wakers(q, token[q]))
      BY <1>1, <1>4, ProcessOrCreated DEF OneAnswer
    <2> QED
      BY <1>1, <1>4, <2>1, RestAnswers
  <1>7. Start(q) \notin In(Calls(Rest))
    <2>1. NoneOf(Calls(Rest), Wakers(q, token[q])) /\ Start(q) \in Wakers(q, token[q])
      BY <1>6 DEF Nothing, Wakers
    <2> QED
      BY <2>1 DEF NoneOf, In
  <1> HIDE DEF q
  <1>8. CallsExact'
    <2>1. \A d \in Created : kind[d] = "none" => seen'[d] = {}
      BY <1>2 DEF CallsExact, Outcomes
    <2>2. /\ seen' \in [Created -> SUBSET Event] /\ turns' \in [Process -> Nat]
          /\ running' \in Process \cup {None} /\ interrupted' \in SUBSET Process
      BY <1>1, <1>2, <1>4 DEF CallsExact, KernelTypes
    <2>3. \A p \in Process : Start(p) \in In(Calls(Rest)) /\ (turns[p] = 0 \/ p \in interrupted)
            => turns'[p] = 0 \/ p \in interrupted'
      BY <1>1, <1>7 DEF CallsExact, KernelTypes
    <2> QED
      BY <1>1, <1>2, <1>5, <2>1, <2>2, <2>3, RestKeeps
  <1>9. ASSUME NEW p \in Process, p # q, ~Triggered(p), ~Unstarted(p)'
        PROVE  Sole(Rest, callbacks, Wakers(p, token[p]))
    <2>1. ~Unstarted(p)
      BY <1>1, <1>9 DEF Unstarted, CallsExact, KernelTypes
    <2>2. Sole(agenda, callbacks, Wakers(p, token[p]))
      BY <1>1, <1>9, <2>1, ProcessOrCreated DEF OneAnswer
    <2> QED
      BY <1>1, <1>4, <1>9, <2>2, RestAnswers
  <1>10. OneAnswer'
    BY <1>1, <1>2, <1>4, <1>6, <1>9 DEF OneAnswer, Triggered
  <1> QED
    BY <1>8, <1>10

-----------------------------------------------------------------------------
(* The calls of a process. *)

\* What scheduling one callback adds.
LEMMA ScheduleOne ==
  ASSUME CallsExact, NEW delay \in Nat, NEW urgent \in BOOLEAN, NEW do \in Callback,
         NEW b, b = Schedule(agenda, delay, urgent, do)
  PROVE  /\ b \in Seq(Entry) /\ InOrder(b) /\ In(Calls(b)) = In(Calls(agenda)) \cup {do}
         /\ \A X : /\ Nothing(agenda, callbacks, X) /\ do \notin X => Nothing(b, callbacks, X)
                   /\ Sole(agenda, callbacks, X) /\ do \notin X => Sole(b, callbacks, X)
                   /\ Nothing(agenda, callbacks, X) /\ do \in X => Sole(b, callbacks, X)
  <1> DEFINE dos == <<do>>
  <1>1. agenda \in Seq(Entry) /\ InOrder(agenda)
    BY DEF CallsExact, KernelTypes
  <1>2. dos \in Seq(Callback) /\ Len(dos) = 1 /\ dos[1] = do
    OBVIOUS
  <1>3. b = ScheduleAll(agenda, delay, urgent, dos)
    BY DEF Schedule
  <1> HIDE DEF dos
  <1>4. In(dos) = {do}
    <2>1. \A x \in In(dos) : x = do
      BY <1>2 DEF In
    <2>2. do \in In(dos)
      BY <1>2 DEF In
    <2> QED
      BY <2>1, <2>2
  <1>5. \A X : /\ do \notin X => NoneOf(dos, X)
               /\ do \in X => OneOf(dos, X)
    BY <1>2 DEF NoneOf, OneOf
  <1>6. b \in Seq(Entry) /\ InOrder(b)
    BY <1>1, <1>2, <1>3, StaysInOrder
  <1>7. In(Calls(b)) = In(Calls(agenda)) \cup {do}
    <2>1. In(Calls(ScheduleAll(agenda, delay, urgent, dos))) = In(Calls(agenda)) \cup In(dos)
      BY <1>1, <1>2, CallsAdded
    <2> QED
      BY <1>3, <1>4, <2>1, Zenon
  <1>8. \A X : /\ NoneOf(Calls(agenda), X) /\ NoneOf(dos, X) => NoneOf(Calls(b), X)
               /\ OneOf(Calls(agenda), X) /\ NoneOf(dos, X) => OneOf(Calls(b), X)
               /\ NoneOf(Calls(agenda), X) /\ OneOf(dos, X) => OneOf(Calls(b), X)
    BY <1>1, <1>2, <1>3, OneAdded
  <1> QED
    BY <1>5, <1>6, <1>7, <1>8 DEF Nothing, Sole

\* A token of a process that was not ahead of it still is not, and is current only if it was.
LEMMA OlderToken ==
  ASSUME token \in [Process -> Nat], token' \in [Process -> Nat],
         \A p \in Process : token[p] <= token'[p] /\ (token'[p] = token[p] => awaited'[p] = awaited[p])
  PROVE  \A p \in Process, n \in Nat : n <= token[p] =>
           n <= token'[p] /\ (n = token'[p] => n = token[p] /\ awaited'[p] = awaited[p])
  <1> TAKE p \in Process, n \in Nat
  <1>1. token[p] \in Nat /\ token'[p] \in Nat /\ token[p] <= token'[p]
    OBVIOUS
  <1>2. n <= token[p] => n <= token'[p] /\ (n = token'[p] => token'[p] = token[p])
    BY <1>1
  <1> QED
    BY <1>2

\* The facts about callbacks are kept by a call that triggers nothing.
LEMMA CallKeeps ==
  ASSUME CallsExact, outcome' = outcome, seen' = seen, turns' = turns,
         agenda' \in Seq(Entry), InOrder(agenda'),
         kind' \in [Created -> {"none", "timeout", "event", "all", "any"}],
         members' \in [Created -> SUBSET Event], callbacks' \in [Event -> Seq(Callback)],
         running' \in Process \cup {None}, token' \in [Process -> Nat],
         awaited' \in [Process -> Event], interrupted' \in SUBSET Process,
         \A e \in Created : kind[e] # "none" => kind'[e] = kind[e] /\ members'[e] = members[e],
         In(Calls(agenda)) \subseteq In(Calls(agenda')),
         \A e \in Event : In(callbacks[e]) \subseteq In(callbacks'[e]),
         \A do \in In(Calls(agenda')) : do \in In(Calls(agenda)) \/ Scheduled(do)',
         \A e \in Event : \A do \in In(callbacks'[e]) : do \in In(callbacks[e]) \/ Held(e, do)',
         \A e \in Event : callbacks'[e] # <<>> =>
                            callbacks[e] # <<>> \/ (Exists(e)' /\ ~Triggered(e)),
         interrupted \subseteq interrupted',
         \A p \in Process : token[p] <= token'[p] /\ (token'[p] = token[p] => awaited'[p] = awaited[p]),
         \A c \in Created : kind[c] = "none" /\ Condition(c)' => Waits(c, agenda)'
  PROVE  CallsExact'
  <1> USE DEF CallsExact, KernelTypes
  <1>1. KernelTypes'
    OBVIOUS
  <1>2. \A e : Triggered(e)' <=> Triggered(e)
    BY DEF Triggered
  <1>3. \A c \in Created : Condition(c) => /\ Condition(c)' /\ kind[c] # "none"
                                           /\ kind'[c] = kind[c] /\ members'[c] = members[c]
    BY DEF Condition
  <1>4. \A p \in Process, n \in Nat : n <= token[p] =>
          n <= token'[p] /\ (n = token'[p] => n = token[p] /\ awaited'[p] = awaited[p])
    BY OlderToken
  <1>5. AgendaKnown(agenda)'
    <2> SUFFICES ASSUME NEW do \in In(Calls(agenda)) PROVE Scheduled(do)'
      BY DEF AgendaKnown
    <2>1. Scheduled(do)
      BY DEF AgendaKnown
    <2>2. \A e \in Created : do = Fire(e) => kind'[e] = "timeout"
      BY <2>1 DEF Scheduled
    <2>3. \A c \in Created, e \in Event :
            do = Check(c, e) => Condition(c)' /\ e \in members'[c] /\ Triggered(e)'
      BY <1>2, <1>3, <2>1 DEF Scheduled
    <2>4. \A p \in Process, e \in Event, n \in Nat : do = Wake(p, e, n) =>
            /\ Triggered(e)' /\ n <= token'[p]
            /\ n = token'[p] => e = awaited'[p]
      BY <1>2, <1>4, <2>1 DEF Scheduled
    <2>5. \A p \in Process :
            do = Start(p) /\ ~Triggered(p)' => turns'[p] = 0 \/ p \in interrupted'
      BY <1>2, <2>1 DEF Scheduled
    <2> QED
      BY <2>2, <2>3, <2>4, <2>5 DEF Scheduled
  <1>6. HeldKnown'
    <2> SUFFICES ASSUME NEW e \in Event, NEW do \in In(callbacks[e]) PROVE Held(e, do)'
      BY DEF HeldKnown
    <2>1. Held(e, do)
      BY DEF HeldKnown
    <2>2. CASE \E c \in Created : do = Check(c, e) /\ Condition(c) /\ e \in members[c]
      BY <1>3, <2>2 DEF Held
    <2>3. CASE \E p \in Process, n \in Nat :
                 do = Wake(p, e, n) /\ n <= token[p] /\ (n = token[p] => e = awaited[p])
      BY <1>4, <2>3 DEF Held
    <2> QED
      BY <2>1, <2>2, <2>3 DEF Held
  <1>7. PendingHold'
    <2> SUFFICES ASSUME NEW e \in Event, callbacks'[e] # <<>> PROVE Exists(e)' /\ ~Triggered(e)
      BY <1>2 DEF PendingHold
    <2>1. Exists(e) => Exists(e)'
      BY DEF Exists, Event
    <2> QED
      BY <2>1 DEF PendingHold
  <1>8. Outcomes'
    <2> SUFFICES ASSUME NEW e \in Created
                 PROVE  /\ kind'[e] = "none" => outcome[e] = "pending" /\ seen[e] = {}
                        /\ kind'[e] = "timeout" => outcome[e] # "failed"
      BY DEF Outcomes
    <2>1. CASE kind[e] = "none"
      BY <2>1 DEF Outcomes
    <2>2. CASE kind[e] # "none"
      BY <2>2 DEF Outcomes
    <2> QED
      BY <2>1, <2>2
  <1>9. ASSUME NEW c \in Created, Condition(c)'
        PROVE  Decided(c)' /\ (~Triggered(c)' => Waits(c, agenda)')
    <2>1. CASE kind[c] = "none"
      BY <1>9, <2>1 DEF Outcomes, Decided
    <2>2. CASE kind[c] # "none"
      <3>1. Condition(c) /\ kind'[c] = kind[c] /\ members'[c] = members[c]
        BY <1>9, <2>2 DEF Condition
      <3>2. Decided(c)'
        BY <3>1 DEF Conditions, Decided
      <3>3. ASSUME ~Triggered(c)' PROVE Waits(c, agenda)'
        <4>1. Waits(c, agenda) /\ members[c] \subseteq Event
          BY <1>2, <3>1, <3>3 DEF Conditions
        <4>2. \A e \in members[c] :
                /\ ~Triggered(e)' => Check(c, e) \in In(callbacks'[e])
                /\ Triggered(e)' => e \in seen'[c] \/ Check(c, e) \in In(Calls(agenda'))
          BY <1>2, <4>1 DEF Waits
        <4> QED
          BY <3>1, <4>1, <4>2 DEF Waits
      <3> QED
        BY <3>2, <3>3
    <2> QED
      BY <2>1, <2>2
  <1>10. Conditions'
    BY <1>9 DEF Conditions
  <1> QED
    BY <1>1, <1>5, <1>6, <1>7, <1>8, <1>10

\* The event that is created next.
LEMMA NewEvent ==
  ASSUME \E e \in Created : kind[e] = "none" PROVE New \in Created /\ kind[New] = "none"
  <1> DEFINE T == {e \in Created : kind[e] = "none"}
  <1>1. T \subseteq Nat /\ T # {}
    BY KernelAssumption DEF Created, KernelAssumption
  <1>2. Min(T) \in T /\ \A e \in T : Min(T) <= e
    BY <1>1, MinOfNat
  <1>3. PICK m \in T : \A e \in T : m <= e
    BY <1>2
  <1>4. m \in Created /\ kind[m] = "none" /\ \A f \in Created : f < m => kind[f] # "none"
    BY <1>1, <1>3 DEF Created
  <1> QED
    BY <1>4, Zenon DEF New

\* What Creates does.
LEMMA CreatesNew ==
  ASSUME CallsExact, NEW what \in {"timeout", "event", "all", "any"}, Creates(what)
  PROVE  /\ New \in Created /\ kind[New] = "none" /\ running \in Process
         /\ kind' \in [Created -> {"none", "timeout", "event", "all", "any"}]
         /\ kind'[New] = what /\ \A e \in Created : e # New => kind'[e] = kind[e]
  <1>1. New \in Created /\ kind[New] = "none"
    BY NewEvent DEF Creates
  <1> QED
    BY <1>1 DEF Creates, CallsExact, KernelTypes

\* A step in a turn that keeps what resumes a process keeps the answers of all.
LEMMA AnswersKept ==
  ASSUME OneAnswer, UNCHANGED <<outcome, running, turns, token, interrupted>>,
         \A p \in Process : LET X == Wakers(p, token[p]) IN
           /\ Nothing(agenda, callbacks, X) => Nothing(agenda', callbacks', X)
           /\ Sole(agenda, callbacks, X) => Sole(agenda', callbacks', X)
  PROVE  OneAnswer'
  BY DEF OneAnswer, Triggered, Unstarted

\* A process creates a timeout.
LEMMA CreateTimeoutKeeps ==
  ASSUME KernelInductive, NEW delay \in 0 .. MaxDelay, CreateTimeout(delay)
  PROVE  KernelInductive'
  <1> USE DEF KernelInductive
  <1>1. PICK n \in Created :
          /\ n = New /\ kind[n] = "none" /\ kind'[n] = "timeout"
          /\ kind' \in [Created -> {"none", "timeout", "event", "all", "any"}]
          /\ \A e \in Created : e # n => kind'[e] = kind[e]
    BY CreatesNew DEF CreateTimeout
  <1>2. UNCHANGED <<members, seen, outcome, callbacks, running, turns, token, awaited,
                    interrupted>>
    BY DEF CreateTimeout, turnVars, waitVars
  <1>3. delay \in Nat /\ Fire(n) \in Callback /\ agenda' = Schedule(agenda, delay, FALSE, Fire(n))
    BY <1>1, KernelAssumption, Kinds DEF CreateTimeout, KernelAssumption
  <1>4. /\ agenda' \in Seq(Entry) /\ InOrder(agenda')
        /\ In(Calls(agenda')) = In(Calls(agenda)) \cup {Fire(n)}
        /\ \A X : Fire(n) \notin X =>
             /\ Nothing(agenda, callbacks, X) => Nothing(agenda', callbacks, X)
             /\ Sole(agenda, callbacks, X) => Sole(agenda', callbacks, X)
    BY <1>3, ScheduleOne
  <1>5. Scheduled(Fire(n))'
    BY <1>1, Carried DEF Scheduled
  <1>6. CallsExact'
    <2>1. /\ members' \in [Created -> SUBSET Event] /\ callbacks' \in [Event -> Seq(Callback)]
          /\ running' \in Process \cup {None} /\ token' \in [Process -> Nat]
          /\ awaited' \in [Process -> Event] /\ interrupted' \in SUBSET Process
          /\ \A p \in Process : token[p] <= token'[p]
      BY <1>2 DEF CallsExact, KernelTypes
    <2>2. \A do \in In(Calls(agenda')) : do \in In(Calls(agenda)) \/ Scheduled(do)'
      BY <1>4, <1>5
    <2>3. \A c \in Created : ~(kind[c] = "none" /\ Condition(c)')
      BY <1>1 DEF Condition
    <2>4. \A e \in Created : kind[e] # "none" => kind'[e] = kind[e] /\ members'[e] = members[e]
      BY <1>1, <1>2
    <2> QED
      BY <1>1, <1>2, <1>4, <2>1, <2>2, <2>3, <2>4, CallKeeps
  <1>7. OneAnswer'
    <2>1. \A p, m : Fire(n) \notin Wakers(p, m)
      BY NoWaker, Carried
    <2> QED
      BY <1>2, <1>4, <2>1, AnswersKept
  <1> QED
    BY <1>6, <1>7

\* A process creates an event.
LEMMA CreateEventKeeps ==
  ASSUME KernelInductive, CreateEvent PROVE KernelInductive'
  <1> USE DEF KernelInductive
  <1>1. PICK n \in Created :
          /\ n = New /\ kind[n] = "none" /\ kind'[n] = "event"
          /\ kind' \in [Created -> {"none", "timeout", "event", "all", "any"}]
          /\ \A e \in Created : e # n => kind'[e] = kind[e]
    BY CreatesNew DEF CreateEvent
  <1>2. UNCHANGED <<agenda, members, seen, outcome, callbacks, running, turns, token, awaited,
                    interrupted>>
    BY DEF CreateEvent, turnVars, waitVars
  <1>3. CallsExact'
    <2>1. /\ agenda' \in Seq(Entry) /\ InOrder(agenda')
          /\ members' \in [Created -> SUBSET Event] /\ callbacks' \in [Event -> Seq(Callback)]
          /\ running' \in Process \cup {None} /\ token' \in [Process -> Nat]
          /\ awaited' \in [Process -> Event] /\ interrupted' \in SUBSET Process
          /\ \A p \in Process : token[p] <= token'[p]
      BY <1>2 DEF CallsExact, KernelTypes
    <2>2. \A c \in Created : ~(kind[c] = "none" /\ Condition(c)')
      BY <1>1 DEF Condition
    <2>3. \A e \in Created : kind[e] # "none" => kind'[e] = kind[e] /\ members'[e] = members[e]
      BY <1>1, <1>2
    <2> QED
      BY <1>1, <1>2, <2>1, <2>2, <2>3, CallKeeps
  <1>4. OneAnswer'
    BY <1>2, AnswersKept
  <1> QED
    BY <1>3, <1>4

\* An event of a process's own succeeds or fails.
LEMMA TriggerEventKeeps ==
  ASSUME KernelInductive, NEW e \in Created, NEW result \in {"ok", "failed"},
         TriggerEvent(e, result)
  PROVE  KernelInductive'
  <1> USE DEF KernelInductive
  <1>1. /\ kind[e] = "event" /\ ~Triggered(e) /\ Trigger(agenda, e, result)
        /\ UNCHANGED <<kind, members, seen, running, turns, token, awaited, interrupted>>
    BY DEF TriggerEvent, eventVars, turnVars, waitVars
  <1>2. e \in Event /\ e \notin Process /\ Exists(e) /\ ~Condition(e) /\ outcome[e] = "pending"
    BY <1>1, ProcessOrCreated DEF Exists, Condition, Triggered
  <1>3. /\ agenda \in Seq(Entry) /\ InOrder(agenda) /\ AgendaKnown(agenda)
        /\ callbacks \in [Event -> Seq(Callback)]
    BY DEF CallsExact, KernelTypes
  <1>4. CallsExact'
    <2>1. /\ seen' \in [Created -> SUBSET Event]
          /\ running' \in Process \cup {None} /\ interrupted' \in SUBSET Process
      BY <1>1 DEF CallsExact, KernelTypes
    <2>2. \A c \in Created : Condition(c) /\ ~Triggered(c) => Waits(c, agenda)
      BY DEF CallsExact, Conditions
    <2> QED
      BY <1>1, <1>2, <1>3, <2>1, <2>2, TriggerKeeps
  <1>5. \A p \in Process : outcome'[p] = outcome[p]
    BY <1>1, <1>2, ProcessOrCreated DEF Trigger, CallsExact, KernelTypes
  <1>6. \A X : /\ Nothing(agenda, callbacks, X) => Nothing(agenda', callbacks', X)
               /\ Sole(agenda, callbacks, X) => Sole(agenda', callbacks', X)
    BY <1>1, <1>2, <1>3, TriggerMoves
  <1>7. running # None => running \in Process
    BY DEF CallsExact, KernelTypes
  <1>8. OneAnswer'
    BY <1>1, <1>5, <1>6, <1>7 DEF OneAnswer, Triggered, Unstarted
  <1> QED
    BY <1>4, <1>8

\* A process ends: it is an event that is triggered.
LEMMA EndProcessKeeps ==
  ASSUME KernelInductive, NEW result \in {"ok", "failed"}, EndProcess(result)
  PROVE  KernelInductive'
  <1> USE DEF KernelInductive
  <1>1. PICK p \in Process : p = running
    BY DEF EndProcess, CallsExact, KernelTypes
  <1>2. /\ Trigger(agenda, p, result) /\ running' = None
        /\ UNCHANGED <<kind, members, seen, turns, token, awaited, interrupted>>
    BY <1>1 DEF EndProcess, eventVars, waitVars
  <1>3. p \in Event /\ p \notin Created /\ Exists(p) /\ outcome[p] = "pending" /\ running # None
    BY <1>1, ProcessOrCreated DEF Exists, Triggered, OneAnswer
  <1>4. /\ agenda \in Seq(Entry) /\ InOrder(agenda) /\ AgendaKnown(agenda)
        /\ callbacks \in [Event -> Seq(Callback)]
    BY DEF CallsExact, KernelTypes
  <1>5. CallsExact'
    <2>1. /\ seen' \in [Created -> SUBSET Event]
          /\ running' \in Process \cup {None} /\ interrupted' \in SUBSET Process
      BY <1>2 DEF CallsExact, KernelTypes
    <2>2. \A c \in Created : Condition(c) /\ ~Triggered(c) => Waits(c, agenda)
      BY DEF CallsExact, Conditions
    <2> QED
      BY <1>2, <1>3, <1>4, <2>1, <2>2, TriggerKeeps
  <1>6. ASSUME NEW q \in Process, ~Triggered(q)', ~Unstarted(q)
        PROVE  Sole(agenda', callbacks', Wakers(q, token[q]))
    <2>1. q # p /\ ~Triggered(q)
      BY <1>2, <1>3, <1>6, ProcessOrCreated DEF Triggered, Trigger, CallsExact, KernelTypes
    <2>2. Sole(agenda, callbacks, Wakers(q, token[q]))
      BY <1>1, <1>6, <2>1 DEF OneAnswer
    <2> QED
      BY <1>2, <1>3, <1>4, <2>2, TriggerMoves
  <1>7. OneAnswer'
    BY <1>2, <1>6, ProcessOrCreated DEF OneAnswer, Unstarted
  <1> QED
    BY <1>5, <1>7

\* The elements of a set in some order.
LEMMA Listed ==
  ASSUME NEW S, IsFiniteSet(S)
  PROVE  /\ SetToSeq(S) \in Seq(S) /\ In(SetToSeq(S)) = S
         /\ \A i, j \in 1 .. Len(SetToSeq(S)) : SetToSeq(S)[i] = SetToSeq(S)[j] => i = j
  <1> DEFINE n == Cardinality(S)
             D == 1 .. n
             f == SetToSeq(S)
  <1>1. n \in Nat
    BY FS_CardinalityType
  <1>2. IsFiniteSet(D) /\ Cardinality(D) = n
    BY <1>1, FS_Interval
  <1>3. ExistsBijection(D, S)
    BY <1>2, FS_SameCardinalityBij
  <1>4. \E g \in [D -> S] : IsInjective(g)
    BY <1>3 DEF ExistsBijection, Bijection, Injection
  <1>5. f \in [D -> S] /\ IsInjective(f)
    BY <1>4 DEF SetToSeq
  <1>6. f \in Surjection(D, S)
    <2>1. f \in Injection(D, S)
      BY <1>5 DEF Injection
    <2> QED
      BY <1>2, <2>1, FS_Injection
  <1> HIDE DEF f
  <1>7. f \in Seq(S) /\ Len(f) = n
    BY <1>1, <1>5
  <1>8. \A x \in S : \E i \in D : f[i] = x
    BY <1>6 DEF Surjection
  <1>9. In(f) = S
    <2>1. \A x \in In(f) : x \in S
      BY <1>5, <1>7 DEF In
    <2>2. \A x \in S : x \in In(f)
      BY <1>7, <1>8 DEF In
    <2> QED
      BY <2>1, <2>2
  <1>10. \A i, j \in D : f[i] = f[j] => i = j
    BY <1>5 DEF IsInjective
  <1> QED
    BY <1>7, <1>9, <1>10 DEF f

\* There are finitely many events.
LEMMA FiniteEvents ==
  ASSUME NEW S \in SUBSET Event PROVE IsFiniteSet(S)
  <1>1. MaxEvents \in Nat /\ IsFiniteSet(Process)
    BY KernelAssumption DEF KernelAssumption
  <1>2. IsFiniteSet(Created)
    BY <1>1, FS_Interval DEF Created
  <1>3. IsFiniteSet(Event)
    BY <1>1, <1>2, FS_Union DEF Event
  <1> QED
    BY <1>3, FS_Subset

\* A process waits for several events at once.
LEMMA CreateConditionKeeps ==
  ASSUME KernelInductive, NEW what \in {"all", "any"}, NEW es \in SUBSET Event,
         Cardinality(es) = 2, CreateCondition(what, es)
  PROVE  KernelInductive'
  <1> USE DEF KernelInductive
  <1>1. PICK n \in Created :
          /\ n = New /\ kind[n] = "none" /\ kind'[n] = what
          /\ kind' \in [Created -> {"none", "timeout", "event", "all", "any"}]
          /\ \A e \in Created : e # n => kind'[e] = kind[e]
    BY CreatesNew DEF CreateCondition
  <1>2. PICK ready : ready = SetToSeq({e \in es : Triggered(e)})
    OBVIOUS
  <1>3. PICK dos : dos = [i \in 1 .. Len(ready) |-> Check(n, ready[i])]
    OBVIOUS
  <1>4. /\ \A e \in es : Exists(e)
        /\ members' = [members EXCEPT ![n] = es]
        /\ agenda' = ScheduleAll(agenda, 0, FALSE, dos)
        /\ callbacks' = [e \in Event |-> IF e \in es /\ ~Triggered(e)
                                         THEN Append(callbacks[e], Check(n, e))
                                         ELSE callbacks[e]]
    BY <1>1, <1>2, <1>3 DEF CreateCondition
  <1>5. UNCHANGED <<seen, outcome, running, turns, token, awaited, interrupted>>
    BY DEF CreateCondition, turnVars, waitVars
  <1>6. dos \in Seq(Callback) /\ In(dos) = {Check(n, e) : e \in {f \in es : Triggered(f)}}
    <2> DEFINE S == {f \in es : Triggered(f)}
    <2>1. ready \in Seq(S) /\ In(ready) = S
      BY <1>2, FiniteEvents, Listed
    <2>2. Len(ready) \in Nat /\ \A i \in 1 .. Len(ready) : ready[i] \in S
      BY <2>1
    <2>3. \A i \in 1 .. Len(ready) : Check(n, ready[i]) \in Callback
      BY <2>2, Kinds
    <2>4. /\ dos \in Seq(Callback) /\ Len(dos) = Len(ready)
          /\ \A i \in 1 .. Len(dos) : dos[i] = Check(n, ready[i])
      BY <1>3, <2>2, <2>3
    <2>5. \A x \in In(dos) : x \in {Check(n, e) : e \in S}
      BY <2>2, <2>4 DEF In
    <2>6. \A e \in S : Check(n, e) \in In(dos)
      BY <2>1, <2>4 DEF In
    <2> QED
      BY <2>4, <2>5, <2>6
  <1>7. agenda \in Seq(Entry) /\ InOrder(agenda) /\ callbacks \in [Event -> Seq(Callback)]
    BY DEF CallsExact, KernelTypes
  <1>8. agenda' \in Seq(Entry) /\ InOrder(agenda')
    BY <1>4, <1>6, <1>7, StaysInOrder
  <1>9. In(Calls(agenda')) = In(Calls(agenda)) \cup In(dos)
    <2>1. 0 \in Nat /\ FALSE \in BOOLEAN
      OBVIOUS
    <2>2. In(Calls(ScheduleAll(agenda, 0, FALSE, dos))) = In(Calls(agenda)) \cup In(dos)
      BY <1>6, <1>7, <2>1, CallsAdded, Zenon
    <2> QED
      BY <1>4, <2>2, Zenon
  <1>10. /\ callbacks' \in [Event -> Seq(Callback)]
         /\ \A e \in Event : callbacks'[e] = IF e \in es /\ ~Triggered(e)
                                             THEN Append(callbacks[e], Check(n, e))
                                             ELSE callbacks[e]
    <2>1. \A e \in Event : Append(callbacks[e], Check(n, e)) \in Seq(Callback)
      BY <1>7, Kinds, Appended
    <2> QED
      BY <1>4, <1>7, <2>1
  <1>11. \A e \in Event : In(callbacks'[e]) = IF e \in es /\ ~Triggered(e)
                                              THEN In(callbacks[e]) \cup {Check(n, e)}
                                              ELSE In(callbacks[e])
    BY <1>7, <1>10, Kinds, Appended
  <1>12. members' \in [Created -> SUBSET Event] /\ members'[n] = es
         /\ \A c \in Created : c # n => members'[c] = members[c]
    BY <1>4 DEF CallsExact, KernelTypes
  <1>13. Condition(n)'
    BY <1>1 DEF Condition
  <1>14. ASSUME NEW e \in es, Triggered(e) PROVE Scheduled(Check(n, e))'
    <2>1. Triggered(e)' /\ e \in Event
      BY <1>5, <1>14 DEF Triggered
    <2>2. \A d \in Created, f \in Event : Check(n, e) = Check(d, f) => d = n /\ f = e
      BY Carried
    <2>3. /\ \A f \in Created : Check(n, e) # Fire(f)
          /\ \A p \in Process, f \in Event, m \in Nat : Check(n, e) # Wake(p, f, m)
          /\ \A p \in Process : Check(n, e) # Start(p)
      BY Carried
    <2> QED
      BY <1>12, <1>13, <2>1, <2>2, <2>3 DEF Scheduled
  <1>15. ASSUME NEW e \in es PROVE Held(e, Check(n, e))'
    BY <1>12, <1>13 DEF Held
  <1>16. Waits(n, agenda)'
    <2>1. seen'[n] = {}
      BY <1>1, <1>5 DEF CallsExact, Outcomes
    <2>2. es # {}
      BY FS_EmptySet
    <2>3. \A e \in es : /\ ~Triggered(e)' => Check(n, e) \in In(callbacks'[e])
                        /\ Triggered(e)' => Check(n, e) \in In(Calls(agenda'))
      BY <1>5, <1>6, <1>9, <1>11 DEF Triggered
    <2> QED
      BY <1>12, <2>1, <2>2, <2>3 DEF Waits
  <1>17. CallsExact'
    <2>1. /\ running' \in Process \cup {None} /\ token' \in [Process -> Nat]
          /\ awaited' \in [Process -> Event] /\ interrupted' \in SUBSET Process
          /\ \A p \in Process : token[p] <= token'[p]
      BY <1>5 DEF CallsExact, KernelTypes
    <2>2. \A e \in Created : kind[e] # "none" => kind'[e] = kind[e] /\ members'[e] = members[e]
      BY <1>1, <1>12
    <2>3. \A do \in In(Calls(agenda')) : do \in In(Calls(agenda)) \/ Scheduled(do)'
      BY <1>6, <1>9, <1>14
    <2>4. \A e \in Event : /\ In(callbacks[e]) \subseteq In(callbacks'[e])
                           /\ \A do \in In(callbacks'[e]) : do \in In(callbacks[e]) \/ Held(e, do)'
      BY <1>11, <1>15
    <2>5. \A e \in Event : callbacks'[e] # <<>> =>
                             callbacks[e] # <<>> \/ (Exists(e)' /\ ~Triggered(e))
      <3> SUFFICES ASSUME NEW e \in es, ~Triggered(e) PROVE Exists(e)'
        BY <1>10
      <3>1. Exists(e)
        BY <1>4
      <3> QED
        BY <3>1, <2>2 DEF Exists, Event
    <2>6. \A c \in Created : kind[c] = "none" /\ Condition(c)' => Waits(c, agenda)'
      BY <1>1, <1>16 DEF Condition
    <2>7. In(Calls(agenda)) \subseteq In(Calls(agenda'))
      BY <1>9
    <2> QED
      BY <1>1, <1>5, <1>8, <1>10, <1>12, <2>1, <2>2, <2>3, <2>4, <2>5, <2>6, <2>7, CallKeeps
  <1>18. OneAnswer'
    <2> SUFFICES ASSUME NEW p \in Process, NEW X, X = Wakers(p, token[p])
                 PROVE  /\ Nothing(agenda, callbacks, X) => Nothing(agenda', callbacks', X)
                        /\ Sole(agenda, callbacks, X) => Sole(agenda', callbacks', X)
      BY <1>5, AnswersKept
    <2>1. \A e : Check(n, e) \notin X
      BY NoWaker, Carried
    <2>2. NoneOf(dos, X)
      <3>1. \A i \in 1 .. Len(dos) : dos[i] \in In(dos)
        BY DEF In
      <3> QED
        BY <1>6, <2>1, <3>1 DEF NoneOf
    <2>3. /\ NoneOf(Calls(agenda), X) => NoneOf(Calls(agenda'), X)
          /\ OneOf(Calls(agenda), X) => OneOf(Calls(agenda'), X)
      BY <1>4, <1>6, <1>7, <2>2, OneAdded
    <2>4. \A e \in Event : /\ NoneOf(callbacks[e], X) => NoneOf(callbacks'[e], X)
                           /\ OneOf(callbacks[e], X) => OneOf(callbacks'[e], X)
      <3> TAKE e \in Event
      <3>1. callbacks[e] \in Seq(Callback) /\ Check(n, e) \in Callback
        BY <1>7, Kinds
      <3>2. /\ NoneOf(callbacks[e], X) => NoneOf(Append(callbacks[e], Check(n, e)), X)
            /\ OneOf(callbacks[e], X) => OneOf(Append(callbacks[e], Check(n, e)), X)
        BY <2>1, <3>1, Appended
      <3>3. callbacks'[e] \in {callbacks[e], Append(callbacks[e], Check(n, e))}
        BY <1>10
      <3> QED
        BY <3>2, <3>3
    <2> QED
      BY <2>3, <2>4 DEF Nothing, Sole
  <1> QED
    BY <1>17, <1>18

\* A process interrupts another.
LEMMA InterruptKeeps ==
  ASSUME KernelInductive, NEW q \in Process, Interrupt(q) PROVE KernelInductive'
  <1> USE DEF KernelInductive
  <1>1. /\ q # running /\ ~Triggered(q) /\ q \notin interrupted
        /\ interrupted' = interrupted \cup {q}
        /\ token' = [token EXCEPT ![q] = @ + 1]
        /\ agenda' = Schedule(agenda, 0, TRUE, Start(q))
    BY DEF Interrupt
  <1>2. UNCHANGED <<kind, members, seen, outcome, callbacks, running, turns, awaited>>
    BY DEF Interrupt, eventVars, turnVars
  <1>3. 0 \in Nat /\ TRUE \in BOOLEAN /\ Start(q) \in Callback
    BY Kinds
  <1>4. /\ agenda' \in Seq(Entry) /\ InOrder(agenda')
        /\ In(Calls(agenda')) = In(Calls(agenda)) \cup {Start(q)}
        /\ \A X : /\ Start(q) \notin X /\ Nothing(agenda, callbacks, X) => Nothing(agenda', callbacks, X)
                  /\ Start(q) \notin X /\ Sole(agenda, callbacks, X) => Sole(agenda', callbacks, X)
                  /\ Start(q) \in X /\ Nothing(agenda, callbacks, X) => Sole(agenda', callbacks, X)
    BY <1>1, <1>3, ScheduleOne
  <1>5. /\ token' \in [Process -> Nat] /\ token'[q] = token[q] + 1 /\ token[q] \in Nat
        /\ \A p \in Process : p # q => token'[p] = token[p]
    BY <1>1 DEF CallsExact, KernelTypes
  <1>6. Scheduled(Start(q))'
    <2>1. q \in interrupted'
      BY <1>1
    <2>2. \A p : Start(q) = Start(p) => p = q
      BY Carried
    <2>3. /\ \A f : Start(q) # Fire(f)
          /\ \A p, f, m : Start(q) # Wake(p, f, m)
          /\ \A c, f : Start(q) # Check(c, f)
      BY Carried
    <2> QED
      BY <2>1, <2>2, <2>3 DEF Scheduled
  <1>7. CallsExact'
    <2>1. /\ kind' \in [Created -> {"none", "timeout", "event", "all", "any"}]
          /\ members' \in [Created -> SUBSET Event] /\ callbacks' \in [Event -> Seq(Callback)]
          /\ running' \in Process \cup {None} /\ awaited' \in [Process -> Event]
          /\ interrupted' \in SUBSET Process /\ interrupted \subseteq interrupted'
      BY <1>1, <1>2 DEF CallsExact, KernelTypes
    <2>2. \A p \in Process : token[p] <= token'[p] /\ awaited'[p] = awaited[p]
      <3> TAKE p \in Process
      <3>1. token[p] \in Nat
        BY DEF CallsExact, KernelTypes
      <3> QED
        BY <1>2, <1>5, <3>1
    <2>3. \A do \in In(Calls(agenda')) : do \in In(Calls(agenda)) \/ Scheduled(do)'
      BY <1>4, <1>6
    <2>4. \A c \in Created : ~(kind[c] = "none" /\ Condition(c)')
      BY <1>2 DEF Condition
    <2> QED
      BY <1>2, <1>4, <1>5, <2>1, <2>2, <2>3, <2>4, CallKeeps
  <1>8. ASSUME turns[q] # 0 PROVE Sole(agenda', callbacks, Wakers(q, token[q] + 1))
    <2> DEFINE X == Wakers(q, token[q] + 1)
    <2>1. \A do \in In(Calls(agenda)) : do \notin X
      <3> SUFFICES ASSUME NEW do \in In(Calls(agenda)) PROVE do \notin X
        OBVIOUS
      <3>1. Scheduled(do)
        BY DEF CallsExact, AgendaKnown
      <3>2. do # Start(q)
        BY <1>1, <1>8, <3>1 DEF Scheduled
      <3>3. \A e \in Event : do # Wake(q, e, token[q] + 1)
        <4>1. token[q] + 1 \in Nat /\ ~(token[q] + 1 <= token[q])
          BY <1>5
        <4> QED
          BY <3>1, <4>1 DEF Scheduled
      <3> QED
        BY <3>2, <3>3 DEF Wakers
    <2>2. \A e \in Event : \A do \in In(callbacks[e]) : do \notin X
      <3> SUFFICES ASSUME NEW e \in Event, NEW do \in In(callbacks[e]) PROVE do \notin X
        OBVIOUS
      <3>1. Held(e, do)
        BY DEF CallsExact, HeldKnown
      <3>2. CASE \E c \in Created : do = Check(c, e)
        BY <3>2, Carried DEF Wakers
      <3>3. ASSUME NEW p \in Process, NEW n \in Nat, do = Wake(p, e, n), n <= token[p]
            PROVE  do \notin X
        <4>1. do[1] = "resume" /\ do[2] = p /\ do[4] = n
          BY <3>3, Carried
        <4>2. p = q => n # token[q] + 1
          BY <1>5, <3>3
        <4> QED
          BY <4>1, <4>2, Carried DEF Wakers
      <3> QED
        BY <3>1, <3>2, <3>3 DEF Held
    <2> HIDE DEF X
    <2>3. Nothing(agenda, callbacks, X)
      BY <2>1, <2>2 DEF Nothing, NoneOf, In
    <2>4. Start(q) \in X
      BY DEF X, Wakers
    <2>5. Sole(agenda', callbacks, X)
      BY <1>4, <2>3, <2>4
    <2> QED
      BY <2>5 DEF X
  <1>9. OneAnswer'
    <2>1. running' # None => ~Triggered(running)'
      BY <1>2 DEF OneAnswer, Triggered
    <2>2. ASSUME NEW p \in Process, ~Triggered(p)'
          PROVE  /\ running' = p => Nothing(agenda', callbacks', Wakers(p, token'[p])) /\ p \notin interrupted'
                 /\ running' # p /\ ~Unstarted(p)' => Sole(agenda', callbacks', Wakers(p, token'[p]))
      <3>1. CASE p = q
        <4>1. ~Unstarted(p)' => turns[q] # 0
          BY <1>1, <1>2, <3>1 DEF Unstarted
        <4> QED
          BY <1>1, <1>2, <1>5, <1>8, <3>1, <4>1
      <3>2. CASE p # q
        <4>1. Start(q) \notin Wakers(p, token[p])
          BY <3>2, Carried DEF Wakers
        <4>2. token'[p] = token[p] /\ ~Triggered(p) /\ (p \in interrupted' <=> p \in interrupted)
          BY <1>1, <1>2, <1>5, <2>2, <3>2 DEF Triggered
        <4>3. Unstarted(p)' <=> Unstarted(p)
          BY <1>2, <4>2 DEF Unstarted
        <4> QED
          BY <1>2, <1>4, <4>1, <4>2, <4>3 DEF OneAnswer
      <3> QED
        BY <3>1, <3>2
    <2> QED
      BY <2>1, <2>2 DEF OneAnswer
  <1> QED
    BY <1>7, <1>9

\* A process waits for an event: its callback is held by the event until that is
\* triggered, or scheduled at once when it was.
LEMMA YieldKeeps ==
  ASSUME KernelInductive, NEW e \in Event, Yield(e) PROVE KernelInductive'
  <1> USE DEF KernelInductive
  <1>1. PICK p \in Process : p = running
    BY DEF Yield, CallsExact, KernelTypes
  <1>2. PICK n \in Nat : n = token[p] + 1
    BY DEF CallsExact, KernelTypes
  <1>3. PICK do \in Callback : do = Wake(p, e, n)
    BY Kinds
  <1>4. /\ Exists(e) /\ running' = None
        /\ token' = [token EXCEPT ![p] = n] /\ awaited' = [awaited EXCEPT ![p] = e]
        /\ AddCallback(e, do)
    BY <1>1, <1>2, <1>3 DEF Yield
  <1>5. UNCHANGED <<kind, members, seen, outcome, turns, interrupted>>
    BY DEF Yield, eventVars
  <1>6. /\ token \in [Process -> Nat] /\ token' \in [Process -> Nat] /\ token'[p] = n
        /\ \A q \in Process : q # p => token'[q] = token[q]
        /\ awaited' \in [Process -> Event] /\ awaited'[p] = e
        /\ \A q \in Process : q # p => awaited'[q] = awaited[q]
    BY <1>4 DEF CallsExact, KernelTypes
  <1>7. agenda \in Seq(Entry) /\ InOrder(agenda) /\ callbacks \in [Event -> Seq(Callback)]
    BY DEF CallsExact, KernelTypes
  <1>8. /\ running # None /\ ~Triggered(p) /\ p \notin interrupted
        /\ Nothing(agenda, callbacks, Wakers(p, token[p]))
    BY <1>1, ProcessOrCreated DEF OneAnswer
  <1>9. ~(n <= token[p]) /\ token[p] <= n
    BY <1>2, <1>6
  <1>10. Nothing(agenda, callbacks, Wakers(p, n))
    <2>1. ASSUME NEW x \in In(Calls(agenda)) PROVE x \notin Wakers(p, n)
      <3>1. Scheduled(x)
        BY DEF CallsExact, AgendaKnown
      <3>2. x # Start(p)
        BY <1>8 DEF Nothing, NoneOf, In, Wakers
      <3>3. \A f \in Event : x # Wake(p, f, n)
        BY <1>9, <3>1 DEF Scheduled
      <3> QED
        BY <3>2, <3>3 DEF Wakers
    <2>2. ASSUME NEW f \in Event, NEW x \in In(callbacks[f]) PROVE x \notin Wakers(p, n)
      <3>1. Held(f, x)
        BY DEF CallsExact, HeldKnown
      <3>2. CASE \E c \in Created : x = Check(c, f)
        BY <3>2, Carried DEF Wakers
      <3>3. ASSUME NEW q \in Process, NEW m \in Nat, x = Wake(q, f, m), m <= token[q]
            PROVE  x \notin Wakers(p, n)
        <4>1. x[1] = "resume" /\ x[2] = q /\ x[4] = m
          BY <3>3, Carried
        <4>2. p = q => m # n
          BY <1>9, <3>3
        <4> QED
          BY <4>1, <4>2, Carried DEF Wakers
      <3> QED
        BY <3>1, <3>2, <3>3 DEF Held
    <2> QED
      BY <2>1, <2>2 DEF Nothing, NoneOf, In
  <1>11. do \in Wakers(p, n) /\ \A q \in Process, m \in Nat : q # p => do \notin Wakers(q, m)
    BY <1>3, Carried DEF Wakers
  <1>12. /\ \A c \in Created : ~(kind[c] = "none" /\ Condition(c)')
         /\ \A q \in Process : token[q] <= token'[q] /\ (token'[q] = token[q] => awaited'[q] = awaited[q])
    <2>1. \A c \in Created : ~(kind[c] = "none" /\ Condition(c)')
      BY <1>5 DEF Condition
    <2>2. ASSUME NEW q \in Process
          PROVE  token[q] <= token'[q] /\ (token'[q] = token[q] => awaited'[q] = awaited[q])
      <3>1. CASE q = p
        BY <1>6, <1>9, <3>1
      <3>2. CASE q # p
        BY <1>6, <3>2
      <3> QED
        BY <3>1, <3>2
    <2> QED
      BY <2>1, <2>2
  <1>13. /\ kind' \in [Created -> {"none", "timeout", "event", "all", "any"}]
         /\ members' \in [Created -> SUBSET Event]
         /\ running' \in Process \cup {None} /\ interrupted' \in SUBSET Process
         /\ interrupted \subseteq interrupted'
    BY <1>4, <1>5 DEF CallsExact, KernelTypes
  <1>14. CASE Triggered(e)
    <2>1. agenda' = Schedule(agenda, 0, FALSE, do) /\ callbacks' = callbacks
      BY <1>4, <1>14 DEF AddCallback
    <2>2. 0 \in Nat /\ FALSE \in BOOLEAN
      OBVIOUS
    <2>3. /\ agenda' \in Seq(Entry) /\ InOrder(agenda')
          /\ In(Calls(agenda')) = In(Calls(agenda)) \cup {do}
          /\ \A X : /\ do \notin X /\ Sole(agenda, callbacks, X) => Sole(agenda', callbacks, X)
                    /\ do \in X /\ Nothing(agenda, callbacks, X) => Sole(agenda', callbacks, X)
      BY <2>1, <2>2, ScheduleOne
    <2>4. Scheduled(do)'
      <3>1. do[1] = "resume" /\ do[2] = p /\ do[3] = e /\ do[4] = n
        BY <1>3, Carried
      <3>2. \A q, f, m : do = Wake(q, f, m) => q = p /\ f = e /\ m = n
        BY <3>1, Carried
      <3>3. /\ \A f : do # Fire(f)
            /\ \A c, f : do # Check(c, f)
            /\ \A q : do # Start(q)
        BY <3>1, Carried
      <3>4. Triggered(e)' /\ n <= token'[p] /\ e = awaited'[p]
        BY <1>5, <1>6, <1>14 DEF Triggered
      <3> QED
        BY <3>2, <3>3, <3>4 DEF Scheduled
    <2>5. CallsExact'
      <3>1. \A x \in In(Calls(agenda')) : x \in In(Calls(agenda)) \/ Scheduled(x)'
        BY <2>3, <2>4
      <3> QED
        BY <1>5, <1>6, <1>7, <1>12, <1>13, <2>1, <2>3, <3>1, CallKeeps
    <2>6. Sole(agenda', callbacks', Wakers(p, n))
      BY <1>10, <1>11, <2>1, <2>3
    <2>7. ASSUME NEW q \in Process, q # p, ~Triggered(q), ~Unstarted(q)
          PROVE  Sole(agenda', callbacks', Wakers(q, token[q]))
      <3>1. Sole(agenda, callbacks, Wakers(q, token[q]))
        BY <1>1, <2>7 DEF OneAnswer
      <3> QED
        BY <1>6, <1>11, <2>1, <2>3, <2>7, <3>1
    <2>8. OneAnswer'
      BY <1>4, <1>5, <1>6, <2>6, <2>7, ProcessOrCreated DEF OneAnswer, Triggered, Unstarted
    <2> QED
      BY <2>5, <2>8
  <1>15. CASE ~Triggered(e)
    <2>1. agenda' = agenda /\ callbacks' = [callbacks EXCEPT ![e] = Append(@, do)]
      BY <1>4, <1>15 DEF AddCallback
    <2>2. /\ Append(callbacks[e], do) \in Seq(Callback)
          /\ In(Append(callbacks[e], do)) = In(callbacks[e]) \cup {do}
          /\ \A X : /\ NoneOf(callbacks[e], X) /\ do \notin X => NoneOf(Append(callbacks[e], do), X)
                    /\ OneOf(callbacks[e], X) /\ do \notin X => OneOf(Append(callbacks[e], do), X)
                    /\ NoneOf(callbacks[e], X) /\ do \in X => OneOf(Append(callbacks[e], do), X)
      BY <1>7, Appended
    <2>3. /\ callbacks' \in [Event -> Seq(Callback)]
          /\ callbacks'[e] = Append(callbacks[e], do)
          /\ \A f \in Event : f # e => callbacks'[f] = callbacks[f]
      BY <1>7, <2>1, <2>2
    <2>4. Held(e, do)'
      BY <1>3, <1>6 DEF Held
    <2>5. CallsExact'
      <3>1. \A f \in Event : /\ In(callbacks[f]) \subseteq In(callbacks'[f])
                             /\ \A x \in In(callbacks'[f]) : x \in In(callbacks[f]) \/ Held(f, x)'
        BY <2>2, <2>3, <2>4
      <3>2. \A f \in Event : callbacks'[f] # <<>> =>
                               callbacks[f] # <<>> \/ (Exists(f)' /\ ~Triggered(f))
        BY <1>4, <1>5, <1>15, <2>3 DEF Exists
      <3> QED
        BY <1>5, <1>6, <1>7, <1>12, <1>13, <2>1, <2>3, <3>1, <3>2, CallKeeps
    <2>6. Sole(agenda', callbacks', Wakers(p, n))
      <3>1. NoneOf(Calls(agenda), Wakers(p, n)) /\ \A f \in Event : NoneOf(callbacks[f], Wakers(p, n))
        BY <1>10 DEF Nothing
      <3>2. OneOf(callbacks'[e], Wakers(p, n))
        BY <1>11, <2>2, <2>3, <3>1
      <3>3. \A f \in Event \ {e} : NoneOf(callbacks'[f], Wakers(p, n))
        BY <2>3, <3>1
      <3> QED
        BY <2>1, <3>1, <3>2, <3>3 DEF Sole
    <2>7. ASSUME NEW X, do \notin X, Sole(agenda, callbacks, X) PROVE Sole(agenda', callbacks', X)
      <3>1. \A f \in Event : /\ NoneOf(callbacks[f], X) => NoneOf(callbacks'[f], X)
                             /\ OneOf(callbacks[f], X) => OneOf(callbacks'[f], X)
        BY <2>2, <2>3, <2>7
      <3> QED
        BY <2>1, <2>7, <3>1 DEF Sole
    <2>8. ASSUME NEW q \in Process, q # p, ~Triggered(q), ~Unstarted(q)
          PROVE  Sole(agenda', callbacks', Wakers(q, token[q]))
      <3>1. Sole(agenda, callbacks, Wakers(q, token[q]))
        BY <1>1, <2>8 DEF OneAnswer
      <3> QED
        BY <1>6, <1>11, <2>7, <2>8, <3>1
    <2>9. OneAnswer'
      BY <1>4, <1>5, <1>6, <2>6, <2>8, ProcessOrCreated DEF OneAnswer, Triggered, Unstarted
    <2> QED
      BY <2>5, <2>9
  <1> QED
    BY <1>14, <1>15

-----------------------------------------------------------------------------
(* Theorems. *)

\* At the start each process has one callback, its start.
LEMMA KernelStarts == KernelInit => KernelInductive
  <1> SUFFICES ASSUME KernelInit PROVE KernelInductive
    OBVIOUS
  <1>1. PICK order : order = SetToSeq(Process)
    OBVIOUS
  <1>2. PICK dos : dos = [i \in 1 .. Len(order) |-> Start(order[i])]
    OBVIOUS
  <1>3. agenda = ScheduleAll(<<>>, 0, TRUE, dos)
    BY <1>1, <1>2 DEF KernelInit
  <1>4. /\ order \in Seq(Process) /\ In(order) = Process
        /\ \A i, j \in 1 .. Len(order) : order[i] = order[j] => i = j
    BY <1>1, KernelAssumption, Listed DEF KernelAssumption
  <1>5. /\ dos \in Seq(Callback) /\ Len(dos) = Len(order)
        /\ \A i \in 1 .. Len(dos) : dos[i] = Start(order[i]) /\ order[i] \in Process
    <2>1. Len(order) \in Nat /\ \A i \in 1 .. Len(order) : order[i] \in Process
      BY <1>4
    <2>2. \A i \in 1 .. Len(order) : Start(order[i]) \in Callback
      BY <2>1, Kinds
    <2> QED
      BY <1>2, <2>1, <2>2
  <1>6. <<>> \in Seq(Entry) /\ InOrder(<<>>) /\ 0 \in Nat /\ TRUE \in BOOLEAN
    BY DEF InOrder
  <1>7. In(<<>>) = {} /\ In(Calls(<<>>)) = {} /\ \A X : NoneOf(Calls(<<>>), X) /\ NoneOf(<<>>, X)
    BY DEF In, Calls, NoneOf
  <1>8. agenda \in Seq(Entry) /\ InOrder(agenda)
    BY <1>3, <1>5, <1>6, StaysInOrder
  <1>9. In(Calls(agenda)) = In(dos)
    <2>1. In(Calls(ScheduleAll(<<>>, 0, TRUE, dos))) = In(Calls(<<>>)) \cup In(dos)
      BY <1>5, <1>6, CallsAdded, Zenon
    <2> QED
      BY <1>3, <1>7, <2>1
  <1>10. \A do \in In(dos) : \E p \in Process : do = Start(p)
    BY <1>5 DEF In
  <1>11. KernelTypes
    <2>1. /\ kind = [e \in Created |-> "none"] /\ members = [e \in Created |-> {}]
          /\ seen = [e \in Created |-> {}] /\ outcome = [e \in Event |-> "pending"]
          /\ callbacks = [e \in Event |-> <<>>] /\ running = None
          /\ turns = [p \in Process |-> 0] /\ token = [p \in Process |-> 0]
          /\ awaited = [p \in Process |-> p] /\ interrupted = {}
      BY DEF KernelInit
    <2>2. callbacks \in [Event -> Seq(Callback)]
      BY <2>1
    <2>3. awaited \in [Process -> Event]
      BY <2>1, ProcessOrCreated
    <2> QED
      BY <1>8, <2>1, <2>2, <2>3 DEF KernelTypes
  <1>12. AgendaKnown(agenda)
    <2> SUFFICES ASSUME NEW p \in Process PROVE Scheduled(Start(p))
      BY <1>9, <1>10 DEF AgendaKnown
    <2>1. turns[p] = 0
      BY DEF KernelInit
    <2>2. \A q : Start(p) = Start(q) => q = p
      BY Carried
    <2>3. /\ \A f : Start(p) # Fire(f)
          /\ \A q, f, m : Start(p) # Wake(q, f, m)
          /\ \A c, f : Start(p) # Check(c, f)
      BY Carried
    <2> QED
      BY <2>1, <2>2, <2>3 DEF Scheduled
  <1>13. \A e \in Event : callbacks[e] = <<>>
    BY DEF KernelInit
  <1>14. HeldKnown /\ PendingHold
    BY <1>7, <1>13 DEF HeldKnown, PendingHold
  <1>15. Outcomes /\ Conditions
    BY ProcessOrCreated DEF Outcomes, Conditions, Condition, KernelInit
  <1>16. ASSUME NEW p \in Process PROVE Sole(agenda, callbacks, Wakers(p, token[p]))
    <2>1. token[p] = 0
      BY DEF KernelInit
    <2>2. PICK i \in 1 .. Len(order) : order[i] = p
      BY <1>4 DEF In
    <2>3. OneOf(dos, Wakers(p, 0))
      <3>1. i \in 1 .. Len(dos) /\ dos[i] \in Wakers(p, 0)
        BY <1>5, <2>2 DEF Wakers
      <3>2. \A q : Start(q) \in Wakers(p, 0) => q = p
        BY Carried DEF Wakers
      <3>3. \A k \in 1 .. Len(dos) : dos[k] \in Wakers(p, 0) => k = i
        BY <1>4, <1>5, <2>2, <3>2
      <3> QED
        BY <3>1, <3>3 DEF OneOf
    <2>4. OneOf(Calls(agenda), Wakers(p, 0))
      BY <1>3, <1>5, <1>6, <1>7, <2>3, OneAdded
    <2> QED
      BY <1>7, <1>13, <2>1, <2>4 DEF Sole
  <1>17. OneAnswer
    BY <1>16, ProcessOrCreated DEF OneAnswer, KernelInit
  <1> QED
    BY <1>8, <1>11, <1>12, <1>14, <1>15, <1>17 DEF KernelInductive, CallsExact

\* Every step of the kernel and of the processes keeps the invariant.
LEMMA KernelStep == KernelInductive /\ [KernelNext]_kernelVars => KernelInductive'
  <1> SUFFICES ASSUME KernelInductive, [KernelNext]_kernelVars PROVE KernelInductive'
    OBVIOUS
  <1>1. CASE Loop
    BY <1>1, FireTimeoutKeeps, CheckConditionKeeps, DropResumeKeeps, InterruptUnstartedKeeps,
       ResumeProcessKeeps DEF Loop
  <1>2. CASE Turn
    BY <1>2, CreateTimeoutKeeps, CreateEventKeeps, TriggerEventKeeps, CreateConditionKeeps,
       InterruptKeeps, YieldKeeps, EndProcessKeeps DEF Turn
  <1>3. CASE UNCHANGED kernelVars
    <2>1. UNCHANGED <<agenda, kind, members, seen, outcome, callbacks, running, turns, token,
                      awaited, interrupted>>
      BY <1>3 DEF kernelVars, eventVars, turnVars, waitVars
    <2>2. KernelTypes'
      BY <2>1 DEF KernelInductive, CallsExact, KernelTypes
    <2>3. AgendaKnown(agenda)' /\ HeldKnown'
      BY <2>1 DEF KernelInductive, CallsExact, AgendaKnown, HeldKnown, Scheduled, Held, Condition,
                  Triggered
    <2>4. PendingHold' /\ Outcomes' /\ InOrder(agenda')
      BY <2>1 DEF KernelInductive, CallsExact, PendingHold, Outcomes, Exists, Triggered
    <2>5. Conditions'
      BY <2>1 DEF KernelInductive, CallsExact, Conditions, Condition, Decided, Waits, Triggered
    <2>6. OneAnswer'
      BY <2>1 DEF KernelInductive, OneAnswer, Triggered, Unstarted
    <2> QED
      BY <2>2, <2>3, <2>4, <2>5, <2>6 DEF KernelInductive, CallsExact
  <1> QED
    BY <1>1, <1>2, <1>3 DEF KernelNext, RunReturns

-----------------------------------------------------------------------------
(* What the invariant says of each property. *)

\* The invariant has the agenda in order and the callbacks with pending events.
LEMMA InvariantAgenda == KernelInductive => AgendaOK
  BY DEF KernelInductive, CallsExact, KernelTypes, InOrder, RunsFirst, PendingHold, AgendaOK

\* The callbacks that would resume a process are those of its present token.
LEMMA WakesExactly ==
  ASSUME NEW p \in Process, ~Triggered(p), NEW do \in Callback
  PROVE  Wakes(p, do) <=> do \in Wakers(p, token[p])
  <1>1. CASE do[1] \in {"turn", "resume"}
    BY <1>1, WakesOrStale DEF Wakes
  <1>2. CASE do[1] \notin {"turn", "resume"}
    <2>1. do[1] \in {"fire", "check"}
      BY <1>2, Kinds
    <2> QED
      BY <1>2, <2>1, NoWaker DEF Wakes
  <1> QED
    BY <1>1, <1>2

\* No element of a sequence, or one, is in X: so many places.
LEMMA PlacesOf ==
  ASSUME NEW s, NEW X
  PROVE  /\ NoneOf(s, X) => {i \in 1 .. Len(s) : s[i] \in X} = {}
         /\ OneOf(s, X) => \E k \in 1 .. Len(s) : {i \in 1 .. Len(s) : s[i] \in X} = {k}
  BY DEF NoneOf, OneOf

\* A process that waits is resumed by one callback.
LEMMA InvariantWakeup == KernelInductive => OneWakeup
  <1> SUFFICES ASSUME KernelInductive, NEW p \in Process, ~Triggered(p), running # p, turns[p] > 0
               PROVE  Wakeups(p) = 1
    BY DEF OneWakeup
  <1> DEFINE X == Wakers(p, token[p])
             A == {i \in 1 .. Len(agenda) : Wakes(p, agenda[i].do)}
             at(e) == {i \in 1 .. Len(callbacks[e]) : Wakes(p, callbacks[e][i])}
             held == UNION {{e} \X at(e) : e \in {f \in Event : ~Triggered(f)}}
  <1>1. /\ agenda \in Seq(Entry) /\ callbacks \in [Event -> Seq(Callback)]
        /\ turns \in [Process -> Nat]
      BY DEF KernelInductive, CallsExact, KernelTypes
  <1>2. Sole(agenda, callbacks, X)
    <2>1. ~Unstarted(p)
      BY <1>1 DEF Unstarted
    <2> QED
      BY <2>1 DEF KernelInductive, OneAnswer
  <1>3. A = {i \in 1 .. Len(Calls(agenda)) : Calls(agenda)[i] \in X}
    <2>1. Len(agenda) \in Nat
      BY <1>1
    <2>2. Len(Calls(agenda)) = Len(agenda) /\ \A i \in 1 .. Len(agenda) : Calls(agenda)[i] = agenda[i].do
      BY <2>1 DEF Calls
    <2>3. \A i \in 1 .. Len(agenda) : agenda[i].do \in Callback
      <3> TAKE i \in 1 .. Len(agenda)
      <3>1. agenda[i] \in Entry
        BY <1>1
      <3> QED
        BY <3>1 DEF Entry
    <2>4. \A i \in 1 .. Len(agenda) : Wakes(p, agenda[i].do) <=> Calls(agenda)[i] \in X
      BY <2>2, <2>3, WakesExactly
    <2> HIDE DEF X
    <2> QED
      BY <2>2, <2>4
  <1>4. ASSUME NEW e \in Event
        PROVE  at(e) = {i \in 1 .. Len(callbacks[e]) : callbacks[e][i] \in X}
    <2>1. \A i \in 1 .. Len(callbacks[e]) : callbacks[e][i] \in Callback
      BY <1>1
    <2>2. \A i \in 1 .. Len(callbacks[e]) : Wakes(p, callbacks[e][i]) <=> callbacks[e][i] \in X
      BY <2>1, WakesExactly
    <2> HIDE DEF X
    <2> QED
      BY <2>2
  <1>5. Wakeups(p) = Cardinality(A) + Cardinality(held)
    BY DEF Wakeups
  <1>6. \A e \in Event : NoneOf(callbacks[e], X) => at(e) = {}
    BY <1>4, PlacesOf
  <1>7. ASSUME NEW e \in Event, OneOf(callbacks[e], X)
        PROVE  ~Triggered(e) /\ \E i \in 1 .. Len(callbacks[e]) : at(e) = {i}
    <2>1. callbacks[e] # <<>>
      <3>1. Len(callbacks[e]) # 0
        BY <1>7 DEF OneOf
      <3> QED
        BY <3>1
    <2>2. ~Triggered(e)
      BY <2>1 DEF KernelInductive, CallsExact, PendingHold
    <2>3. \E i \in 1 .. Len(callbacks[e]) : at(e) = {i}
      BY <1>4, <1>7, PlacesOf
    <2> QED
      BY <2>2, <2>3
  <1> HIDE DEF X, A, at
  <1>8. CASE OneOf(Calls(agenda), X) /\ \A e \in Event : NoneOf(callbacks[e], X)
    <2>1. PICK i : A = {i}
      BY <1>3, <1>8, PlacesOf
    <2>2. held = {}
      BY <1>6, <1>8
    <2>3. Cardinality(A) = 1 /\ Cardinality(held) = 0
      BY <2>1, <2>2, FS_Singleton, FS_EmptySet
    <2> QED
      BY <1>5, <2>3
  <1>9. CASE /\ NoneOf(Calls(agenda), X)
             /\ \E e \in Event : /\ OneOf(callbacks[e], X)
                                 /\ \A f \in Event \ {e} : NoneOf(callbacks[f], X)
    <2>1. A = {}
      BY <1>3, <1>9, PlacesOf
    <2>2. PICK e \in Event : /\ OneOf(callbacks[e], X)
                             /\ \A f \in Event \ {e} : NoneOf(callbacks[f], X)
      BY <1>9
    <2>3. PICK i : ~Triggered(e) /\ at(e) = {i}
      BY <1>7, <2>2
    <2>4. \A f \in Event \ {e} : at(f) = {}
      BY <1>6, <2>2
    <2>5. held = {<<e, i>>}
      <3>1. \A z \in held : z = <<e, i>>
        <4> TAKE z \in held
        <4>1. PICK f \in Event : z \in {f} \X at(f)
          OBVIOUS
        <4>2. f = e
          BY <2>4, <4>1
        <4> QED
          BY <2>3, <4>1, <4>2
      <3>2. <<e, i>> \in {e} \X at(e)
        BY <2>3
      <3>3. <<e, i>> \in held
        BY <2>3, <3>2
      <3> QED
        BY <3>1, <3>3
    <2>6. Cardinality(A) = 0 /\ Cardinality(held) = 1
      BY <2>1, <2>5, FS_Singleton, FS_EmptySet
    <2> QED
      BY <1>5, <2>6
  <1> QED
    BY <1>2, <1>8, <1>9 DEF Sole

\* A condition has the verdict of its members once its checks have run.
LEMMA InvariantConditions == KernelInductive => ConditionsExact
  <1> SUFFICES ASSUME KernelInductive, NEW c \in Created, Condition(c)
      PROVE LET achieved == {e \in members[c] : outcome[e] = "ok"}
                owed == \E i \in 1 .. Len(agenda) : \E e \in members[c] :
                          agenda[i].do = Check(c, e)
            IN  /\ outcome[c] = "ok" =>
                      IF kind[c] = "all" THEN achieved = members[c] ELSE achieved # {}
                /\ outcome[c] = "failed" => \E e \in members[c] : outcome[e] = "failed"
                /\ (~Triggered(c) /\ ~owed) =>
                      /\ \A e \in members[c] : outcome[e] # "failed"
                      /\ IF kind[c] = "all" THEN achieved # members[c] ELSE achieved = {}
    BY DEF ConditionsExact, Condition
  <1> DEFINE achieved == {e \in members[c] : outcome[e] = "ok"}
             owed == \E i \in 1 .. Len(agenda) : \E e \in members[c] :
                       agenda[i].do = Check(c, e)
  <1>1. Decided(c) /\ (~Triggered(c) => Waits(c, agenda))
    BY DEF KernelInductive, CallsExact, Conditions
  <1>2. outcome[c] = "ok" => IF kind[c] = "all" THEN achieved = members[c] ELSE achieved # {}
    BY <1>1 DEF Decided
  <1>3. outcome[c] = "failed" => \E e \in members[c] : outcome[e] = "failed"
    BY <1>1 DEF Decided
  <1>4. ASSUME ~Triggered(c), ~owed
        PROVE  /\ \A e \in members[c] : outcome[e] # "failed"
               /\ IF kind[c] = "all" THEN achieved # members[c] ELSE achieved = {}
    <2>1. Waits(c, agenda)
      BY <1>1, <1>4
    <2>2. \A e \in members[c] : Check(c, e) \notin In(Calls(agenda))
      <3>1. agenda \in Seq(Entry)
        BY DEF KernelInductive, CallsExact, KernelTypes
      <3>2. Len(agenda) \in Nat
        BY <3>1
      <3>3. In(Calls(agenda)) = {agenda[i].do : i \in 1 .. Len(agenda)}
        BY <3>2 DEF In, Calls
      <3> QED
        BY <1>4, <3>3
    <2>3. \A e \in members[c] : Triggered(e) => e \in seen[c]
      BY <2>1, <2>2 DEF Waits
    <2>4. \A e \in seen[c] : outcome[e] = "ok"
      BY <2>1 DEF Waits
    <2>5. \A e \in members[c] : outcome[e] # "failed"
      BY <2>3, <2>4 DEF Triggered
    <2>6. CASE kind[c] = "all"
      <3>1. PICK e \in members[c] : e \notin seen[c]
        BY <2>1 DEF Waits
      <3>2. outcome[e] # "ok"
        BY <2>3, <3>1 DEF Triggered
      <3> QED
        BY <2>5, <2>6, <3>1, <3>2
    <2>7. CASE kind[c] # "all"
      <3>1. kind[c] = "any"
        BY <2>7 DEF Condition
      <3>2. seen[c] = {}
        BY <2>1, <3>1 DEF Waits
      <3>3. achieved = {}
        BY <2>3, <3>2 DEF Triggered
      <3> QED
        BY <2>5, <2>7, <3>3
    <2> QED
      BY <2>6, <2>7
  <1> QED
    BY <1>2, <1>3, <1>4, Zenon

\* Only the kernel gives a process its turn, and it has a reason.
LEMMA ResumedStep ==
  ASSUME KernelInductive, [KernelNext]_kernelVars, NEW p \in Process, running # p, running' = p
  PROVE  \/ cause' = <<"start">> /\ turns[p] = 0
         \/ cause' = <<"interrupt">> /\ p \in interrupted
         \/ cause' = <<"event", awaited[p]>> /\ Triggered(awaited[p])
  <1>1. ResumeProcess
    <2>1. CASE Loop
      BY <2>1 DEF Loop, FireTimeout, CheckCondition, DropResume, InterruptUnstarted, turnVars
    <2>2. CASE Turn
      <3>1. running' = running \/ running' = None
        BY <2>2 DEF Turn, CreateTimeout, CreateEvent, TriggerEvent, CreateCondition, Interrupt,
                    Yield, EndProcess, turnVars
      <3> QED
        BY <3>1, ProcessOrCreated
    <2>3. CASE UNCHANGED kernelVars
      BY <2>3 DEF kernelVars, turnVars
    <2> QED
      BY <2>1, <2>2, <2>3 DEF KernelNext, RunReturns
  <1>2. /\ running = None /\ agenda # <<>> /\ Due[1] \in {"turn", "resume"} /\ ~Stale(Due)
        /\ p = Due[2]
        /\ cause' = IF p \in interrupted THEN <<"interrupt">>
                    ELSE IF Due[1] = "resume" THEN <<"event", Due[3]>> ELSE <<"start">>
    BY <1>1 DEF ResumeProcess, Stepping
  <1>3. Due \in Callback /\ Scheduled(Due)
    <2>1. Due \in Callback /\ Due \in In(Calls(agenda))
      BY <1>2, RestKnown DEF KernelInductive
    <2> QED
      BY <2>1 DEF KernelInductive, CallsExact, AgendaKnown
  <1>4. ~Triggered(p)
    BY <1>2 DEF Stale
  <1>5. CASE p \in interrupted
    BY <1>2, <1>5
  <1>6. CASE p \notin interrupted /\ Due[1] = "turn"
    <2>1. Due = Start(p)
      BY <1>2, <1>3, <1>6, Kinds, Carried
    <2>2. turns[p] = 0
      BY <1>3, <1>4, <1>6, <2>1 DEF Scheduled
    <2> QED
      BY <1>2, <1>6, <2>2
  <1>7. CASE p \notin interrupted /\ Due[1] = "resume"
    <2>1. PICK e \in Event, n \in Nat : Due = Wake(p, e, n)
      BY <1>2, <1>3, <1>7, Kinds, Carried
    <2>2. n = token[p] /\ Due[3] = e
      BY <1>2, <1>7, <2>1, Carried DEF Stale
    <2>3. Triggered(e) /\ e = awaited[p]
      BY <1>3, <2>1, <2>2 DEF Scheduled
    <2> QED
      BY <1>2, <1>7, <2>2, <2>3
  <1> QED
    BY <1>2, <1>5, <1>6, <1>7

\* In every state of the kernel, scheduled and held callbacks are exactly those owed.
THEOREM KernelInvariance == KernelSpec => []KernelInductive
  BY KernelStarts, KernelStep, PTL DEF KernelSpec

\* The event loop runs callbacks in order, resumes each process once for each yield and
\* for its own event, and triggers a condition exactly when its members decide it.
THEOREM KernelCorrect == KernelSpec => KernelExact
  <1>1. KernelInductive => AgendaOK /\ OneWakeup /\ ConditionsExact
    BY InvariantAgenda, InvariantWakeup, InvariantConditions
  <1>2. KernelInductive /\ [KernelNext]_kernelVars =>
          [\A p \in Process :
             running # p /\ running' = p =>
               \/ cause' = <<"start">> /\ turns[p] = 0
               \/ cause' = <<"interrupt">> /\ p \in interrupted
               \/ cause' = <<"event", awaited[p]>> /\ Triggered(awaited[p])]_kernelVars
    BY ResumedStep
  <1> QED
    BY <1>1, <1>2, KernelInvariance, PTL DEF KernelSpec, KernelExact, ResumedByItsEvent
=============================================================================

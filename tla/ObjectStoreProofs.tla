------------------------- MODULE ObjectStoreProofs -------------------------
(***************************************************************************)
(* Theorems about ObjectStoreCheckpoint: the store never falls behind a    *)
(* checkpoint that returned, registers only what was captured and is still *)
(* in DRAM, a writer restores its newest shard, and a failure reports what *)
(* is lost; for any workers, stages, modes, iterations and failures.       *)
(***************************************************************************)
EXTENDS ObjectStoreCheckpoint, DataLemmas

-----------------------------------------------------------------------------
(* Processes and what they request. *)

\* A process is of one kind.
LEMMA Kinds ==
  ASSUME NEW t \in Task
  PROVE  \/ t[1] = "work" /\ t[2] \in Worker /\ t = Work(t[2]) /\ t \notin Calls
         \/ t[1] = "checkpoint" /\ t \in Calls /\ t[2] \in Writer /\ t[3] \in Iteration
         \/ t[1] = "recovery" /\ t[2] \in Worker /\ t = Recovery(t[2]) /\ t \notin Calls
  BY DEF Task, Work, Calls, Call, Recovery

\* The processes of a worker.
LEMMA Processes ==
  /\ \A w \in Worker : /\ Work(w) \in Task /\ Work(w)[1] = "work" /\ Work(w)[2] = w
                       /\ Recovery(w) \in Task /\ Recovery(w)[1] = "recovery" /\ Recovery(w)[2] = w
                       /\ Work(w) \notin Calls /\ Recovery(w) \notin Calls
  /\ \A t \in Calls : t \in Task /\ t[1] = "checkpoint" /\ t[2] \in Writer /\ t[3] \in Iteration
                      /\ t = Call(t[2], t[3])
  /\ \A w \in Writer, i \in Iteration : /\ Call(w, i) \in Calls /\ Call(w, i)[2] = w
                                        /\ Call(w, i)[3] = i
  BY DEF Task, Work, Calls, Call, Recovery

\* The settings are what the constants allow.
LEMMA SettingFacts ==
  ASSUME setting \in Settings
  PROVE  /\ mode \in {"synchronous", "asynchronous", "backpressure"}
         /\ StageOf \in [Worker -> Stage] /\ Writer \subseteq Worker
         /\ \A s \in Stage : \E w \in Writer : StageOf[w] = s
         /\ \A v, w \in Writer : StageOf[v] = StageOf[w] => v = w
         /\ LastIteration \in Nat \ {0} /\ MaxFailures \in Nat
  <1>1. /\ setting.mode \in {"synchronous", "asynchronous", "backpressure"}
        /\ setting.stageOf \in [Worker -> setting.stages] /\ setting.writers \subseteq Worker
        /\ \A s \in setting.stages :
              \E w \in setting.writers : {v \in setting.writers : setting.stageOf[v] = s} = {w}
        /\ {StoreSlots, LastIteration} \subseteq Nat \ {0} /\ MaxFailures \in Nat
    BY ObjectStoreAssumption
  <1>2. \A s \in Stage : \E w \in Writer : \A v \in Writer : StageOf[v] = s <=> v = w
    BY <1>1 DEF Stage, Writer, StageOf
  <1>3. \A w \in Writer : StageOf[w] \in Stage
    BY <1>1 DEF Stage, Writer, StageOf
  <1>4. ASSUME NEW v \in Writer, NEW w \in Writer, StageOf[v] = StageOf[w]
        PROVE  v = w
    <2>1. PICK x \in Writer : \A y \in Writer : StageOf[y] = StageOf[w] <=> y = x
      BY <1>2, <1>3
    <2> QED
      BY <1>4, <2>1
  <1> QED
    BY <1>1, <1>2, <1>4 DEF mode, Stage, Writer, StageOf

\* What is requested between operations: nothing.
LEMMA NothingUsed ==
  ASSUME NEW t \in Task, NEW at,
         \/ at \in {"idle", "new", "wait", "done", "restart"}
  PROVE  Uses(t, at) = {}
  BY Kinds DEF Uses, CallUses, RecoveryUses

-----------------------------------------------------------------------------
(* Every step of a process is a move between its places. *)

\* What there is to run and to request depends on the setting alone.
LEMMA SameSetting ==
  ASSUME setting' = setting
  PROVE  /\ mode' = mode /\ Stage' = Stage /\ StageOf' = StageOf /\ Writer' = Writer
         /\ Calls' = Calls /\ Task' = Task
  BY DEF mode, Stage, StageOf, Writer, Calls, Task

Goes(t, at) == at \in Places(t) /\ \E anew : MoveAnew(t, at, anew)

\* A move keeps every queue that of the requests that are out.
LEMMA MoveKeepsQueues ==
  ASSUME TypeOK, QueuesOfTasks, NEW t \in Task, NEW at, Goes(t, at), setting' = setting
  PROVE  /\ QueuesOfTasks'
         /\ DOMAIN pc' = Task /\ pc'[t] = at /\ \A u \in Task : u # t => pc'[u] = pc[u]
         /\ \A u \in Task : pc'[u] \in Places(u)
         /\ \A res \in Resource :
               IsInjective(queue'[res]) /\ ToSet(queue'[res]) = {u \in Task : res \in Uses(u, pc'[u])}
  <1>1. PICK anew : MoveAnew(t, at, anew)
    BY DEF Goes
  <1>2. DOMAIN pc' = Task /\ pc'[t] = at /\ \A u \in Task : u # t => pc'[u] = pc[u]
    BY <1>1 DEF MoveAnew, TypeOK
  <1>3. \A u \in Task : pc'[u] \in Places(u)
    BY <1>2 DEF TypeOK, Goes
  <1>4. ASSUME NEW res \in Resource
        PROVE  /\ queue'[res] \in Seq(Task) /\ IsInjective(queue'[res])
               /\ ToSet(queue'[res]) = {u \in Task : res \in Uses(u, pc'[u])}
    <2> DEFINE q == queue[res]
               n == RemoveFirst(q, t)
    <2>1. q \in Seq(Task) /\ IsInjective(q) /\ ToSet(q) = {u \in Task : res \in Uses(u, pc[u])}
      BY DEF TypeOK, QueuesOfTasks
    <2>2. n \in Seq(Task) /\ IsInjective(n) /\ ToSet(n) = ToSet(q) \ {t}
      BY <2>1, RemoveOrder
    <2>3. queue'[res] = IF res \notin Uses(t, at) THEN n
                        ELSE IF res \in Uses(t, pc[t]) \ anew THEN q
                        ELSE Append(n, t)
      BY <1>1 DEF MoveAnew
    <2> HIDE DEF n, q
    <2>4. CASE res \notin Uses(t, at)
      <3>1. \A u \in Task : u \in ToSet(n) <=> res \in Uses(u, pc'[u])
        BY <1>2, <2>1, <2>2, <2>4
      <3>2. ToSet(n) \subseteq Task
        BY <2>1, <2>2
      <3>3. ToSet(n) = {u \in Task : res \in Uses(u, pc'[u])}
        BY <3>1, <3>2
      <3> QED
        BY <2>2, <2>3, <2>4, <3>3
    <2>5. CASE res \in Uses(t, at) /\ res \in Uses(t, pc[t]) \ anew
      <3>1. {u \in Task : res \in Uses(u, pc'[u])} = {u \in Task : res \in Uses(u, pc[u])}
        BY <1>2, <2>5
      <3> QED
        BY <2>1, <2>3, <2>5, <3>1
    <2>6. CASE res \in Uses(t, at) /\ res \notin Uses(t, pc[t]) \ anew
      <3> DEFINE a == Append(n, t)
      <3>1. a \in Seq(Task) /\ IsInjective(a) /\ ToSet(a) = ToSet(n) \cup {t}
        BY <2>2, AppendOrder
      <3>2. queue'[res] = a
        BY <2>3, <2>6
      <3> HIDE DEF a
      <3>3. \A u \in Task : u \in ToSet(a) <=> res \in Uses(u, pc'[u])
        BY <1>2, <2>1, <2>2, <2>6, <3>1
      <3>4. ToSet(a) \subseteq Task
        BY <2>1, <2>2, <3>1
      <3>5. ToSet(a) = {u \in Task : res \in Uses(u, pc'[u])}
        BY <3>3, <3>4
      <3> QED
        BY <3>1, <3>2, <3>5
    <2> QED
      BY <2>4, <2>5, <2>6
  <1>5. DOMAIN queue' = Resource /\ queue' = [res \in Resource |-> queue'[res]]
    BY <1>1 DEF MoveAnew
  <1>6. QueuesOfTasks'
    BY <1>4, <1>5, SameSetting DEF QueuesOfTasks
  <1> QED
    BY <1>2, <1>3, <1>4, <1>6

-----------------------------------------------------------------------------
(* The steps of a process, by what they change. *)

\* The rest of the state, which a step of work or of recovery leaves alone.
Others(t) ==
    /\ \A u \in Task : u # t => (u \in stale' <=> u \in stale)
    /\ stale' \subseteq Task
    /\ UNCHANGED <<setting, iteration, failures>>

\* A round of the retry loop starts.
Retries(t) == /\ \E at \in {"wait", First(t)} : Goes(t, at)
              /\ stale' = stale \ {t}

\* What a process has reached of the places after its requests.
StepOfWork(t) ==
    /\ t[1] = "work" /\ pc[t] # "done"
    /\ \E at : Goes(t, at)
    /\ Others(t) /\ UNCHANGED <<failed, storeVars>>

StepOfRecovery(t) ==
    /\ t[1] = "recovery"
    /\ Others(t) /\ UNCHANGED <<latest, active, staged>>
    /\ \/ /\ pc[t] = "restart" /\ Goes(t, "slot")
          /\ wanted' = [wanted EXCEPT ![t[2]] = latest[StageOf[t[2]]]]
          /\ UNCHANGED failed
       \/ /\ pc[t] \notin {"idle", "restart"} /\ UNCHANGED wanted
          /\ \E at \in {"restart", "cpu", "download", "gpu", "restore"} : Goes(t, at)
          /\ UNCHANGED failed
       \/ /\ pc[t] = "restore" /\ UNCHANGED wanted
          /\ Goes(t, "idle")
          /\ failed' = [failed EXCEPT ![t[2]] = FALSE]

StepOfCall(t) ==
    /\ t \in Calls
    /\ Others(t) /\ UNCHANGED <<failed, wanted>>
    /\ \/ /\ Retries(t) /\ staged' = staged \ {t} /\ UNCHANGED latest
          /\ pc[t] \notin {"idle", "done"}
          /\ active' = IF pc[t] = "new" THEN active \cup {t[2]} ELSE active
       \/ /\ pc[t] = "capture" /\ Goes(t, "copy") /\ stale' = stale \ {t}
          /\ UNCHANGED <<latest, active, staged>>
       \/ /\ pc[t] = "copy" /\ Goes(t, "slot") /\ ~Aborted(t)
          /\ staged' = staged \cup {t} /\ UNCHANGED <<stale, latest, active>>
       \/ /\ pc[t] \in {"slot", "cpu"} /\ \E at \in {"cpu", "upload"} : Goes(t, at)
          /\ UNCHANGED <<stale, storeVars>>
       \/ /\ pc[t] = "upload" /\ Goes(t, "done") /\ ~Aborted(t)
          /\ staged' = staged \ {t} /\ UNCHANGED stale
          /\ latest' = [latest EXCEPT ![StageOf[t[2]]] = Registered(@, t[3])]
          /\ active' = active \ {t[2]}

\* A move to a place of the process is one that Goes names.
LEMMA MoveGoes ==
  ASSUME NEW t \in Task, NEW at \in Places(t), NEW anew, MoveAnew(t, at, anew) \/ Move(t, at)
  PROVE  Goes(t, at)
  BY DEF Goes, Move

\* The top of the retry loop leads to its two places.
LEMMA AttemptRetries ==
  ASSUME NEW t \in Task, t[1] # "recovery", Attempt(t)
  PROVE  Retries(t)
  <1>1. "wait" \in Places(t) /\ First(t) \in Places(t)
    BY Kinds DEF Places, First
  <1> QED
    BY <1>1, MoveGoes DEF Attempt, Retries

\* What a step changes of the outdated generations is its own.
LEMMA StaleOthers ==
  ASSUME TypeOK, NEW t \in Task, stale' = stale \/ stale' = stale \ {t},
         UNCHANGED <<setting, iteration, failures>>
  PROVE  Others(t)
  BY DEF Others, TypeOK

\* Every step of work is as StepOfWork says.
LEMMA WorkSteps ==
  ASSUME TypeOK, NEW t \in Task, t[1] = "work", TaskStep(t)
  PROVE  StepOfWork(t)
  <1>1. t[2] \in Worker /\ t = Work(t[2]) /\ t \notin Calls
    BY Kinds
  <1>2. Places(t) = {"new", "wait", "gpu", "run", "done"}
    BY DEF Places
  <1>3. ASSUME Attempt(t), UNCHANGED <<jobVars, storeVars>>, pc[t] # "done"
        PROVE  StepOfWork(t)
    <2>1. Retries(t)
      BY <1>3, AttemptRetries
    <2> QED
      BY <1>3, <2>1, StaleOthers DEF StepOfWork, Retries, Attempt, jobVars
  <1>4. ASSUME NEW at \in {"run", "done"}, Move(t, at), UNCHANGED <<jobVars, storeVars>>,
               pc[t] # "done", stale' = stale \/ stale' = stale \ {t}
        PROVE  StepOfWork(t)
    BY <1>2, <1>4, MoveGoes, StaleOthers DEF StepOfWork, jobVars
  <1>5. CASE Begin(t)
    BY <1>1, <1>3, <1>5 DEF Begin, storeVars
  <1>6. CASE Wake(t)
    BY <1>3, <1>6 DEF Wake
  <1>7. CASE StartWork(t[2])
    BY <1>1, <1>3, <1>4, <1>7 DEF StartWork
  <1>8. CASE FinishWork(t[2])
    BY <1>1, <1>3, <1>4, <1>8 DEF FinishWork
  <1> QED
    BY <1>1, <1>5, <1>6, <1>7, <1>8 DEF TaskStep

\* Every step of a checkpoint() is as StepOfCall says.
LEMMA CallSteps ==
  ASSUME TypeOK, StagedUntilStale, NEW t \in Calls, TaskStep(t)
  PROVE  StepOfCall(t)
  <1>1. t \in Task /\ t[1] = "checkpoint"
    BY Processes
  <1>2. Places(t) = {"idle", "new", "wait", "capture", "copy", "slot", "cpu", "upload", "done"}
    BY <1>1 DEF Places
  <1>3. t \in staged => pc[t] \in {"slot", "cpu", "upload"}
    BY DEF StagedUntilStale
  <1>4. ASSUME Attempt(t), UNCHANGED <<jobVars, latest, wanted>>, pc[t] \notin {"idle", "done"},
               staged' = staged \ {t},
               active' = IF pc[t] = "new" THEN active \cup {t[2]} ELSE active
        PROVE  StepOfCall(t)
    <2>1. Retries(t)
      BY <1>1, <1>4, AttemptRetries
    <2> QED
      BY <1>1, <1>4, <2>1, StaleOthers DEF StepOfCall, Retries, jobVars
  <1>5. ASSUME NEW at \in Places(t), Move(t, at) PROVE Goes(t, at)
    BY <1>1, <1>5, MoveGoes
  <1>6. CASE Begin(t)
    BY <1>1, <1>3, <1>4, <1>6 DEF Begin
  <1>7. CASE Wake(t)
    BY <1>1, <1>3, <1>4, <1>7 DEF Wake, storeVars
  <1>8. CASE StartCapture(t)
    <2>1. CASE Attempt(t)
      BY <1>3, <1>4, <1>8, <2>1 DEF StartCapture, storeVars
    <2>2. CASE Move(t, "copy") /\ stale' = stale \ {t}
      BY <1>1, <1>2, <1>5, <1>8, <2>2, StaleOthers DEF StartCapture, storeVars, jobVars, StepOfCall
    <2> QED
      BY <1>8, <2>1, <2>2 DEF StartCapture
  <1>9. CASE EndCapture(t)
    <2>1. CASE Attempt(t) /\ staged' = staged
      BY <1>3, <1>4, <1>9, <2>1 DEF EndCapture
    <2>2. CASE ~Aborted(t) /\ Move(t, "slot") /\ staged' = staged \cup {t} /\ stale' = stale
      BY <1>1, <1>2, <1>5, <1>9, <2>2, StaleOthers DEF EndCapture, jobVars, StepOfCall
    <2> QED
      BY <1>9, <2>1, <2>2 DEF EndCapture
  <1>10. CASE TakeSlot(t)
    BY <1>1, <1>2, <1>5, <1>10, StaleOthers DEF TakeSlot, jobVars, storeVars, StepOfCall
  <1>11. CASE StartUpload(t)
    <2>1. CASE Attempt(t) /\ staged' = staged \ {t}
      BY <1>4, <1>11, <2>1 DEF StartUpload
    <2>2. CASE Move(t, "upload") /\ stale' = stale /\ staged' = staged
      BY <1>1, <1>2, <1>5, <1>11, <2>2, StaleOthers DEF StartUpload, jobVars, storeVars, StepOfCall
    <2> QED
      BY <1>11, <2>1, <2>2 DEF StartUpload
  <1>12. CASE EndUpload(t)
    <2>1. CASE Attempt(t) /\ UNCHANGED <<latest, active>>
      BY <1>4, <1>12, <2>1 DEF EndUpload
    <2>2. CASE /\ ~Aborted(t) /\ Move(t, "done") /\ stale' = stale
               /\ latest' = [latest EXCEPT ![StageOf[t[2]]] = Registered(@, t[3])]
               /\ active' = active \ {t[2]}
      BY <1>1, <1>2, <1>5, <1>12, <2>2, StaleOthers DEF EndUpload, jobVars, StepOfCall
    <2> QED
      BY <1>12, <2>1, <2>2 DEF EndUpload, UploadFailed
  <1>13. CASE Checkpoint(t)
    BY <1>8, <1>9, <1>10, <1>11, <1>12, <1>13 DEF Checkpoint
  <1> QED
    BY <1>1, <1>6, <1>7, <1>13 DEF TaskStep

\* Every step of a recovery is as StepOfRecovery says.
LEMMA RecoverySteps ==
  ASSUME TypeOK, NEW t \in Task, t[1] = "recovery", TaskStep(t)
  PROVE  StepOfRecovery(t)
  <1>1. t[2] \in Worker /\ t = Recovery(t[2]) /\ t \notin Calls
    BY Kinds
  <1>2. Places(t) = {"idle", "restart", "slot", "cpu", "download", "gpu", "restore"}
    BY DEF Places
  <1>3. pc[t] \notin {"new", "wait"}
    BY <1>2 DEF TypeOK
  <1>4. ASSUME NEW at \in Places(t), Move(t, at) PROVE Goes(t, at)
    BY <1>4, MoveGoes
  <1>5. CASE CallRecover(t[2])
    BY <1>1, <1>2, <1>4, <1>5, StaleOthers DEF CallRecover, StepOfRecovery, jobVars
  <1>6. ASSUME NEW at \in {"restart", "cpu", "download", "gpu", "restore"}, Move(t, at),
               pc[t] \notin {"idle", "restart"}, stale' = stale \/ stale' = stale \ {t},
               UNCHANGED <<jobVars, storeVars>>
        PROVE  StepOfRecovery(t)
    BY <1>2, <1>4, <1>6, StaleOthers DEF StepOfRecovery, jobVars, storeVars
  <1>7. CASE TakeSlot(Recovery(t[2]))
    BY <1>1, <1>6, <1>7 DEF TakeSlot
  <1>8. CASE StartDownload(t[2])
    BY <1>1, <1>6, <1>8 DEF StartDownload
  <1>9. CASE EndDownload(t[2])
    BY <1>1, <1>6, <1>9 DEF EndDownload
  <1>10. CASE StartRestore(t[2])
    BY <1>1, <1>6, <1>10 DEF StartRestore
  <1>11. CASE EndRestore(t[2])
    <2>1. CASE Move(t, "restart") /\ stale' = stale \ {t} /\ UNCHANGED failed
      BY <1>1, <1>6, <1>11, <2>1 DEF EndRestore, jobVars
    <2>2. CASE Move(t, "idle") /\ failed' = [failed EXCEPT ![t[2]] = FALSE] /\ stale' = stale
      BY <1>1, <1>2, <1>4, <1>11, <2>2, StaleOthers DEF EndRestore, StepOfRecovery, storeVars
    <2> QED
      BY <1>1, <1>11, <2>1, <2>2 DEF EndRestore
  <1> QED
    BY <1>1, <1>3, <1>5, <1>7, <1>8, <1>9, <1>10, <1>11 DEF TaskStep, Begin, Wake, Recover

-----------------------------------------------------------------------------
(* What a step of a process keeps. *)

\* Registering never goes back.
LEMMA RegisteredFacts ==
  ASSUME NEW old \in Nat, NEW i \in Nat
  PROVE  Registered(old, i) \in {old, i} /\ Registered(old, i) >= old /\ Registered(old, i) >= i
  <1> DEFINE n == old + i
  <1>1. {i, old} \subseteq Int /\ {i, old} # {} /\ n \in Int /\ \A y \in {i, old} : y <= n
    OBVIOUS
  <1> HIDE DEF n
  <1>2. Max({i, old}) \in {i, old} /\ \A y \in {i, old} : Max({i, old}) >= y
    BY <1>1, MaxOfBounded
  <1> QED
    BY <1>2 DEF Registered

\* A step is of work, of a recovery or of a call.
LEMMA TaskSteps ==
  ASSUME Inductive, NEW t \in Task, TaskStep(t)
  PROVE  StepOfWork(t) \/ StepOfRecovery(t) \/ StepOfCall(t)
  BY Kinds, WorkSteps, RecoverySteps, CallSteps DEF Inductive

\* A step moves one process, and leaves the others and the iteration alone.
LEMMA Frame ==
  ASSUME Inductive, NEW t \in Task, TaskStep(t)
  PROVE  /\ UNCHANGED <<setting, iteration, failures>>
         /\ mode' = mode /\ Stage' = Stage /\ StageOf' = StageOf /\ Writer' = Writer
         /\ Calls' = Calls /\ Task' = Task
         /\ \A u \in Task : u # t => pc'[u] = pc[u] /\ (u \in stale' <=> u \in stale)
         /\ pc'[t] \in Places(t) /\ stale' \subseteq Task
         /\ QueuesOfTasks'
         /\ DOMAIN pc' = Task /\ \A u \in Task : pc'[u] \in Places(u)
         /\ \A res \in Resource :
               IsInjective(queue'[res]) /\ ToSet(queue'[res]) = {u \in Task : res \in Uses(u, pc'[u])}
  <1>1. Others(t) /\ \E at : Goes(t, at)
    BY TaskSteps DEF StepOfWork, StepOfRecovery, StepOfCall, Retries
  <1>2. PICK at : Goes(t, at)
    BY <1>1
  <1>3. UNCHANGED <<setting, iteration, failures>> /\ stale' \subseteq Task
        /\ \A u \in Task : u # t => (u \in stale' <=> u \in stale)
    BY <1>1 DEF Others
  <1>4. TypeOK /\ QueuesOfTasks
    BY DEF Inductive
  <1>5. /\ QueuesOfTasks'
        /\ DOMAIN pc' = Task /\ pc'[t] = at /\ \A u \in Task : u # t => pc'[u] = pc[u]
        /\ \A u \in Task : pc'[u] \in Places(u)
        /\ \A res \in Resource :
              IsInjective(queue'[res]) /\ ToSet(queue'[res]) = {u \in Task : res \in Uses(u, pc'[u])}
    BY <1>2, <1>3, <1>4, MoveKeepsQueues
  <1> QED
    BY <1>3, <1>5, SameSetting

\* A call goes from place to place; it is never before its launch or after its
\* end when it does.
LEMMA CallMoves ==
  ASSUME Inductive, NEW t \in Calls, StepOfCall(t)
  PROVE  /\ pc[t] \notin {"idle", "done"}
         /\ \/ /\ pc'[t] \in {"wait", "capture"} /\ staged' = staged \ {t} /\ UNCHANGED latest
               /\ active' = IF pc[t] = "new" THEN active \cup {t[2]} ELSE active
            \/ /\ pc[t] = "capture" /\ pc'[t] = "copy" /\ UNCHANGED <<latest, active, staged>>
            \/ /\ pc[t] = "copy" /\ pc'[t] = "slot" /\ ~Aborted(t)
               /\ staged' = staged \cup {t} /\ UNCHANGED <<stale, latest, active>>
            \/ /\ pc[t] \in {"slot", "cpu"} /\ pc'[t] \in {"cpu", "upload"}
               /\ UNCHANGED <<stale, storeVars>>
            \/ /\ pc[t] = "upload" /\ pc'[t] = "done" /\ ~Aborted(t)
               /\ staged' = staged \ {t} /\ UNCHANGED stale
               /\ latest' = [latest EXCEPT ![StageOf[t[2]]] = Registered(@, t[3])]
               /\ active' = active \ {t[2]}
  <1>1. t \in Task /\ t[1] = "checkpoint"
    BY Processes
  <1>2. \A at : Goes(t, at) => pc'[t] = at
    BY <1>1 DEF Goes, MoveAnew, Inductive, TypeOK
  <1>3. First(t) = "capture"
    BY <1>1 DEF First
  <1>4. CASE /\ Retries(t) /\ staged' = staged \ {t} /\ UNCHANGED latest
             /\ pc[t] \notin {"idle", "done"}
             /\ active' = IF pc[t] = "new" THEN active \cup {t[2]} ELSE active
    <2>1. pc'[t] \in {"wait", "capture"}
      BY <1>2, <1>3, <1>4 DEF Retries
    <2> QED
      BY <1>4, <2>1
  <1>5. CASE ~Retries(t)
    BY <1>2, <1>5 DEF StepOfCall
  <1> QED
    BY <1>2, <1>4, <1>5 DEF StepOfCall

\* The store never forgets, and registers for the stage of the one that uploads.
LEMMA StoreGrows ==
  ASSUME Inductive, NEW t \in Task, TaskStep(t)
  PROVE  /\ latest' \in [Stage -> 0 .. LastIteration]
         /\ \A s \in Stage : latest'[s] \in Nat /\ latest[s] \in Nat /\ latest'[s] >= latest[s]
         /\ \A s \in Stage : latest'[s] # latest[s] =>
               /\ t \in Calls /\ pc[t] = "upload" /\ ~Aborted(t)
               /\ s = StageOf[t[2]] /\ latest'[s] = t[3]
         /\ t \in Calls /\ pc'[t] = "done" => latest'[StageOf[t[2]]] >= t[3]
  <1>1. /\ latest \in [Stage -> 0 .. LastIteration] /\ setting \in Settings
        /\ LastIteration \in Nat
    BY SettingFacts DEF Inductive, TypeOK
  <1>2. CASE StepOfWork(t) \/ StepOfRecovery(t)
    <2>1. latest' = latest /\ t \notin Calls
      BY <1>2, Processes DEF StepOfWork, StepOfRecovery, storeVars
    <2> QED
      BY <1>1, <2>1
  <1>3. CASE StepOfCall(t)
    <2>1. t \in Calls /\ t[2] \in Writer /\ t[3] \in 1 .. LastIteration
      BY <1>3, Processes DEF StepOfCall, Iteration
    <2>2. StageOf[t[2]] \in Stage
      BY <1>1, <2>1, SettingFacts
    <2>3. CASE pc'[t] # "done"
      <3>1. latest' = latest
        BY <1>3, <2>1, <2>3, CallMoves DEF storeVars
      <3> QED
        BY <1>1, <2>3, <3>1
    <2>4. CASE pc'[t] = "done"
      <3>1. /\ pc[t] = "upload" /\ ~Aborted(t)
            /\ latest' = [latest EXCEPT ![StageOf[t[2]]] = Registered(@, t[3])]
        BY <1>3, <2>1, <2>4, CallMoves
      <3> DEFINE s == StageOf[t[2]]
                 n == Registered(latest[s], t[3])
      <3>2. n \in {latest[s], t[3]} /\ n >= latest[s] /\ n >= t[3]
        <4>1. latest[s] \in Nat /\ t[3] \in Nat
          BY <1>1, <2>1, <2>2
        <4> QED
          BY <4>1, RegisteredFacts
      <3>3. latest'[s] = n /\ \A x \in Stage : x # s => latest'[x] = latest[x]
        BY <1>1, <2>2, <3>1
      <3>4. n \in 0 .. LastIteration
        BY <1>1, <2>1, <2>2, <3>2
      <3>5. latest' \in [Stage -> 0 .. LastIteration]
        BY <1>1, <3>1, <3>4
      <3> HIDE DEF n
      <3> QED
        BY <1>1, <2>1, <2>2, <3>1, <3>2, <3>3, <3>5
    <2> QED
      BY <2>3, <2>4
  <1> QED
    BY <1>2, <1>3, TaskSteps

\* The types, through a step of a process.
LEMMA TaskKeepsTypes ==
  ASSUME Inductive, NEW t \in Task, TaskStep(t)
  PROVE  TypeOK'
  <1>1. /\ setting \in Settings /\ iteration \in Iteration /\ failed \in [Worker -> BOOLEAN]
        /\ staged \subseteq Calls /\ active \subseteq Writer /\ failures \in 0 .. MaxFailures
        /\ wanted \in [Worker -> 0 .. LastIteration] /\ latest \in [Stage -> 0 .. LastIteration]
    BY DEF Inductive, TypeOK
  <1>2. /\ UNCHANGED <<setting, iteration, failures>>
        /\ Stage' = Stage /\ Writer' = Writer /\ Calls' = Calls /\ Task' = Task
        /\ stale' \subseteq Task
        /\ DOMAIN pc' = Task /\ \A u \in Task : pc'[u] \in Places(u)
        /\ \A res \in Resource :
              IsInjective(queue'[res]) /\ ToSet(queue'[res]) = {u \in Task : res \in Uses(u, pc'[u])}
    BY Frame
  <1>3. latest' \in [Stage -> 0 .. LastIteration]
    BY StoreGrows
  <1>4. failed' \in [Worker -> BOOLEAN] /\ wanted' \in [Worker -> 0 .. LastIteration]
    <2>1. CASE StepOfWork(t) \/ StepOfCall(t)
      BY <1>1, <2>1 DEF StepOfWork, StepOfCall, storeVars
    <2>2. CASE StepOfRecovery(t)
      <3>1. t[2] \in Worker
        BY <2>2, Kinds DEF StepOfRecovery
      <3>2. StageOf[t[2]] \in Stage
        BY <1>1, <3>1, SettingFacts
      <3> QED
        BY <1>1, <2>2, <3>1, <3>2 DEF StepOfRecovery
    <2> QED
      BY <2>1, <2>2, TaskSteps
  <1>5. staged' \subseteq Calls /\ active' \subseteq Writer
    <2>1. CASE StepOfWork(t) \/ StepOfRecovery(t)
      BY <1>1, <2>1 DEF StepOfWork, StepOfRecovery, storeVars
    <2>2. CASE StepOfCall(t)
      <3>1. t \in Calls /\ t[2] \in Writer
        BY <2>2, Processes DEF StepOfCall
      <3> QED
        BY <1>1, <2>2, <3>1, CallMoves DEF storeVars
    <2> QED
      BY <2>1, <2>2, TaskSteps
  <1> QED
    BY <1>1, <1>2, <1>3, <1>4, <1>5 DEF TypeOK

\* The workers that are failed are those whose recovery is at work.
LEMMA TaskKeepsDown ==
  ASSUME Inductive, NEW t \in Task, TaskStep(t)
  PROVE  /\ DownIsRecovered'
         /\ \A w \in Worker : failed'[w] => failed[w]
         /\ \A w \in Worker : failed[w] /\ ~failed'[w] => t = Recovery(w) /\ pc[t] = "restore"
  <1>1. /\ \A w \in Worker : failed[w] <=> pc[Recovery(w)] # "idle"
        /\ failed \in [Worker -> BOOLEAN] /\ DOMAIN pc = Task
    BY DEF Inductive, DownIsRecovered, TypeOK
  <1>2. \A u \in Task : u # t => pc'[u] = pc[u]
    BY Frame
  <1>3. ASSUME NEW w \in Worker
        PROVE  /\ failed'[w] <=> pc'[Recovery(w)] # "idle"
               /\ failed'[w] => failed[w]
               /\ failed[w] /\ ~failed'[w] => t = Recovery(w) /\ pc[t] = "restore"
    <2>1. Recovery(w) \in Task /\ Recovery(w)[1] = "recovery" /\ Recovery(w)[2] = w
          /\ Recovery(w) \notin Calls
      BY Processes
    <2>2. CASE StepOfWork(t) \/ StepOfCall(t)
      <3>1. t # Recovery(w) /\ failed' = failed
        BY <2>1, <2>2 DEF StepOfWork, StepOfCall
      <3> QED
        BY <1>1, <1>2, <2>1, <3>1
    <2>3. CASE StepOfRecovery(t)
      <3>1. t[2] \in Worker /\ t = Recovery(t[2])
        BY <2>3, Kinds DEF StepOfRecovery
      <3>2. \A at : Goes(t, at) => pc'[t] = at
        BY <1>1 DEF Goes, MoveAnew
      <3>3. \/ pc[t] # "idle" /\ pc'[t] # "idle" /\ failed' = failed
            \/ pc[t] = "restore" /\ pc'[t] = "idle" /\ failed' = [failed EXCEPT ![t[2]] = FALSE]
        BY <2>3, <3>2 DEF StepOfRecovery
      <3>4. CASE t = Recovery(w)
        <4>1. t[2] = w
          BY <2>1, <3>4
        <4> QED
          BY <1>1, <3>3, <3>4, <4>1
      <3>5. CASE t # Recovery(w)
        <4>1. t[2] # w /\ failed'[w] = failed[w]
          BY <1>1, <3>1, <3>3, <3>5
        <4> QED
          BY <1>1, <1>2, <2>1, <3>5, <4>1
      <3> QED
        BY <3>4, <3>5
    <2> QED
      BY <2>2, <2>3, TaskSteps
  <1> QED
    BY <1>3 DEF DownIsRecovered

\* What is staged.
LEMMA TaskKeepsStaged ==
  ASSUME Inductive, NEW t \in Task, TaskStep(t)
  PROVE  StagedUntilStale'
  <1>1. /\ \A u \in staged : pc[u] \in {"slot", "cpu", "upload"}
        /\ \A u \in Calls : pc[u] \in {"slot", "cpu", "upload"} /\ u \notin stale
                               => u \in staged /\ ~failed[u[2]]
        /\ staged \subseteq Calls
    BY DEF Inductive, StagedUntilStale, TypeOK
  <1>2. /\ \A u \in Task : u # t => pc'[u] = pc[u] /\ (u \in stale' <=> u \in stale)
        /\ Calls' = Calls
    BY Frame
  <1>3. \A u \in Calls : u \in Task /\ u[2] \in Worker
    BY Processes, SettingFacts DEF Inductive, TypeOK
  <1>4. \A w \in Worker : failed'[w] => failed[w]
    BY TaskKeepsDown
  <1>5. CASE StepOfWork(t) \/ StepOfRecovery(t)
    <2>1. staged' = staged /\ t \notin Calls
      BY <1>5, Processes DEF StepOfWork, StepOfRecovery, storeVars
    <2> QED
      BY <1>1, <1>2, <1>3, <1>4, <2>1 DEF StagedUntilStale
  <1>6. CASE StepOfCall(t)
    <2>1. t \in Calls
      BY <1>6 DEF StepOfCall
    <2>2. failed' = failed
      BY <1>6 DEF StepOfCall
    <2>3. \A u \in Calls : u # t => (u \in staged' <=> u \in staged)
      BY <1>6, <2>1, CallMoves DEF storeVars
    <2>4. staged' \subseteq Calls
      BY <1>1, <1>6, <2>1, CallMoves DEF storeVars
    <2>5. /\ t \in staged' => pc'[t] \in {"slot", "cpu", "upload"}
          /\ pc'[t] \in {"slot", "cpu", "upload"} /\ t \notin stale' => t \in staged' /\ ~failed'[t[2]]
      <3>1. CASE pc'[t] \in {"wait", "capture"} /\ staged' = staged \ {t}
        BY <3>1
      <3>2. CASE pc[t] = "capture" /\ pc'[t] = "copy" /\ staged' = staged
        BY <1>1, <3>2
      <3>3. CASE pc[t] = "copy" /\ pc'[t] = "slot" /\ ~Aborted(t) /\ staged' = staged \cup {t}
        BY <2>2, <3>3 DEF Aborted
      <3>4. CASE pc[t] \in {"slot", "cpu"} /\ pc'[t] \in {"cpu", "upload"} /\ staged' = staged
                 /\ stale' = stale
        BY <1>1, <2>1, <2>2, <3>4
      <3>5. CASE pc'[t] = "done" /\ staged' = staged \ {t}
        BY <3>5
      <3> QED
        BY <1>6, <2>1, <3>1, <3>2, <3>3, <3>4, <3>5, CallMoves DEF storeVars
    <2>6. \A u \in staged' : pc'[u] \in {"slot", "cpu", "upload"}
      BY <1>1, <1>2, <1>3, <2>3, <2>4, <2>5
    <2>7. \A u \in Calls : pc'[u] \in {"slot", "cpu", "upload"} /\ u \notin stale'
                               => u \in staged' /\ ~failed'[u[2]]
      BY <1>1, <1>2, <1>3, <2>2, <2>3, <2>5
    <2> QED
      BY <1>2, <2>6, <2>7 DEF StagedUntilStale
  <1> QED
    BY <1>5, <1>6, TaskSteps

\* What a writer restores is not superseded: its own calls are aborted.
LEMMA TaskKeepsChosen ==
  ASSUME Inductive, NEW t \in Task, TaskStep(t)
  PROVE  ChosenIsNewest'
  <1>1. /\ setting \in Settings /\ wanted \in [Worker -> 0 .. LastIteration] /\ DOMAIN pc = Task
        /\ \A w \in Worker : failed[w] <=> pc[Recovery(w)] # "idle"
        /\ \A w \in Writer : pc[Recovery(w)] \notin {"idle", "restart"}
                                => wanted[w] = latest[StageOf[w]]
    BY DEF Inductive, DownIsRecovered, ChosenIsNewest, TypeOK
  <1>2. /\ \A u \in Task : u # t => pc'[u] = pc[u]
        /\ Writer' = Writer /\ StageOf' = StageOf
    BY Frame
  <1> SUFFICES ASSUME NEW w \in Writer, pc'[Recovery(w)] \notin {"idle", "restart"}
               PROVE  wanted'[w] = latest'[StageOf[w]]
    BY <1>2 DEF ChosenIsNewest
  <1>3. /\ w \in Worker /\ StageOf[w] \in Stage
        /\ \A v \in Writer : StageOf[v] = StageOf[w] => v = w
    BY <1>1, SettingFacts
  <1>4. Recovery(w) \in Task /\ Recovery(w)[1] = "recovery" /\ Recovery(w)[2] = w
        /\ Recovery(w) \notin Calls
    BY <1>3, Processes
  <1>5. CASE t # Recovery(w)
    <2>1. pc[Recovery(w)] = pc'[Recovery(w)] /\ failed[w] /\ wanted[w] = latest[StageOf[w]]
      BY <1>1, <1>2, <1>3, <1>4, <1>5
    <2>2. latest'[StageOf[w]] = latest[StageOf[w]]
      <3> SUFFICES ASSUME latest'[StageOf[w]] # latest[StageOf[w]] PROVE FALSE
        OBVIOUS
      <3>1. t \in Calls /\ ~Aborted(t) /\ StageOf[w] = StageOf[t[2]]
        BY <1>3, StoreGrows
      <3>2. t[2] = w
        BY <1>3, <3>1, Processes
      <3> QED
        BY <2>1, <3>1, <3>2 DEF Aborted
    <2>3. wanted'[w] = wanted[w]
      <3>1. CASE StepOfWork(t) \/ StepOfCall(t)
        BY <3>1 DEF StepOfWork, StepOfCall, storeVars
      <3>2. CASE StepOfRecovery(t)
        <4>1. t[2] # w
          BY <1>5, <3>2, Kinds DEF StepOfRecovery
        <4> QED
          BY <1>1, <1>3, <3>2, <4>1 DEF StepOfRecovery
      <3> QED
        BY <3>1, <3>2, TaskSteps
    <2> QED
      BY <2>1, <2>2, <2>3
  <1>6. CASE t = Recovery(w)
    <2>1. StepOfRecovery(t)
      BY <1>4, <1>6, TaskSteps DEF StepOfWork, StepOfCall
    <2>2. \A at : Goes(t, at) => pc'[t] = at
      BY <1>1 DEF Goes, MoveAnew
    <2>3. latest' = latest
      BY <2>1 DEF StepOfRecovery
    <2>4. CASE pc[t] = "restart" /\ wanted' = [wanted EXCEPT ![t[2]] = latest[StageOf[t[2]]]]
      BY <1>1, <1>3, <1>4, <1>6, <2>3, <2>4
    <2>5. CASE pc[t] \notin {"idle", "restart"} /\ wanted' = wanted
      BY <1>1, <1>6, <2>3, <2>5
    <2> QED
      BY <2>1, <2>4, <2>5 DEF StepOfRecovery
  <1> QED
    BY <1>5, <1>6

\* The order of the calls: a process neither launches nor ends one but its own.
LEMMA TaskKeepsOrder ==
  ASSUME Inductive, NEW t \in Task, TaskStep(t)
  PROVE  LaunchedInOrder'
  <1>1. \A u \in Calls :
          /\ u[3] > iteration => pc[u] = "idle"
          /\ u[3] = iteration /\ pc[u] # "idle" => \A w \in Worker : pc[Work(w)] = "done"
          /\ mode = "synchronous" /\ u[3] < iteration => pc[u] = "done"
    BY DEF Inductive, LaunchedInOrder
  <1>2. /\ \A u \in Task : u # t => pc'[u] = pc[u]
        /\ Calls' = Calls /\ mode' = mode /\ iteration' = iteration
    BY Frame
  <1>3. \A u \in Calls : u \in Task /\ u[3] \in Int
    BY Processes DEF Iteration
  <1>4. \A w \in Worker : Work(w) \in Task /\ Work(w) \notin Calls
    BY Processes
  <1>5. iteration \in Int
    BY DEF Inductive, TypeOK, Iteration
  <1>6. CASE StepOfCall(t)
    <2>1. t \in Calls /\ pc[t] \notin {"idle", "done"}
      BY <1>6, CallMoves DEF StepOfCall
    <2>2. \A w \in Worker : pc'[Work(w)] = pc[Work(w)]
      BY <1>2, <1>4, <2>1
    <2>3. ~(t[3] > iteration) /\ ~(mode = "synchronous" /\ t[3] < iteration)
          /\ (t[3] = iteration => \A w \in Worker : pc[Work(w)] = "done")
      BY <1>1, <2>1
    <2>4. \A u \in Calls : u # t => pc'[u] = pc[u]
      BY <1>2, <1>3
    <2> QED
      BY <1>1, <1>2, <2>2, <2>3, <2>4 DEF LaunchedInOrder
  <1>7. CASE StepOfWork(t)
    <2>1. t \notin Calls /\ t[2] \in Worker /\ t = Work(t[2]) /\ pc[t] # "done"
      BY <1>7, Kinds DEF StepOfWork
    <2>2. \A u \in Calls : pc'[u] = pc[u]
      BY <1>2, <1>3, <2>1
    <2>3. \A u \in Calls : u[3] = iteration => pc[u] = "idle"
      BY <1>1, <2>1
    <2> QED
      BY <1>1, <1>2, <2>2, <2>3 DEF LaunchedInOrder
  <1>8. CASE StepOfRecovery(t)
    <2>1. t \notin Calls /\ \A w \in Worker : Work(w) # t
      BY <1>8, Processes DEF StepOfRecovery
    <2>2. \A u \in Calls : pc'[u] = pc[u]
      BY <1>2, <1>3, <2>1
    <2>3. \A w \in Worker : pc'[Work(w)] = pc[Work(w)]
      BY <1>2, <1>4, <2>1
    <2> QED
      BY <1>1, <1>2, <2>2, <2>3 DEF LaunchedInOrder
  <1> QED
    BY <1>6, <1>7, <1>8, TaskSteps

\* A call counts its shard until it returns.
LEMMA TaskKeepsCount ==
  ASSUME Inductive, NEW t \in Task, TaskStep(t)
  PROVE  OneAtATime'
  <1>1. /\ \A u \in Task : u # t => pc'[u] = pc[u]
        /\ Calls' = Calls /\ mode' = mode
    BY Frame
  <1>2. \A u \in Calls : u \in Task
    BY Processes
  <1> SUFFICES ASSUME mode # "asynchronous"
               PROVE  /\ \A u, v \in Calls : /\ u[2] = v[2]
                                             /\ pc'[u] \notin {"idle", "done"}
                                             /\ pc'[v] \notin {"idle", "done"}
                                             => u = v
                      /\ \A u \in Calls : pc'[u] \notin {"idle", "new", "done"} => u[2] \in active'
    BY <1>1 DEF OneAtATime
  <1>3. /\ \A u, v \in Calls : /\ u[2] = v[2]
                               /\ pc[u] \notin {"idle", "done"}
                               /\ pc[v] \notin {"idle", "done"}
                               => u = v
        /\ \A u \in Calls : pc[u] \notin {"idle", "new", "done"} => u[2] \in active
    BY DEF Inductive, OneAtATime
  <1>4. CASE StepOfWork(t) \/ StepOfRecovery(t)
    <2>1. t \notin Calls /\ active' = active
      BY <1>4, Processes DEF StepOfWork, StepOfRecovery, storeVars
    <2>2. \A u \in Calls : pc'[u] = pc[u]
      BY <1>1, <1>2, <2>1
    <2> QED
      BY <1>3, <2>1, <2>2
  <1>5. CASE StepOfCall(t)
    <2>1. t \in Calls /\ pc[t] \notin {"idle", "done"}
      BY <1>5, CallMoves DEF StepOfCall
    <2>2. \A u \in Calls : pc'[u] \notin {"idle", "done"} => pc[u] \notin {"idle", "done"}
      BY <1>1, <1>2, <2>1
    <2>3. ASSUME NEW u \in Calls, pc'[u] \notin {"idle", "new", "done"}
          PROVE  u[2] \in active'
      <3>1. CASE u = t
        <4>1. CASE pc[t] = "new"
          <5>1. active' = active \cup {t[2]}
            BY <1>5, <2>1, <4>1, CallMoves
          <5> QED
            BY <3>1, <5>1
        <4>2. CASE pc[t] # "new"
          <5>1. active' = active
            BY <1>5, <2>1, <2>3, <3>1, <4>2, CallMoves DEF storeVars
          <5> QED
            BY <1>3, <2>1, <3>1, <4>2, <5>1
        <4> QED
          BY <4>1, <4>2
      <3>2. CASE u # t
        <4>1. pc[u] \notin {"idle", "new", "done"} /\ u[2] \in active
          BY <1>1, <1>2, <1>3, <2>3, <3>2
        <4>2. u[2] # t[2]
          BY <1>3, <2>1, <3>2, <4>1
        <4>3. active \ {t[2]} \subseteq active'
          BY <1>5, <2>1, CallMoves DEF storeVars
        <4> QED
          BY <4>1, <4>2, <4>3
      <3> QED
        BY <3>1, <3>2
    <2> QED
      BY <1>3, <2>2, <2>3
  <1> QED
    BY <1>4, <1>5, TaskSteps

\* The store has what returned.
LEMMA TaskKeepsNewest ==
  ASSUME Inductive, NEW t \in Task, TaskStep(t)
  PROVE  NewestUploadKept' /\ GroupComplete'
  <1>1. /\ \A u \in Task : u # t => pc'[u] = pc[u]
        /\ Calls' = Calls /\ mode' = mode /\ Stage' = Stage /\ StageOf' = StageOf
        /\ iteration' = iteration
    BY Frame
  <1>2. /\ \A s \in Stage : latest'[s] \in Nat /\ latest[s] \in Nat /\ latest'[s] >= latest[s]
        /\ t \in Calls /\ pc'[t] = "done" => latest'[StageOf[t[2]]] >= t[3]
    BY StoreGrows
  <1>3. \A u \in Calls : u \in Task /\ StageOf[u[2]] \in Stage /\ u[3] \in Int
    BY Processes, SettingFacts DEF Inductive, TypeOK, Iteration
  <1>4. ASSUME NEW u \in Calls, pc'[u] = "done" PROVE latest'[StageOf[u[2]]] >= u[3]
    <2>1. CASE u = t
      BY <1>2, <1>4, <2>1
    <2>2. CASE u # t
      <3>1. latest[StageOf[u[2]]] >= u[3]
        BY <1>1, <1>3, <1>4, <2>2 DEF Inductive, NewestUploadKept
      <3> QED
        BY <1>2, <1>3, <3>1
    <2> QED
      BY <2>1, <2>2
  <1>5. NewestUploadKept'
    BY <1>1, <1>4 DEF NewestUploadKept
  <1>6. ASSUME mode = "synchronous", NEW s \in Stage PROVE latest'[s] >= iteration - 1
    <2>1. latest[s] >= iteration - 1 /\ iteration \in Int
      BY <1>6 DEF Inductive, GroupComplete, TypeOK, Iteration
    <2> QED
      BY <1>2, <2>1
  <1>7. GroupComplete'
    BY <1>1, <1>6 DEF GroupComplete
  <1> QED
    BY <1>5, <1>7

\* Every step of a process keeps the invariant.
LEMMA TaskKeeps ==
  ASSUME Inductive, NEW t \in Task, TaskStep(t)
  PROVE  Inductive'
  <1>1. QueuesOfTasks'
    BY Frame
  <1> QED
    BY <1>1, TaskKeepsTypes, TaskKeepsDown, TaskKeepsStaged, TaskKeepsChosen, TaskKeepsOrder,
       TaskKeepsCount, TaskKeepsNewest DEF Inductive

-----------------------------------------------------------------------------
(* The steps of the job, and failures. *)

\* The queues do not change when no process asks for anything else.
LEMMA QueuesStay ==
  ASSUME TypeOK, QueuesOfTasks, UNCHANGED <<setting, queue>>, DOMAIN pc' = Task,
         \A u \in Task : pc'[u] \in Places(u) /\ Uses(u, pc'[u]) = Uses(u, pc[u])
  PROVE  /\ QueuesOfTasks'
         /\ DOMAIN pc' = Task' /\ \A u \in Task' : pc'[u] \in Places(u)
         /\ \A res \in Resource : /\ IsInjective(queue'[res])
                                  /\ ToSet(queue'[res]) = {u \in Task' : res \in Uses(u, pc'[u])}
  <1>1. Task' = Task
    BY SameSetting
  <1>2. ASSUME NEW res \in Resource
        PROVE  /\ IsInjective(queue'[res])
               /\ ToSet(queue'[res]) = {u \in Task : res \in Uses(u, pc'[u])}
    <2>1. IsInjective(queue[res]) /\ ToSet(queue[res]) = {u \in Task : res \in Uses(u, pc[u])}
      BY DEF TypeOK
    <2>2. {u \in Task : res \in Uses(u, pc'[u])} = {u \in Task : res \in Uses(u, pc[u])}
      OBVIOUS
    <2> QED
      BY <2>1, <2>2
  <1>3. QueuesOfTasks'
    BY <1>1 DEF QueuesOfTasks
  <1> QED
    BY <1>1, <1>2, <1>3

\* The calls of an iteration.
LEMMA CallsOf ==
  ASSUME NEW i \in Iteration
  PROVE  \A u \in Task : u \in Unwritten(i) <=> u \in Calls /\ u[3] = i
  BY Processes DEF Unwritten

\* A launch comes when the calls before it are over, where they must be.
LEMMA LaunchKeeps ==
  ASSUME Inductive, LaunchCheckpoints
  PROVE  Inductive'
  <1>1. /\ \A w \in Worker : pc[Work(w)] = "done"
        /\ \A t \in Unwritten(iteration) : pc[t] = "idle"
        /\ mode = "backpressure" => \A i \in 1..(iteration - 1) : Returned(Unwritten(i))
        /\ pc' = [t \in Task |->
              IF t \in Unwritten(iteration) THEN "new"
              ELSE IF t[1] = "work" /\ GoesOn(iteration) THEN "new" ELSE pc[t]]
        /\ iteration' = iteration + (IF GoesOn(iteration) THEN 1 ELSE 0)
        /\ UNCHANGED <<setting, queue, failed, stale, failures, latest, wanted, active, staged>>
    BY DEF LaunchCheckpoints, storeVars
  <1>2. TypeOK /\ QueuesOfTasks
    BY DEF Inductive
  <1>3. /\ iteration \in 1 .. LastIteration /\ LastIteration \in Nat /\ setting \in Settings
        /\ iteration \in Iteration
        /\ mode \in {"synchronous", "asynchronous", "backpressure"}
    BY <1>2, SettingFacts DEF TypeOK, Iteration
  <1>4. /\ Stage' = Stage /\ StageOf' = StageOf /\ Writer' = Writer /\ Calls' = Calls
        /\ Task' = Task /\ mode' = mode
    BY <1>1, SameSetting
  <1>5. /\ \A u \in Calls : u[3] = iteration => pc[u] = "idle" /\ pc'[u] = "new"
        /\ \A u \in Calls : u[3] # iteration => pc'[u] = pc[u]
        /\ \A u \in Calls : u \in Task /\ u[3] \in Iteration /\ u[3] \in Int
    BY <1>1, <1>3, CallsOf, Processes DEF Iteration
  <1>6. \A w \in Worker : /\ Work(w) \in Task /\ Recovery(w) \in Task
                          /\ pc'[Work(w)] = IF GoesOn(iteration) THEN "new" ELSE "done"
                          /\ pc'[Recovery(w)] = pc[Recovery(w)]
    BY <1>1, <1>3, CallsOf, Processes
  <1>7. ASSUME NEW u \in Task
        PROVE  pc'[u] \in Places(u) /\ Uses(u, pc'[u]) = Uses(u, pc[u])
    <2>1. CASE pc'[u] = pc[u]
      BY <1>2, <2>1 DEF TypeOK
    <2>2. CASE pc'[u] # pc[u]
      <3>1. pc'[u] = "new" /\ pc[u] \in {"idle", "done"} /\ u[1] \in {"work", "checkpoint"}
        BY <1>1, <1>3, <2>2, CallsOf, Kinds
      <3>2. "new" \in Places(u)
        BY <3>1 DEF Places
      <3> QED
        BY <3>1, <3>2, NothingUsed
    <2> QED
      BY <2>1, <2>2
  <1>8. iteration' \in Iteration /\ (mode = "synchronous" => iteration' = iteration)
        /\ iteration' \in {iteration, iteration + 1}
        /\ (iteration' = iteration + 1 <=> GoesOn(iteration))
    BY <1>1, <1>3 DEF GoesOn, Iteration
  <1>9. TypeOK' /\ QueuesOfTasks'
    <2>1. DOMAIN pc' = Task
      BY <1>1
    <2> QED
      BY <1>1, <1>2, <1>4, <1>7, <1>8, <2>1, QueuesStay DEF TypeOK
  <1>10. DownIsRecovered'
    BY <1>1, <1>6 DEF Inductive, DownIsRecovered
  <1>11. StagedUntilStale'
    <2>1. staged \subseteq Calls
      BY <1>2 DEF TypeOK
    <2> QED
      BY <1>1, <1>4, <1>5, <2>1 DEF Inductive, StagedUntilStale
  <1>12. ChosenIsNewest'
    <2>1. Writer \subseteq Worker
      BY <1>3, SettingFacts
    <2> QED
      BY <1>1, <1>4, <1>6, <2>1 DEF Inductive, ChosenIsNewest
  <1>13. \A u \in Calls :
            /\ u[3] > iteration => pc[u] = "idle"
            /\ mode = "synchronous" /\ u[3] < iteration => pc[u] = "done"
    BY DEF Inductive, LaunchedInOrder
  <1>14. LaunchedInOrder'
    <2> SUFFICES ASSUME NEW u \in Calls
                 PROVE  /\ u[3] > iteration' => pc'[u] = "idle"
                        /\ u[3] = iteration' /\ pc'[u] # "idle"
                              => \A w \in Worker : pc'[Work(w)] = "done"
                        /\ mode = "synchronous" /\ u[3] < iteration' => pc'[u] = "done"
      BY <1>4 DEF LaunchedInOrder
    <2>1. u[3] > iteration => pc'[u] = "idle"
      BY <1>3, <1>5, <1>13
    <2>2. CASE iteration' = iteration + 1
      <3>1. u[3] >= iteration' => u[3] > iteration
        BY <1>3, <1>5, <2>2
      <3>2. u[3] >= iteration' => pc'[u] = "idle"
        BY <2>1, <3>1
      <3>3. mode # "synchronous"
        BY <1>3, <1>8, <2>2
      <3> QED
        BY <1>3, <1>5, <2>2, <3>2, <3>3
    <2>3. CASE iteration' = iteration
      <3>1. ~GoesOn(iteration)
        BY <1>3, <1>8, <2>3
      <3>2. \A w \in Worker : pc'[Work(w)] = "done"
        BY <1>6, <3>1
      <3>3. mode = "synchronous" /\ u[3] < iteration => pc'[u] = "done"
        BY <1>3, <1>5, <1>13
      <3> QED
        BY <2>1, <2>3, <3>2, <3>3
    <2> QED
      BY <1>8, <2>2, <2>3
  <1>15. OneAtATime'
    <2> SUFFICES ASSUME mode # "asynchronous"
                 PROVE  /\ \A u, v \in Calls : /\ u[2] = v[2]
                                               /\ pc'[u] \notin {"idle", "done"}
                                               /\ pc'[v] \notin {"idle", "done"}
                                               => u = v
                        /\ \A u \in Calls : pc'[u] \notin {"idle", "new", "done"} => u[2] \in active'
      BY <1>4 DEF OneAtATime
    <2>1. ASSUME NEW u \in Calls, pc'[u] \notin {"idle", "done"}
          PROVE  u[3] = iteration
      <3> SUFFICES ASSUME u[3] # iteration PROVE FALSE
        OBVIOUS
      <3>1. pc[u] \notin {"idle", "done"}
        BY <1>5, <2>1
      <3>2. u[3] < iteration /\ u[3] \in 1 .. (iteration - 1)
        BY <1>3, <1>5, <1>13, <3>1 DEF Iteration
      <3>3. mode = "backpressure"
        BY <1>3, <1>13, <3>1, <3>2
      <3>4. u \in Unwritten(u[3])
        BY <1>5, CallsOf
      <3> QED
        BY <1>1, <3>1, <3>2, <3>3, <3>4 DEF Returned
    <2>2. \A u, v \in Calls : u[2] = v[2] /\ u[3] = v[3] => u = v
      BY Processes
    <2>3. ASSUME NEW u \in Calls, pc'[u] \notin {"idle", "new", "done"} PROVE u[2] \in active'
      <3>1. pc[u] = pc'[u]
        BY <1>5, <2>3
      <3> QED
        BY <1>1, <2>3, <3>1 DEF Inductive, OneAtATime
    <2> QED
      BY <2>1, <2>2, <2>3
  <1>16. NewestUploadKept'
    <2>1. \A u \in Calls : pc'[u] = "done" => pc[u] = "done"
      BY <1>5
    <2> QED
      BY <1>1, <1>4, <2>1 DEF Inductive, NewestUploadKept
  <1>17. GroupComplete'
    BY <1>1, <1>4, <1>8 DEF Inductive, GroupComplete
  <1> QED
    BY <1>9, <1>10, <1>11, <1>12, <1>14, <1>15, <1>16, <1>17 DEF Inductive

\* A synchronous job goes on when its group is in the store.
LEMMA NextIterationKeeps ==
  ASSUME Inductive, NextIteration
  PROVE  Inductive'
  <1>1. /\ Returned(Unwritten(iteration)) /\ iteration < LastIteration
        /\ iteration' = iteration + 1
        /\ pc' = [t \in Task |-> IF t[1] = "work" THEN "new" ELSE pc[t]]
        /\ UNCHANGED <<setting, queue, failed, stale, failures, latest, wanted, active, staged>>
    BY DEF NextIteration, storeVars
  <1>2. TypeOK /\ QueuesOfTasks
    BY DEF Inductive
  <1>3. /\ iteration \in 1 .. LastIteration /\ LastIteration \in Nat /\ setting \in Settings
        /\ iteration \in Iteration /\ iteration' \in Iteration
        /\ Writer \subseteq Worker /\ StageOf \in [Worker -> Stage]
        /\ \A s \in Stage : \E w \in Writer : StageOf[w] = s
    BY <1>1, <1>2, SettingFacts DEF TypeOK, Iteration
  <1>4. /\ Stage' = Stage /\ StageOf' = StageOf /\ Writer' = Writer /\ Calls' = Calls
        /\ Task' = Task /\ mode' = mode
    BY <1>1, SameSetting
  <1>5. \A u \in Calls : /\ u \in Task /\ u[3] \in Int /\ pc'[u] = pc[u]
                         /\ u[3] = iteration => pc[u] = "done"
    <2>1. \A u \in Calls : u \in Task /\ u[3] \in Int /\ u[1] = "checkpoint"
      BY Processes DEF Iteration
    <2>2. \A u \in Calls : u[3] = iteration => pc[u] = "done"
      BY <1>1, <1>3, <2>1, CallsOf DEF Returned
    <2> QED
      BY <1>1, <2>1, <2>2
  <1>6. \A w \in Worker : /\ Work(w) \in Task /\ Recovery(w) \in Task
                          /\ pc'[Recovery(w)] = pc[Recovery(w)]
    BY <1>1, Processes
  <1>7. ASSUME NEW w \in Worker PROVE pc[Work(w)] = "done"
    <2>1. PICK v \in Writer : StageOf[v] = StageOf[w]
      BY <1>3
    <2>2. Call(v, iteration) \in Calls /\ Call(v, iteration)[3] = iteration
      BY <1>3, <2>1, Processes
    <2>3. pc[Call(v, iteration)] # "idle"
      BY <1>5, <2>2
    <2> QED
      BY <2>2, <2>3 DEF Inductive, LaunchedInOrder
  <1>8. ASSUME NEW u \in Task
        PROVE  pc'[u] \in Places(u) /\ Uses(u, pc'[u]) = Uses(u, pc[u])
    <2>1. CASE u[1] # "work"
      BY <1>1, <1>2, <2>1 DEF TypeOK
    <2>2. CASE u[1] = "work"
      <3>1. pc'[u] = "new" /\ pc[u] = "done"
        BY <1>1, <1>7, <2>2, Kinds
      <3>2. "new" \in Places(u)
        BY <2>2 DEF Places
      <3> QED
        BY <3>1, <3>2, NothingUsed
    <2> QED
      BY <2>1, <2>2
  <1>9. TypeOK' /\ QueuesOfTasks'
    <2>1. DOMAIN pc' = Task
      BY <1>1
    <2> QED
      BY <1>1, <1>2, <1>3, <1>4, <1>8, <2>1, QueuesStay DEF TypeOK
  <1>10. DownIsRecovered'
    BY <1>1, <1>6 DEF Inductive, DownIsRecovered
  <1>11. StagedUntilStale'
    <2>1. staged \subseteq Calls
      BY <1>2 DEF TypeOK
    <2> QED
      BY <1>1, <1>4, <1>5, <2>1 DEF Inductive, StagedUntilStale
  <1>12. ChosenIsNewest'
    BY <1>1, <1>3, <1>4, <1>6 DEF Inductive, ChosenIsNewest
  <1>13. LaunchedInOrder'
    <2> SUFFICES ASSUME NEW u \in Calls
                 PROVE  /\ u[3] > iteration + 1 => pc[u] = "idle"
                        /\ u[3] = iteration + 1 => pc[u] = "idle"
                        /\ mode = "synchronous" /\ u[3] < iteration + 1 => pc[u] = "done"
      BY <1>1, <1>4, <1>5 DEF LaunchedInOrder
    <2>1. /\ u[3] > iteration => pc[u] = "idle"
          /\ mode = "synchronous" /\ u[3] < iteration => pc[u] = "done"
      BY DEF Inductive, LaunchedInOrder
    <2> QED
      BY <1>3, <1>5, <2>1
  <1>14. OneAtATime'
    BY <1>1, <1>4, <1>5 DEF Inductive, OneAtATime
  <1>15. NewestUploadKept'
    BY <1>1, <1>4, <1>5 DEF Inductive, NewestUploadKept
  <1>16. GroupComplete'
    <2> SUFFICES ASSUME NEW s \in Stage PROVE latest'[s] >= iteration' - 1
      BY <1>4 DEF GroupComplete
    <2>1. PICK w \in Writer : StageOf[w] = s
      BY <1>3
    <2>2. /\ Call(w, iteration) \in Calls /\ Call(w, iteration)[3] = iteration
          /\ Call(w, iteration)[2] = w
      BY <1>3, <2>1, Processes
    <2>3. pc[Call(w, iteration)] = "done"
      BY <1>5, <2>2
    <2>4. latest[s] >= iteration
      BY <2>1, <2>2, <2>3 DEF Inductive, NewestUploadKept
    <2>5. iteration' - 1 = iteration
      BY <1>1, <1>3
    <2> QED
      BY <1>1, <2>4, <2>5
  <1> QED
    BY <1>9, <1>10, <1>11, <1>12, <1>13, <1>14, <1>15, <1>16 DEF Inductive

\* A failure makes what its worker's processes captured outdated; only a recovery
\* that was not at work moves.
LEMMA FailKeeps ==
  ASSUME Inductive, NEW w \in Worker, Fail(w)
  PROVE  Inductive'
  <1>1. /\ failures < MaxFailures /\ failures' = failures + 1
        /\ failed' = [failed EXCEPT ![w] = TRUE]
        /\ stale' = stale \cup {t \in Task : t[2] = w /\ Uses(t, pc[t]) # {}}
        /\ pc' = IF failed[w] THEN pc ELSE [pc EXCEPT ![Recovery(w)] = "restart"]
        /\ \E flushed \in BOOLEAN :
              staged' = IF flushed THEN {t \in staged : t[2] # w} ELSE staged
        /\ UNCHANGED <<setting, iteration, queue, latest, wanted, active>>
    BY DEF Fail
  <1>2. TypeOK /\ QueuesOfTasks /\ DownIsRecovered
    BY DEF Inductive
  <1>3. /\ Stage' = Stage /\ StageOf' = StageOf /\ Writer' = Writer /\ Calls' = Calls
        /\ Task' = Task /\ mode' = mode
    BY <1>1, SameSetting
  <1>4. /\ DOMAIN pc = Task /\ failed \in [Worker -> BOOLEAN] /\ stale \subseteq Task
        /\ staged \subseteq Calls /\ setting \in Settings
    BY <1>2 DEF TypeOK
  <1>5. Recovery(w) \in Task /\ Recovery(w)[1] = "recovery" /\ Recovery(w)[2] = w
        /\ Recovery(w) \notin Calls
    BY Processes
  <1>6. /\ DOMAIN pc' = Task
        /\ \A u \in Task : u # Recovery(w) => pc'[u] = pc[u]
        /\ \/ failed[w] /\ pc'[Recovery(w)] = pc[Recovery(w)]
           \/ ~failed[w] /\ pc'[Recovery(w)] = "restart" /\ pc[Recovery(w)] = "idle"
    BY <1>1, <1>2, <1>4, <1>5 DEF DownIsRecovered
  <1>7. ASSUME NEW u \in Task
        PROVE  pc'[u] \in Places(u) /\ Uses(u, pc'[u]) = Uses(u, pc[u])
    <2>1. CASE pc'[u] = pc[u]
      BY <1>2, <2>1 DEF TypeOK
    <2>2. CASE pc'[u] # pc[u]
      <3>1. u = Recovery(w) /\ pc'[u] = "restart" /\ pc[u] = "idle"
        BY <1>6, <2>2
      <3>2. "restart" \in Places(u)
        BY <1>5, <3>1 DEF Places
      <3> QED
        BY <3>1, <3>2, NothingUsed
    <2> QED
      BY <2>1, <2>2
  <1>8. staged' \subseteq staged /\ \A u \in staged : u[2] # w => u \in staged'
    BY <1>1
  <1>9. TypeOK' /\ QueuesOfTasks'
    <2>1. failures' \in 0 .. MaxFailures
      BY <1>1, <1>2, <1>4, SettingFacts DEF TypeOK
    <2>2. failed' \in [Worker -> BOOLEAN]
      BY <1>1, <1>4
    <2>3. stale' \subseteq Task
      BY <1>1, <1>4
    <2>4. staged' \subseteq Calls
      BY <1>4, <1>8
    <2> QED
      BY <1>1, <1>2, <1>3, <1>6, <1>7, <2>1, <2>2, <2>3, <2>4, QueuesStay DEF TypeOK
  <1>10. \A u \in Calls : u \in Task /\ pc'[u] = pc[u]
    BY <1>5, <1>6, Processes
  <1>11. \A v \in Worker : Work(v) \in Task /\ pc'[Work(v)] = pc[Work(v)]
    BY <1>5, <1>6, Processes
  <1>12. \A v \in Worker : v # w => /\ Recovery(v) \in Task
                                    /\ pc'[Recovery(v)] = pc[Recovery(v)]
                                    /\ failed'[v] = failed[v]
    <2>1. \A v \in Worker : Recovery(v) \in Task /\ (v # w => Recovery(v) # Recovery(w))
      BY Processes DEF Recovery
    <2> QED
      BY <1>1, <1>4, <1>6, <2>1
  <1>13. DownIsRecovered'
    <2>1. failed'[w] /\ pc'[Recovery(w)] # "idle"
      BY <1>1, <1>2, <1>4, <1>6 DEF DownIsRecovered
    <2>2. ASSUME NEW v \in Worker PROVE failed'[v] <=> pc'[Recovery(v)] # "idle"
      BY <1>2, <1>12, <2>1 DEF DownIsRecovered
    <2> QED
      BY <2>2 DEF DownIsRecovered
  <1>14. StagedUntilStale'
    <2>1. \A u \in staged' : pc'[u] \in {"slot", "cpu", "upload"}
      BY <1>4, <1>8, <1>10 DEF Inductive, StagedUntilStale
    <2>2. ASSUME NEW u \in Calls, pc'[u] \in {"slot", "cpu", "upload"}, u \notin stale'
          PROVE  u \in staged' /\ ~failed'[u[2]]
      <3>1. pc[u] \in {"slot", "cpu", "upload"} /\ u[1] = "checkpoint" /\ u \in Task
            /\ u[2] \in Worker
        BY <1>4, <1>10, <2>2, Processes, SettingFacts
      <3>2. Uses(u, pc[u]) # {}
        BY <3>1 DEF Uses, CallUses
      <3>3. u[2] # w /\ u \notin stale
        BY <1>1, <2>2, <3>1, <3>2
      <3>4. u \in staged /\ ~failed[u[2]]
        BY <3>1, <3>3 DEF Inductive, StagedUntilStale
      <3> QED
        BY <1>8, <1>12, <3>1, <3>3, <3>4
    <2> QED
      BY <1>3, <2>1, <2>2 DEF StagedUntilStale
  <1>15. ChosenIsNewest'
    <2>1. Writer \subseteq Worker
      BY <1>4, SettingFacts
    <2>2. ASSUME NEW v \in Writer, pc'[Recovery(v)] \notin {"idle", "restart"}
          PROVE  pc[Recovery(v)] \notin {"idle", "restart"}
      BY <1>6, <1>12, <2>1, <2>2
    <2> QED
      BY <1>1, <1>3, <2>2 DEF Inductive, ChosenIsNewest
  <1>16. LaunchedInOrder'
    BY <1>1, <1>3, <1>10, <1>11 DEF Inductive, LaunchedInOrder
  <1>17. OneAtATime'
    BY <1>1, <1>3, <1>10 DEF Inductive, OneAtATime
  <1>18. NewestUploadKept'
    BY <1>1, <1>3, <1>10 DEF Inductive, NewestUploadKept
  <1>19. GroupComplete'
    BY <1>1, <1>3 DEF Inductive, GroupComplete
  <1> QED
    BY <1>9, <1>13, <1>14, <1>15, <1>16, <1>17, <1>18, <1>19 DEF Inductive

\* Nothing is requested, staged or stored at the start.
LEMMA InitInductive == Init => Inductive
  <1> SUFFICES ASSUME Init PROVE Inductive
    OBVIOUS
  <1>1. /\ setting \in Settings /\ iteration = 1
        /\ pc = [t \in Task |-> IF t[1] = "work" THEN "new" ELSE "idle"]
        /\ queue = [res \in Resource |-> <<>>]
        /\ failed = [w \in Worker |-> FALSE] /\ stale = {} /\ failures = 0
        /\ latest = [s \in Stage |-> 0] /\ wanted = [w \in Worker |-> 0]
        /\ active = {} /\ staged = {}
    BY DEF Init
  <1>2. LastIteration \in Nat \ {0} /\ MaxFailures \in Nat
    BY <1>1, SettingFacts
  <1>3. \A u \in Calls : u \in Task /\ pc[u] = "idle"
    BY <1>1, Processes
  <1>4. \A w \in Worker : pc[Recovery(w)] = "idle"
    BY <1>1, Processes
  <1>5. ASSUME NEW u \in Task PROVE pc[u] \in Places(u) /\ Uses(u, pc[u]) = {}
    <2>1. pc[u] = IF u[1] = "work" THEN "new" ELSE "idle"
      BY <1>1
    <2>2. pc[u] \in Places(u)
      BY <2>1, Kinds DEF Places
    <2> QED
      BY <2>1, <2>2, NothingUsed
  <1>6. ASSUME NEW res \in Resource
        PROVE  /\ IsInjective(queue[res])
               /\ ToSet(queue[res]) = {t \in Task : res \in Uses(t, pc[t])}
    <2>1. queue[res] = <<>>
      BY <1>1
    <2>2. {t \in Task : res \in Uses(t, pc[t])} = {}
      BY <1>5
    <2>3. ToSet(queue[res]) = {} /\ IsInjective(queue[res])
      BY <2>1 DEF ToSet, IsInjective
    <2> QED
      BY <2>2, <2>3
  <1>7. TypeOK
    <2>1. /\ DOMAIN pc = Task /\ failed \in [Worker -> BOOLEAN]
          /\ latest \in [Stage -> 0 .. LastIteration]
          /\ wanted \in [Worker -> 0 .. LastIteration]
          /\ iteration \in Iteration /\ failures \in 0 .. MaxFailures
      BY <1>1, <1>2 DEF Iteration
    <2> QED
      BY <1>1, <1>5, <1>6, <2>1 DEF TypeOK
  <1>8. QueuesOfTasks
    BY <1>1 DEF QueuesOfTasks
  <1>9. DownIsRecovered
    BY <1>1, <1>4 DEF DownIsRecovered
  <1>10. StagedUntilStale /\ OneAtATime /\ NewestUploadKept
    BY <1>1, <1>3 DEF StagedUntilStale, OneAtATime, NewestUploadKept
  <1>11. ChosenIsNewest
    BY <1>1, <1>4, SettingFacts DEF ChosenIsNewest
  <1>12. LaunchedInOrder
    BY <1>1, <1>3, Processes DEF LaunchedInOrder, Iteration
  <1>13. GroupComplete
    BY <1>1 DEF GroupComplete
  <1> QED
    BY <1>7, <1>8, <1>9, <1>10, <1>11, <1>12, <1>13 DEF Inductive

\* Every step keeps the invariant.
LEMMA NextKeeps == Inductive /\ [Next]_vars => Inductive'
  <1> SUFFICES ASSUME Inductive, [Next]_vars PROVE Inductive'
    OBVIOUS
  <1>1. CASE UNCHANGED vars
    <2>1. UNCHANGED <<setting, iteration, pc, queue, failed, stale, failures, latest, wanted,
                      active, staged>>
      BY <1>1 DEF vars
    <2>2. /\ mode' = mode /\ Stage' = Stage /\ StageOf' = StageOf /\ Writer' = Writer
          /\ Calls' = Calls /\ Task' = Task
      BY <2>1, SameSetting
    <2>3. TypeOK' /\ QueuesOfTasks'
      BY <2>1, <2>2 DEF Inductive, TypeOK, QueuesOfTasks
    <2>4. /\ DownIsRecovered' /\ StagedUntilStale' /\ ChosenIsNewest' /\ LaunchedInOrder'
          /\ OneAtATime' /\ NewestUploadKept' /\ GroupComplete'
      BY <2>1, <2>2 DEF Inductive, DownIsRecovered, StagedUntilStale, ChosenIsNewest,
                        LaunchedInOrder, OneAtATime, NewestUploadKept, GroupComplete
    <2> QED
      BY <2>3, <2>4 DEF Inductive
  <1>2. CASE LaunchCheckpoints
    BY <1>2, LaunchKeeps
  <1>3. CASE NextIteration
    BY <1>3, NextIterationKeeps
  <1>4. CASE \E t \in Task : TaskStep(t)
    BY <1>4, TaskKeeps
  <1>5. CASE \E w \in Worker : Fail(w)
    BY <1>5, FailKeeps
  <1> QED
    BY <1>1, <1>2, <1>3, <1>4, <1>5 DEF Next, AllDone

\* A step that is not one of a process registers nothing and recovers no worker.
LEMMA OtherSteps ==
  ASSUME Inductive, [Next]_vars, ~\E t \in Task : TaskStep(t)
  PROVE  latest' = latest /\ \A w \in Worker : failed[w] => failed'[w]
  <1>1. failed \in [Worker -> BOOLEAN]
    BY DEF Inductive, TypeOK
  <1>2. CASE UNCHANGED vars \/ AllDone
    BY <1>2 DEF AllDone, vars
  <1>3. CASE LaunchCheckpoints \/ NextIteration
    BY <1>3 DEF LaunchCheckpoints, NextIteration, storeVars
  <1>4. CASE \E w \in Worker : Fail(w)
    BY <1>1, <1>4 DEF Fail
  <1> QED
    BY <1>2, <1>3, <1>4 DEF Next

\* What a failure loses is reported: a shard in DRAM is that of the call its
\* writer counts.
LEMMA Reported == Inductive => LossReported
  BY DEF Inductive, OneAtATime, StagedUntilStale, TypeOK, LossReported

-----------------------------------------------------------------------------
(* The theorems. *)

\* The inductive invariant holds, for any workers, writers, modes, slots of the
\* store, iterations and failures.
THEOREM Invariance == Spec => []Inductive
  BY InitInductive, NextKeeps, PTL DEF Spec

\* The queues of the store, the GPUs and the CPUs are those of the requests that
\* are out, the store has every checkpoint whose call returned, a synchronous
\* job's group before it goes on, and what DRAM loses is reported.
THEOREM StoreCorrect == Spec => []StoreExact
  <1>1. Inductive => StoreExact
    BY Reported DEF Inductive, StoreExact
  <1> QED
    BY <1>1, Invariance, PTL

\* An upload registers what its capture staged and no failure flushed: a failure,
\* even one that is over, makes the generation it captured an old one.
THEOREM CapturedCorrect == Spec => UploadsWhatWasCaptured
  <1> DEFINE Step == \A s \in Stage : latest'[s] # latest[s]
                        => \E t \in staged : t[3] = latest'[s] /\ StageOf[t[2]] = s
  <1>1. Inductive /\ [Next]_vars => Step
    <2> SUFFICES ASSUME Inductive, [Next]_vars, NEW s \in Stage, latest'[s] # latest[s]
                 PROVE  \E t \in staged : t[3] = latest'[s] /\ StageOf[t[2]] = s
      OBVIOUS
    <2>1. PICK t \in Task : TaskStep(t)
      BY OtherSteps
    <2>2. /\ t \in Calls /\ pc[t] = "upload" /\ ~Aborted(t)
          /\ s = StageOf[t[2]] /\ latest'[s] = t[3]
      BY <2>1, StoreGrows
    <2>3. t \in staged
      BY <2>2 DEF Inductive, StagedUntilStale, Aborted
    <2> QED
      BY <2>2, <2>3
  <1>2. Inductive /\ [Next]_vars => [Step]_vars
    BY <1>1
  <1> QED
    BY <1>2, Invariance, PTL DEF Spec, UploadsWhatWasCaptured

\* A writer comes back with its newest shard: while it is down it uploads none,
\* and no one else uploads its shard.
THEOREM RestoresNewestCorrect == Spec => WriterRestoresNewest
  <1> DEFINE Step == \A w \in Writer : failed[w] /\ ~failed'[w] => wanted[w] = latest[StageOf[w]]
  <1>1. Inductive /\ [Next]_vars => Step
    <2> SUFFICES ASSUME Inductive, [Next]_vars, NEW w \in Writer, failed[w], ~failed'[w]
                 PROVE  wanted[w] = latest[StageOf[w]]
      OBVIOUS
    <2>1. w \in Worker
      BY SettingFacts DEF Inductive, TypeOK
    <2>2. PICK t \in Task : TaskStep(t)
      BY <2>1, OtherSteps
    <2>3. pc[Recovery(w)] = "restore"
      BY <2>1, <2>2, TaskKeepsDown
    <2> QED
      BY <2>3 DEF Inductive, ChosenIsNewest
  <1>2. Inductive /\ [Next]_vars => [Step]_vars
    BY <1>1
  <1> QED
    BY <1>2, Invariance, PTL DEF Spec, WriterRestoresNewest
=============================================================================

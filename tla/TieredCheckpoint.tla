-------------------------- MODULE TieredCheckpoint --------------------------
(***************************************************************************)
(* checkpointing/tiered.py under jobs/runtime.py and jobs/failures.py: one *)
(* job whose ranks train, capture their shard into DRAM, copy it stage by  *)
(* stage to local SSD, partner DRAM and partner SSD, fail at any moment    *)
(* and recover from the newest copy they can reach.                        *)
(*                                                                         *)
(* Abstractions.  A chunked transfer is one step that ends by success or   *)
(* abort: the code tests validity after each chunk and again, without      *)
(* yielding, before it registers the copy, so only the last test matters.  *)
(* GPU, CPU and pair-slot queues are left to WorkerResources; here a grant *)
(* takes any time.  Restart delays are left to FailureController.  The     *)
(* rollback epoch is constant in this runtime and is left out.             *)
(***************************************************************************)
EXTENDS Integers

CONSTANTS
  Worker,          \* ranks of the job
  Partner,         \* partner_rank: w itself when the strategy is not paired
  Paired,          \* strategy.paired
  PersistToSsd,    \* strategy.persist_to_ssd
  Mode,            \* checkpoint_mode, with or without async backpressure
  CleanupTakesTime,\* async_checkpoint_cleanup_seconds > 0
  CheckpointEvery, \* checkpoint_every
  Iterations,      \* simulation.iterations
  MaxSignals       \* bound: failure signals each worker may receive

ASSUME TieredAssumption ==
  /\ Partner \in [Worker -> Worker]
  /\ Paired \in BOOLEAN /\ PersistToSsd \in BOOLEAN
  /\ \A w \in Worker : Partner[Partner[w]] = w /\ (Partner[w] = w <=> ~Paired)
  /\ Mode \in {"synchronous", "asynchronous", "backpressure"}
  /\ CleanupTakesTime \in BOOLEAN
  /\ CheckpointEvery \in Nat \ {0}
  /\ Iterations \in Nat \ {0}
  /\ MaxSignals \in [Worker -> Nat]

VARIABLES
  trainer,    \* JobRuntime.run: "train", "save", "saved", "drain", "finished"
  iteration,  \* worker.current_iteration, the same for every rank
  done,       \* ranks whose work of this iteration is finished
  launched,   \* iteration of the last checkpoint launched
  staged,     \* staged[w]: last iteration captured (its stage event fired)
  stage,      \* stage[w]: where the checkpoint() holding w's lock is
  saving,     \* saving[w]: its iteration (the last one, when none is running)
  watched,    \* watched[w]: the generation of w it captured
  watchedPeer,\* watchedPeer[w]: the generation of w's partner it captured
  copies,     \* copies[w][place]: iteration of w's copy there
  failed,     \* worker.failed
  restarting, \* worker.failure_started is not None
  generation, \* worker.failure_generation
  recovery,   \* recovery[w]: where the _recover process of w is
  source,     \* source[w]: the iteration its recover() restores
  called,     \* called[w]: the generation recover() was called under
  acked,      \* history: last iteration whose persistence completed
  surviving   \* history: places not wiped since that completion

trainVars == <<trainer, iteration, done, launched>>
ckptVars == <<staged, stage, saving, watched, watchedPeer>>
recoveryVars == <<recovery, source, called>>
failVars == <<failed, restarting, generation, recoveryVars>>
history == <<acked, surviving>>
vars == <<trainVars, ckptVars, copies, failVars, history>>

-----------------------------------------------------------------------------
(***************************************************************************)
(* Places: where the copies of one owner live, relative to the owner.      *)
(***************************************************************************)
LocalPlace == {"localDram", "localSsd"}
PeerPlace == {"peerDram", "peerSsd"}
Place == LocalPlace \cup PeerPlace
DramPlace == {"localDram", "peerDram"}

NoCopy == -1

\* The places the configured strategy fills.
Configured ==
  {"localDram"} \cup (IF PersistToSsd THEN {"localSsd"} ELSE {})
    \cup (IF Paired THEN {"peerDram"} ELSE {})
    \cup (IF Paired /\ PersistToSsd THEN {"peerSsd"} ELSE {})

\* location_rank of a copy of owner o.
Holder(o, p) == IF p \in LocalPlace THEN o ELSE Partner[o]

\* tier_preference in _latest_available_copy: breaks ties only.
Preference(p) ==
  CASE p = "localDram" -> 4 [] p = "peerDram" -> 3
    [] p = "localSsd" -> 2 [] p = "peerSsd" -> 1

FailureType == {"process", "node", "spot"}

\* The places on a failed rank that handle_failure deletes.
Wiped(t) == CASE t = "process" -> {} [] t = "node" -> DramPlace [] t = "spot" -> Place

\* _put_copy: not ahead of the owner, and never over a newer copy.
PutCopy(w, p, i) ==
  copies' = IF i <= iteration /\ copies[w][p] <= i
              THEN [copies EXCEPT ![w][p] = i] ELSE copies

\* Mutant of Candidates: the copies that the partner holds are overlooked.
OwnCandidates(w) ==
  {p \in LocalPlace : copies[w][p] # NoCopy /\ copies[w][p] <= iteration}

\* _latest_available_copy: the candidates of w.
Candidates(w) ==
  {p \in Place : /\ copies[w][p] # NoCopy
                 /\ copies[w][p] <= iteration
                 /\ p \in PeerPlace => ~failed[Partner[w]]}

\* p is the candidate with the newest iteration, then the fastest tier.
IsLatest(w, p) ==
  /\ p \in Candidates(w)
  /\ \A q \in Candidates(w) :
       \/ copies[w][q] < copies[w][p]
       \/ copies[w][q] = copies[w][p] /\ Preference(q) <= Preference(p)

-----------------------------------------------------------------------------
(***************************************************************************)
(* Stages of a checkpoint: a stage has the name of the place it fills.     *)
(***************************************************************************)
AfterPersist == IF CleanupTakesTime /\ Mode # "synchronous" THEN "cleanup" ELSE "idle"

\* Mutant of NextStage: complete once the partner has it in DRAM.
CompleteBeforePeerSsd(p) ==
  CASE p = "localDram" -> IF PersistToSsd THEN "localSsd"
                          ELSE IF Paired THEN "peerDram" ELSE AfterPersist
    [] p = "localSsd" -> IF Paired THEN "peerDram" ELSE AfterPersist
    [] p \in PeerPlace -> AfterPersist

NextStage(p) ==
  CASE p = "localDram" -> IF PersistToSsd THEN "localSsd"
                          ELSE IF Paired THEN "peerDram" ELSE AfterPersist
    [] p = "localSsd" -> IF Paired THEN "peerDram" ELSE AfterPersist
    [] p = "peerDram" -> IF PersistToSsd THEN "peerSsd" ELSE AfterPersist
    [] p = "peerSsd" -> AfterPersist

Stage == {"idle", "healthy", "acquire", "cleanup"} \cup Place

RecoveryStep == {"none", "restart", "fetch", "restore", "restored", "aborted"}

Drained == \A w \in Worker : stage[w] = "idle" /\ saving[w] = launched

TypeOK ==
  /\ trainer \in {"train", "save", "saved", "drain", "finished"}
  /\ iteration \in 0 .. Iterations
  /\ done \subseteq Worker
  /\ launched \in 0 .. Iterations
  /\ staged \in [Worker -> 0 .. Iterations]
  /\ stage \in [Worker -> Stage]
  /\ saving \in [Worker -> 0 .. Iterations]
  /\ watched \in [Worker -> Nat]
  /\ watchedPeer \in [Worker -> Nat]
  /\ copies \in [Worker -> [Place -> {NoCopy} \cup 0 .. Iterations]]
  /\ failed \in [Worker -> BOOLEAN]
  /\ restarting \in [Worker -> BOOLEAN]
  /\ generation \in [Worker -> Nat]
  /\ recovery \in [Worker -> RecoveryStep]
  /\ source \in [Worker -> 0 .. Iterations]
  /\ called \in [Worker -> Nat]
  /\ acked \in [Worker -> 0 .. Iterations]
  /\ surviving \in [Worker -> SUBSET Place]

Init ==
  /\ trainer = "train"
  /\ iteration = 1
  /\ done = {}
  /\ launched = 0
  /\ staged = [w \in Worker |-> 0]
  /\ stage = [w \in Worker |-> "idle"]
  /\ saving = [w \in Worker |-> 0]
  /\ watched = [w \in Worker |-> 0]
  /\ watchedPeer = [w \in Worker |-> 0]
  /\ copies = [w \in Worker |-> [p \in Place |-> NoCopy]]
  /\ failed = [w \in Worker |-> FALSE]
  /\ restarting = [w \in Worker |-> FALSE]
  /\ generation = [w \in Worker |-> 0]
  /\ recovery = [w \in Worker |-> "none"]
  /\ source = [w \in Worker |-> 0]
  /\ called = [w \in Worker |-> 0]
  /\ acked = [w \in Worker |-> 0]
  /\ surviving = [w \in Worker |-> {}]

-----------------------------------------------------------------------------
(***************************************************************************)
(* The training loop.                                                      *)
(***************************************************************************)

\* The microbatches, all-reduce and optimizer of rank w complete: they are
\* retried until one attempt runs undisturbed, so w is healthy at the end.
FinishWork(w) ==
  /\ trainer = "train" /\ w \notin done /\ ~failed[w]
  /\ done' = done \cup {w}
  /\ UNCHANGED <<trainer, iteration, launched, ckptVars, copies, failVars, history>>

\* The next turn of the for loop, or the wait for the last checkpoints.
NextIteration ==
  IF iteration < Iterations
    THEN trainer' = "train" /\ iteration' = iteration + 1 /\ done' = {}
    ELSE trainer' = "drain" /\ UNCHANGED <<iteration, done>>

EndIteration ==
  /\ trainer = "train" /\ done = Worker
  /\ IF iteration % CheckpointEvery = 0
       THEN trainer' = "save" /\ UNCHANGED <<iteration, done>>
       ELSE NextIteration
  /\ UNCHANGED <<launched, ckptVars, copies, failVars, history>>

\* Mutant of Launch: backpressure does not drain the earlier checkpoints.
LaunchAtOnce ==
  /\ trainer = "save"
  /\ trainer' = "saved"
  /\ launched' = iteration
  /\ UNCHANGED <<iteration, done, ckptVars, copies, failVars, history>>

\* One checkpoint() per rank; backpressure drains the earlier ones first.
Launch ==
  /\ trainer = "save"
  /\ Mode = "backpressure" => Drained
  /\ trainer' = "saved"
  /\ launched' = iteration
  /\ UNCHANGED <<iteration, done, ckptVars, copies, failVars, history>>

\* Training goes on: at once, after every capture, or after persistence.
Resume ==
  /\ trainer = "saved"
  /\ Mode = "backpressure" => \A w \in Worker : staged[w] >= iteration
  /\ Mode = "synchronous" => Drained
  /\ NextIteration
  /\ UNCHANGED <<launched, ckptVars, copies, failVars, history>>

Finish ==
  /\ trainer = "drain" /\ Drained
  /\ trainer' = "finished"
  /\ UNCHANGED <<iteration, done, launched, ckptVars, copies, failVars, history>>

-----------------------------------------------------------------------------
(***************************************************************************)
(* checkpoint() and _persist_checkpoint().                                 *)
(***************************************************************************)

\* The rank's lock is FIFO and checkpoints are launched in order, so its next
\* holder is the checkpoint after the last one.
AcquireLock(w) ==
  /\ stage[w] = "idle"
  /\ saving[w] + CheckpointEvery <= launched
  /\ stage' = [stage EXCEPT ![w] = "healthy"]
  /\ saving' = [saving EXCEPT ![w] = @ + CheckpointEvery]
  /\ UNCHANGED <<trainVars, staged, watched, watchedPeer, copies, failVars, history>>

\* _wait_until_healthy is over and the generation is taken.
BeginCapture(w) ==
  /\ stage[w] = "healthy" /\ ~failed[w]
  /\ stage' = [stage EXCEPT ![w] = "acquire"]
  /\ watched' = [watched EXCEPT ![w] = generation[w]]
  /\ UNCHANGED <<trainVars, staged, saving, watchedPeer, copies, failVars, history>>

\* Mutant of Valid: the ranks are healthy again, whatever happened between.
HealthyNow(w, p) == ~failed[w] /\ (p \in PeerPlace => ~failed[Partner[w]])

\* _checkpoint_generation_valid for the ranks a stage of w watches.
Valid(w, p) ==
  /\ ~failed[w] /\ generation[w] = watched[w]
  /\ p \in PeerPlace => /\ ~failed[Partner[w]]
                        /\ generation[Partner[w]] = watchedPeer[w]

\* A step of w's checkpoint that moves it to another stage and no more.
MoveTo(w, s) ==
  /\ stage' = [stage EXCEPT ![w] = s]
  /\ UNCHANGED <<trainVars, staged, saving, watched, watchedPeer, copies, failVars, history>>

\* GPU and CPU are granted; a failure while waiting starts the loop again.
Granted(w) ==
  /\ stage[w] = "acquire"
  /\ MoveTo(w, IF Valid(w, "localDram") THEN "localDram" ELSE "healthy")

\* The stage that fills p is over and undisturbed: the copy is registered,
\* and the next stage begins.  The partner's generation is taken when its
\* first stage begins.
StageCompletes(w, p) ==
  /\ stage[w] = p /\ Valid(w, p)
  /\ PutCopy(w, p, saving[w])
  /\ staged' = IF p = "localDram" THEN [staged EXCEPT ![w] = saving[w]] ELSE staged
  /\ stage' = [stage EXCEPT ![w] = NextStage(p)]
  /\ watchedPeer' = IF NextStage(p) = "peerDram"
                      THEN [watchedPeer EXCEPT ![w] = generation[Partner[w]]]
                      ELSE watchedPeer
  /\ IF NextStage(p) = AfterPersist
       THEN /\ acked' = [acked EXCEPT ![w] = saving[w]]
            /\ surviving' = [surviving EXCEPT ![w] = Configured]
       ELSE UNCHANGED history
  /\ UNCHANGED <<trainVars, saving, watched, failVars>>

\* A watched rank failed during the stage: everything starts over with a new
\* capture.
StageAborts(w, p) ==
  /\ stage[w] = p /\ ~Valid(w, p)
  /\ MoveTo(w, "healthy")

\* The cleanup delay of asynchronous mode: interrupted, it repeats the whole
\* checkpoint.
CleanupEnds(w) ==
  /\ stage[w] = "cleanup"
  /\ MoveTo(w, IF Valid(w, "localDram") THEN "idle" ELSE "healthy")

-----------------------------------------------------------------------------
(***************************************************************************)
(* Failures and recovery.                                                  *)
(***************************************************************************)

\* _apply_failure and handle_failure.
Fail(w, t) ==
  LET lost(o) == {p \in Wiped(t) : Holder(o, p) = w} IN
  /\ trainer # "finished"
  /\ generation[w] < MaxSignals[w]
  /\ generation' = [generation EXCEPT ![w] = @ + 1]
  /\ failed' = [failed EXCEPT ![w] = TRUE]
  /\ restarting' = [restarting EXCEPT ![w] = TRUE]
  /\ recovery' = IF failed[w] THEN recovery ELSE [recovery EXCEPT ![w] = "restart"]
  /\ copies' = [o \in Worker |-> [p \in Place |->
                  IF p \in lost(o) THEN NoCopy ELSE copies[o][p]]]
  /\ surviving' = [o \in Worker |-> surviving[o] \ lost(o)]
  /\ UNCHANGED <<trainVars, ckptVars, source, called, acked>>

\* The restart delay is over: recover() takes the generation and chooses its
\* source, or the job's initial state.  A copy in local DRAM needs no fetch.
CallRecover(w) ==
  /\ recovery[w] = "restart"
  /\ restarting' = [restarting EXCEPT ![w] = FALSE]
  /\ called' = [called EXCEPT ![w] = generation[w]]
  /\ \/ /\ Candidates(w) = {}
        /\ recovery' = [recovery EXCEPT ![w] = "fetch"]
        /\ source' = [source EXCEPT ![w] = 0]
     \/ \E p \in Place :
          /\ IsLatest(w, p)
          /\ recovery' = [recovery EXCEPT ![w] =
                            IF p = "localDram" THEN "restore" ELSE "fetch"]
          /\ source' = [source EXCEPT ![w] = copies[w][p]]
  /\ UNCHANGED <<trainVars, ckptVars, copies, failed, generation, history>>

\* Mutant of FetchEnds: the fetched copy is not registered in local DRAM.
FetchUnregistered(w) ==
  /\ recovery[w] = "fetch"
  /\ recovery' = [recovery EXCEPT ![w] =
                    IF generation[w] = called[w] THEN "restore" ELSE "aborted"]
  /\ UNCHANGED <<trainVars, ckptVars, copies, failed, restarting, generation, source, called,
                 history>>

\* The copy is in DRAM and is registered there.  Only the rank's own
\* generation is watched, not the rank it was fetched from.
FetchEnds(w) ==
  /\ recovery[w] = "fetch"
  /\ IF generation[w] = called[w]
       THEN /\ recovery' = [recovery EXCEPT ![w] = "restore"]
            /\ PutCopy(w, "localDram", source[w])
       ELSE /\ recovery' = [recovery EXCEPT ![w] = "aborted"]
            /\ UNCHANGED copies
  /\ UNCHANGED <<trainVars, ckptVars, failed, restarting, generation, source, called, history>>

\* DRAM to GPU, and recover() returns.
RestoreEnds(w) ==
  /\ recovery[w] = "restore"
  /\ recovery' = [recovery EXCEPT ![w] =
                    IF generation[w] = called[w] THEN "restored" ELSE "aborted"]
  /\ UNCHANGED <<trainVars, ckptVars, copies, failed, restarting, generation, source,
                 called, history>>

\* Mutant of RecoveryAccepted: the value recover() returned is enough.
AcceptedUnchecked(w) == recovery[w] = "restored"

\* failures.py:186-190: recover() succeeded and no signal came since.
RecoveryAccepted(w) ==
  /\ recovery[w] = "restored"
  /\ generation[w] = called[w]
  /\ ~restarting[w]

BackInService(w) ==
  /\ RecoveryAccepted(w)
  /\ failed' = [failed EXCEPT ![w] = FALSE]
  /\ recovery' = [recovery EXCEPT ![w] = "none"]
  /\ UNCHANGED <<trainVars, ckptVars, copies, restarting, generation, source, called, history>>

RecoverAgain(w) ==
  /\ recovery[w] \in {"restored", "aborted"} /\ ~RecoveryAccepted(w)
  /\ recovery' = [recovery EXCEPT ![w] = "restart"]
  /\ UNCHANGED <<trainVars, ckptVars, copies, failed, restarting, generation, source,
                 called, history>>

Next ==
  \/ EndIteration \/ Launch \/ Resume \/ Finish
  \/ \E w \in Worker :
       \/ FinishWork(w)
       \/ AcquireLock(w) \/ BeginCapture(w) \/ Granted(w) \/ CleanupEnds(w)
       \/ \E p \in Place : StageCompletes(w, p) \/ StageAborts(w, p)
       \/ \E t \in FailureType : Fail(w, t)
       \/ CallRecover(w) \/ FetchEnds(w) \/ RestoreEnds(w)
       \/ BackInService(w) \/ RecoverAgain(w)

Spec == Init /\ [][Next]_vars

-----------------------------------------------------------------------------
(***************************************************************************)
(* Properties.                                                             *)
(***************************************************************************)

\* The places a checkpoint has filled when it is in stage pc.
Filled(pc) ==
  CASE pc = "localSsd" -> {"localDram"}
    [] pc = "peerDram" -> Configured \ PeerPlace
    [] pc = "peerSsd" -> Configured \ {"peerSsd"}
    [] OTHER -> {}

\* While nothing a checkpoint watches has failed, every stage it has been
\* through has left a copy at least as new as the checkpoint: a wipe of any
\* of those places is always noticed before the next one is registered.
\* (tiered.py:380-505: generations are taken at two different moments.)
StagesBacked ==
  \A w \in Worker : \A p \in Filled(stage[w]) :
    Valid(w, stage[w]) => copies[w][p] >= saving[w]

\* When persistence completes, the checkpoint is in every configured place,
\* whatever failed, restarted and recovered on both ranks while it ran.
CompleteEverywhere ==
  [][\A w \in Worker : acked'[w] # acked[w] =>
       \A p \in Configured : copies'[w][p] >= acked'[w]]_vars

\* A completed checkpoint is lost only with the place that holds it: no later
\* checkpoint, retry or recovery replaces it by an older one.
DurableUntilWiped ==
  \A w \in Worker : \A p \in surviving[w] : copies[w][p] >= acked[w]

\* Recovery resumes at least at the last completed checkpoint if any place
\* that still holds it can be reached when the source is chosen.
ResumesFromDurable ==
  [][\A w \in Worker :
       (/\ recovery[w] = "restart" /\ recovery'[w] \in {"fetch", "restore"}
        /\ \E p \in surviving[w] : p \in PeerPlace => ~failed[Partner[w]])
       => source'[w] >= acked[w]]_vars

\* How far each mode lets training run ahead of its checkpoints: synchronous
\* training always has the last one complete everywhere, and backpressure has
\* it captured, with no more than that one incomplete, though a failure may
\* send a checkpoint back to its beginning at any moment (runtime.py:928-1000).
TrainingWaits ==
  \A w \in Worker :
    /\ Mode = "synchronous" /\ trainer = "train" => acked[w] = launched
    /\ Mode = "backpressure" =>
         /\ trainer = "train" => staged[w] = launched
         /\ launched - acked[w] <= CheckpointEvery

\* A rank in service has its last completed checkpoint in DRAM unless all its
\* own copies of it were wiped; and after any outage it has some copy there,
\* so that a process failure never sends it back to the initial state.
InServiceHoldsCopy ==
  \A w \in Worker :
    ~failed[w] =>
      /\ surviving[w] \cap LocalPlace # {} => copies[w]["localDram"] >= acked[w]
      /\ generation[w] > 0 => copies[w]["localDram"] # NoCopy

\* The phases of an outage, and the refinement: the recovery that reads and
\* writes copies, with fetches that a second failure interrupts, still obeys
\* the abstract outage.
PhaseOf(w) ==
  CASE ~failed[w] -> "up"
    [] failed[w] /\ restarting[w] -> "restart"
    [] failed[w] /\ ~restarting[w] -> "restore"

Abstract == INSTANCE Outage WITH phase <- [w \in Worker |-> PhaseOf(w)]

ImplementsOutage == Abstract!Safe

-----------------------------------------------------------------------------
(***************************************************************************)
(* The inductive invariant behind the safety properties.                   *)
(***************************************************************************)

\* No rank signalled since w's checkpoint captured what a stage p watches.
\* Unlike Valid this cannot become true again when a rank is back in service.
Undisturbed(w, p) ==
  /\ generation[w] = watched[w]
  /\ p \in PeerPlace => generation[Partner[w]] = watchedPeer[w]

\* Generations only grow, so one that was captured is never ahead.
Captured ==
  \A w \in Worker :
    /\ watched[w] <= generation[w]
    /\ watchedPeer[w] <= generation[Partner[w]]
    /\ called[w] <= generation[w]

\* A checkpoint is at most as new as the iteration that launched it, and a
\* copy as the iteration the job is in.
Ordered ==
  /\ launched <= iteration
  /\ \A w \in Worker :
       /\ acked[w] <= saving[w] /\ saving[w] <= launched
       /\ source[w] <= iteration
       /\ \A p \in Place : copies[w][p] <= iteration

\* A recovery process exists exactly while its rank is failed, and a rank
\* whose recover() a signal overtook is waiting out a restart delay.
OneRecovery ==
  \A w \in Worker :
    /\ failed[w] <=> recovery[w] # "none"
    /\ restarting[w] => failed[w]
    /\ surviving[w] \subseteq Configured

\* StagesBacked, whether or not the watched ranks are in service by now.
StagesKept ==
  \A w \in Worker : \A p \in Filled(stage[w]) :
    Undisturbed(w, stage[w]) => copies[w][p] >= saving[w]

\* What a recovery that no signal overtook has: a source that is recent
\* enough, and from the end of its fetch a copy of it in local DRAM.
RecoveryKept ==
  \A w \in Worker : called[w] = generation[w] =>
    /\ (recovery[w] \in {"fetch", "restore", "restored"} /\ surviving[w] \cap LocalPlace # {})
         => source[w] >= acked[w]
    /\ recovery[w] \in {"restore", "restored"} => copies[w]["localDram"] >= source[w]

Inductive ==
  /\ TypeOK /\ Captured /\ Ordered /\ OneRecovery /\ StagesKept
  /\ DurableUntilWiped /\ RecoveryKept /\ InServiceHoldsCopy

\* Checkpoints are launched at the multiples of CheckpointEvery, none of which
\* training passes.
Cadence ==
  /\ launched % CheckpointEvery = 0
  /\ trainer \in {"train", "save"} => iteration <= launched + CheckpointEvery
  /\ trainer = "save" => iteration % CheckpointEvery = 0
  /\ trainer = "saved" => iteration = launched

\* How far the checkpoint of a rank is: an idle lock means that the last one
\* is complete, and only the newest can have been captured.
Progressed ==
  \A w \in Worker :
    /\ staged[w] <= saving[w]
    /\ stage[w] \in {"idle", "cleanup"} => acked[w] = saving[w]

\* TrainingWaits with what it needs to be inductive.
WaitsKept == Cadence /\ Progressed /\ TrainingWaits
=============================================================================

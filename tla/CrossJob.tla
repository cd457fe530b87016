------------------------------ MODULE CrossJob ------------------------------
(***************************************************************************)
(* CrossJobPeerStrategy (checkpointing/crossjob.py) with asynchronous      *)
(* persistence, driven by CohortJobRuntime (run_scenario.py): one rank, the*)
(* owner, stripes its checkpoints over donor nodes of other jobs.          *)
(*                                                                         *)
(* A checkpoint is captured into the owner's DRAM and queues for the rank's*)
(* flush lock.  Its wave reserves donors and moves one piece to each.      *)
(*  - placement "ssd": a piece lands on the donor's disk, and the donors   *)
(*    forward the pieces of a wave to the store L3 in the background;      *)
(*  - placement "dram": it lands in a reserved buffer of the donor's DRAM, *)
(*    is demoted to the donor's disk in the background, over the piece of  *)
(*    an earlier wave that the disk still holds (its shadow), and the wave *)
(*    drains to L3 when all its demotions are over;                        *)
(*  - backstop "parity", "parity_cutoff": an XOR piece is added and nothing*)
(*    drains; with the cutoff a wave ends when all pieces but one landed,  *)
(*    and the last one, the stragglers, goes on in the background.          *)
(* The owner fails at iteration boundaries and recovers from the newest of *)
(* its own copies, the donors' pieces and L3; donors fail at any time.     *)
(*                                                                         *)
(* Which donors refuse (own flush, slots full, not arrived) and which the  *)
(* matching prefers is left open.  A transfer that ends is one step with   *)
(* what its process then does.  A worker's failure generation is modelled  *)
(* by what its change does: the transfers that watch the worker abort.     *)
(* A piece carries a ghost, "born": the epoch in which its wave started.   *)
(***************************************************************************)
EXTENDS Integers, Sequences, FiniteSets, FiniteSetsExt

CONSTANTS
    Donor,         \* nodes of other jobs
    K,             \* kpeers: data pieces of a wave
    DramSlots,     \* dram_host_slots: buffers a donor has for pieces; one owner
                   \* never needs more than two of them
    MaxIteration,  \* bound: iterations trained
    MaxFailures,   \* bound: failures of the owner and of the donors
    Settings,      \* the triples <<placement, backstop, donors available>> checked
    None           \* no piece, no wave

ASSUME CrossJobAssumption ==
    /\ IsFiniteSet(Donor)
    /\ K \in Nat \ {0} /\ DramSlots \in Nat /\ MaxIteration \in Nat /\ MaxFailures \in Nat
    /\ Settings \subseteq {"ssd", "dram"} \X {"donor_drain", "parity", "parity_cutoff"} \X Nat

VARIABLES
    placement,   \* dram_by_job: a parameter
    backstop,    \* a parameter
    available,   \* donors whose job has arrived: a parameter
    iteration,   \* current_iteration of the owner; 0 is the initial state
    epoch,       \* its checkpoint_epoch
    owner,       \* "up", "down" (restart delay), or "fetching" (recover)
    restore,     \* what recover() fetches: [from, iteration, watched, aborted]
    local,       \* iteration of the owner's copy in each of its tiers, 0 for none
    captures,    \* checkpoints to be captured, <<iteration, epoch>> in order
    queue,       \* those that wait for the flush lock
    lastFlush,   \* _last_flush_started
    flush,       \* who holds the lock: "free", "slot", "local", "stripe" or "parity"
    wave,        \* <<iteration, epoch>> of the holder
    granted,     \* its donors, by piece
    aborted,     \* whether its transfer is
    stragglers,  \* transfers in the background: [donor, piece, watched, aborted]
    pieces,      \* peer_copies of the owner, by donor
    shadow,      \* dram_shadow, by donor
    dramHosted,  \* buffers of the donor that are reserved
    demotions,   \* running _demote_piece: <<donor, piece>>
    chains,      \* waves that drain when their demotions are over
    drains,      \* running _drain_wave_to_l3
    l3,          \* l3_pieces, by piece index
    failed,      \* donors that are down
    failures,    \* failures so far (bounds the model)
    beganAt      \* ghost: iteration at which each epoch resumed

parameters == <<placement, backstop, available>>
ownerVars == <<iteration, epoch, owner, restore, beganAt>>
flushVars == <<captures, queue, flush, wave, granted, aborted>>
held == <<pieces, shadow, dramHosted>>
background == <<demotions, chains, drains>>
vars == <<parameters, ownerVars, flushVars, local, lastFlush, stragglers, held,
          background, l3, failed, failures>>

Index == 0..K                       \* K is that of a parity piece
Iteration == 1..MaxIteration
Epoch == 0..MaxFailures

\* What the owner fetches, and what it has in the store.
Fetch == [from : {"parity", "stitch", "peer", "local"}, iteration : 0..MaxIteration,
          watched : SUBSET Donor, aborted : BOOLEAN]
Stored == [iteration : Iteration, born : Epoch, index : 0..(K - 1), total : 1..K, data : 1..K]

Piece == [iteration : Iteration, born : Epoch, index : Index, data : 1..K,
          total : 1..(K + 1), tier : {"ssd", "dram"}]

Wave == Iteration \X Epoch

\* The absence of a piece, of a wave or of a fetch is none of them.
ASSUME NoneAssumption ==
    /\ None \notin Piece /\ None \notin Stored /\ None \notin Wave /\ None \notin Fetch

-----------------------------------------------------------------------------
(* Buffers. *)

\* release_dram: never below zero.
Released(hosted, from) ==
    [d \in Donor |-> IF d \in from /\ hosted[d] > 0 THEN hosted[d] - 1 ELSE hosted[d]]

InDram(d) == pieces[d] # None /\ pieces[d].tier = "dram"

-----------------------------------------------------------------------------
(* discard_checkpoints_after(i). *)

After(p, i) == p # None /\ p.iteration > i

\* Mutant of PiecesKept: whatever lay under a discarded piece comes back.
PiecesUncovered(i) ==
    [d \in Donor |-> IF After(pieces[d], i) THEN shadow[d] ELSE pieces[d]]

PiecesKept(i) ==
    [d \in Donor |-> IF ~After(pieces[d], i) THEN pieces[d]
                     ELSE IF After(shadow[d], i) THEN None ELSE shadow[d]]

ShadowKept(i) ==
    [d \in Donor |-> IF After(pieces[d], i) \/ After(shadow[d], i) THEN None ELSE shadow[d]]

\* Mutant of Discard: the buffers of discarded pieces stay reserved.
DiscardOnly(i, hosted, copies) ==
    /\ pieces' = PiecesKept(i)
    /\ shadow' = ShadowKept(i)
    /\ dramHosted' = hosted
    /\ l3' = [x \in DOMAIN l3 |-> IF After(l3[x], i) THEN None ELSE l3[x]]
    /\ local' = [t \in DOMAIN copies |-> IF copies[t] > i THEN 0 ELSE copies[t]]
    /\ lastFlush' = Min({lastFlush, i})

\* Mutant of Discard: _last_flush_started keeps the abandoned iteration.
DiscardButLast(i, hosted, copies) ==
    /\ pieces' = PiecesKept(i)
    /\ shadow' = ShadowKept(i)
    /\ dramHosted' = Released(hosted, {d \in Donor : InDram(d) /\ After(pieces[d], i)})
    /\ l3' = [x \in DOMAIN l3 |-> IF After(l3[x], i) THEN None ELSE l3[x]]
    /\ local' = [t \in DOMAIN copies |-> IF copies[t] > i THEN 0 ELSE copies[t]]
    /\ lastFlush' = lastFlush

Discard(i, hosted, copies) ==
    /\ pieces' = PiecesKept(i)
    /\ shadow' = ShadowKept(i)
    /\ dramHosted' = Released(hosted, {d \in Donor : InDram(d) /\ After(pieces[d], i)})
    /\ l3' = [x \in DOMAIN l3 |-> IF After(l3[x], i) THEN None ELSE l3[x]]
    /\ local' = [t \in DOMAIN copies |-> IF copies[t] > i THEN 0 ELSE copies[t]]
    /\ lastFlush' = Min({lastFlush, i})

-----------------------------------------------------------------------------
(* Training, capture, and the flush lock. *)

\* CohortJobRuntime.run: an iteration ends and starts its checkpoint.  Iterations
\* without one change nothing that is modelled, so a failure at the end of such an
\* iteration is one at any moment after the last that has one.
Train ==
    /\ owner = "up" /\ iteration < MaxIteration
    /\ iteration' = iteration + 1
    /\ captures' = Append(captures, <<iteration + 1, epoch>>)
    /\ UNCHANGED <<parameters, epoch, owner, restore, beganAt, queue, flush, wave, granted,
                   aborted, local, lastFlush, stragglers, held, background, l3, failed, failures>>

\* checkpoint(): a capture of an earlier epoch gives up.
Capture ==
    /\ captures # <<>>
    /\ captures' = Tail(captures)
    /\ LET it == Head(captures)[1]
       IN  IF Head(captures)[2] # epoch
           THEN UNCHANGED <<local, queue>>
           ELSE /\ local' = [local EXCEPT !.dram = Max({@, it})]
                /\ queue' = Append(queue, Head(captures))
    /\ UNCHANGED <<parameters, ownerVars, flush, wave, granted, aborted, lastFlush, stragglers,
                   held, background, l3, failed, failures>>

\* _persist_serialized, granted the lock: a flush of an earlier epoch, or of an
\* iteration already flushed, ends here.
TakeLock ==
    /\ flush = "free" /\ queue # <<>>
    /\ queue' = Tail(queue)
    /\ LET it == Head(queue)[1]
       IN  IF Head(queue)[2] # epoch \/ it <= lastFlush
           THEN UNCHANGED <<flush, wave, lastFlush>>
           ELSE /\ flush' = "slot" /\ wave' = Head(queue)
                /\ lastFlush' = it
    /\ UNCHANGED <<parameters, ownerVars, captures, granted, aborted, local, stragglers, held,
                   background, l3, failed, failures>>

FreeLock == flush' = "free" /\ wave' = None /\ granted' = <<>> /\ aborted' = FALSE

-----------------------------------------------------------------------------
(* _persist_flow: reserve, and start the transfer. *)

\* DonorRegistry.reserve: a stripe of n of the donors that are willing.
Stripes(willing, n) ==
    {s \in [1..n -> willing] : \A i, j \in 1..n : s[i] = s[j] => i = j}

\* Donors that may accept.
Able == {d \in available \ failed : placement = "dram" => dramHosted[d] < DramSlots}

\* A short grant is striped over fewer donors (partial_grants), and without any
\* the wave falls back on the owner's disk.
Reserve ==
    /\ flush = "slot" /\ wave[2] = epoch
    /\ \E willing \in SUBSET Able :
           LET parity == /\ placement = "ssd" /\ backstop \in {"parity", "parity_cutoff"}
                         /\ Cardinality(willing) > K
               n == IF parity THEN K + 1 ELSE Min({K, Cardinality(willing)})
           IN  /\ granted' \in Stripes(willing, n)
               /\ flush' = IF n = 0 THEN "local" ELSE IF parity THEN "parity" ELSE "stripe"
    /\ dramHosted' = [d \in Donor |-> IF placement = "dram" /\ \E i \in DOMAIN granted' : granted'[i] = d
                                      THEN dramHosted[d] + 1 ELSE dramHosted[d]]
    /\ UNCHANGED <<parameters, ownerVars, captures, queue, wave, aborted, local, lastFlush,
                   stragglers, pieces, shadow, background, l3, failed, failures>>

\* The epoch changed during the wait for the slot.
LeaveSlot ==
    /\ flush = "slot" /\ wave[2] # epoch
    /\ FreeLock
    /\ UNCHANGED <<parameters, ownerVars, captures, queue, local, lastFlush, stragglers, held,
                   background, l3, failed, failures>>

Moving == flush \in {"local", "stripe", "parity"}
GrantedTo == {granted[i] : i \in DOMAIN granted}

IndexOf(d) == (CHOOSE i \in DOMAIN granted : granted[i] = d) - 1

\* The transfer aborts: buffers are given back.  A change of epoch discards too.
AbortWave ==
    /\ Moving /\ aborted
    /\ FreeLock
    /\ LET hosted == IF placement = "dram" THEN Released(dramHosted, GrantedTo) ELSE dramHosted
       IN  IF wave[2] # epoch
           THEN Discard(iteration, hosted, local)
           ELSE dramHosted' = hosted /\ UNCHANGED <<pieces, shadow, l3, local, lastFlush>>
    /\ UNCHANGED <<parameters, ownerVars, captures, queue, stragglers, background, failed, failures>>

LandLocally ==
    /\ flush = "local" /\ ~aborted
    /\ FreeLock
    /\ local' = [local EXCEPT !.ssd = Max({@, wave[1]})]
    /\ UNCHANGED <<parameters, ownerVars, captures, queue, lastFlush, stragglers, held,
                   background, l3, failed, failures>>

-----------------------------------------------------------------------------
(* A wave lands. *)

PieceOf(d) ==
    [iteration |-> wave[1], born |-> wave[2], index |-> IndexOf(d),
     data |-> IF flush = "parity" THEN K ELSE Len(granted),
     total |-> Len(granted), tier |-> placement]

\* A piece is not registered over a newer one, nor after a rollback.
Registers(it, d) == it <= iteration /\ ~After(pieces[d], it)

\* _schedule_wave_drain: every so many waves only, and never without pieces.
Drained(it, born, info, data) ==
    IF info = {} \/ backstop # "donor_drain" \/ it > iteration THEN {{}}
    ELSE {{}, {[iteration |-> it, born |-> born, epoch |-> epoch, pieces |-> info,
                total |-> Cardinality(info), data |-> data,
                live |-> {}, moving |-> FALSE, aborted |-> FALSE]}}

LandStripe ==
    /\ flush = "stripe" /\ ~aborted
    /\ FreeLock
    /\ LET landed == {d \in GrantedTo : Registers(wave[1], d)}
           new == {<<d, PieceOf(d)>> : d \in landed}
       IN  /\ pieces' = [d \in Donor |-> IF d \in landed THEN PieceOf(d) ELSE pieces[d]]
           /\ IF placement = "ssd"
              THEN /\ \E started \in Drained(wave[1], wave[2], {<<d, IndexOf(d)>> : d \in landed},
                                             Len(granted)) :
                          drains' = drains \cup started
                   /\ UNCHANGED <<shadow, dramHosted, demotions, chains>>
              ELSE /\ dramHosted' = Released(dramHosted, (GrantedTo \ landed)
                                                \cup {d \in landed : InDram(d)})
                   /\ shadow' = [d \in Donor |-> IF d \in landed /\ pieces[d] # None /\ ~InDram(d)
                                                 THEN pieces[d] ELSE shadow[d]]
                   /\ demotions' = demotions \cup new
                   /\ chains' = IF backstop = "donor_drain" /\ new # {}
                                THEN chains \cup {new} ELSE chains
                   /\ UNCHANGED drains
    /\ UNCHANGED <<parameters, ownerVars, captures, queue, local, lastFlush, stragglers, l3,
                   failed, failures>>

\* _parity_cutoff_transfer: all pieces landed or, with the cutoff, all but one.
LandParity ==
    /\ flush = "parity" /\ ~aborted
    /\ FreeLock
    /\ \E late \in {{}} \cup {{d} : d \in IF backstop = "parity_cutoff" THEN GrantedTo ELSE {}} :
           LET landed == {d \in GrantedTo \ late : Registers(wave[1], d)}
           IN  /\ pieces' = [d \in Donor |-> IF d \in landed THEN PieceOf(d) ELSE pieces[d]]
               /\ stragglers' = stragglers \cup
                      {[donor |-> d, piece |-> PieceOf(d), watched |-> GrantedTo, aborted |-> FALSE]
                           : d \in late}
    /\ UNCHANGED <<parameters, ownerVars, captures, queue, local, lastFlush, shadow, dramHosted,
                   background, l3, failed, failures>>

Superseded(it) == \E d \in Donor : After(pieces[d], it)

\* _bg: a straggler registers unless it aborted or a newer wave landed.
SettleStraggler ==
    \E s \in stragglers :
        /\ stragglers' = stragglers \ {s}
        /\ pieces' = IF \/ s.aborted \/ Superseded(s.piece.iteration)
                        \/ ~Registers(s.piece.iteration, s.donor)
                     THEN pieces
                     ELSE [pieces EXCEPT ![s.donor] = s.piece]
        /\ UNCHANGED <<parameters, ownerVars, flushVars, local, lastFlush, shadow, dramHosted,
                       background, l3, failed, failures>>

-----------------------------------------------------------------------------
(* Demotion and drain. *)

\* The same piece, before or after its demotion.
Same(p, q) == p # None /\ [p EXCEPT !.tier = q.tier] = q

\* _demote_piece: ends when the piece was lost or replaced; otherwise the donor
\* must be up, and an aborted transfer starts again.
Demote ==
    \E x \in demotions :
        LET d == x[1]  p == x[2]
        IN  /\ demotions' = demotions \ {x}
            /\ IF pieces[d] # p
               THEN UNCHANGED held
               ELSE /\ d \notin failed
                    /\ pieces' = [pieces EXCEPT ![d].tier = "ssd"]
                    /\ shadow' = [shadow EXCEPT ![d] = None]
                    /\ dramHosted' = Released(dramHosted, {d})
            /\ UNCHANGED <<parameters, ownerVars, flushVars, local, lastFlush, stragglers, chains,
                           drains, l3, failed, failures>>

\* _chain: the demotions of a wave are over; what is on disk drains.
StartChain ==
    \E wholeWave \in chains :
        /\ wholeWave \cap demotions = {}
        /\ chains' = chains \ {wholeWave}
        /\ LET onDisk == {x \in wholeWave : Same(pieces[x[1]], x[2]) /\ ~InDram(x[1])}
               p == (CHOOSE x \in wholeWave : TRUE)[2]
           IN  \E started \in Drained(p.iteration, p.born, {<<x[1], x[2].index>> : x \in onDisk},
                                      p.data) :
                   drains' = drains \cup started
        /\ UNCHANGED <<parameters, ownerVars, flushVars, local, lastFlush, stragglers, held,
                       demotions, l3, failed, failures>>

\* _drain_wave_to_l3, after the wait for the donors' windows: donors that are
\* down are left out.
StartDrain ==
    \E w \in drains :
        /\ ~w.moving
        /\ LET live == {x[1] : x \in w.pieces} \ failed
           IN  drains' = (drains \ {w}) \cup
                   (IF w.epoch # epoch \/ live = {} THEN {}
                    ELSE {[w EXCEPT !.live = live, !.moving = TRUE]})
        /\ UNCHANGED <<parameters, ownerVars, flushVars, local, lastFlush, stragglers, held,
                       demotions, chains, l3, failed, failures>>

StoredPiece(w, x) == [iteration |-> w.iteration, born |-> w.born, index |-> x, total |-> w.total,
                 data |-> w.data]

FinishDrain ==
    \E w \in drains :
        /\ w.moving
        /\ drains' = drains \ {w}
        /\ IF w.aborted \/ w.epoch # epoch
           THEN UNCHANGED l3
           ELSE LET sent == {x[2] : x \in {y \in w.pieces : y[1] \in w.live}}
                IN  l3' = [x \in DOMAIN l3 |-> IF x \in sent /\ ~After(l3[x], w.iteration)
                                               THEN StoredPiece(w, x) ELSE l3[x]]
        /\ UNCHANGED <<parameters, ownerVars, flushVars, local, lastFlush, stragglers, held,
                       demotions, chains, failed, failures>>

-----------------------------------------------------------------------------
(* What recover() may restore from. *)

On(x) == {d \in Donor : pieces[d] # None /\ pieces[d].iteration = x}
Alive(x) == On(x) \ failed
Newest(its) == Max(its \cup {0})
Restorable(x) == x <= iteration

\* Mutant of PeerSet: donors that are down count.
PeerSetOfAll == Newest({x \in Iteration : Restorable(x) /\ \E d \in On(x) :
                            Cardinality(On(x)) >= pieces[d].total})

\* _best_peer_set
PeerSet == Newest({x \in Iteration : Restorable(x) /\ \E d \in On(x) :
                       Cardinality(Alive(x)) >= pieces[d].total})

\* _best_parity_set
ParitySet == Newest({x \in Iteration : Restorable(x) /\ \E d \in On(x) :
                         /\ pieces[d].data < pieces[d].total
                         /\ Cardinality(Alive(x)) = pieces[d].data})

\* _best_stitch_set: the pieces wanted, and where they are.
Wanted(x) == 0..(Max({pieces[d].total : d \in On(x)}
                     \cup {l3[i].total : i \in {j \in DOMAIN l3 : l3[j] # None /\ l3[j].iteration = x}}) - 1)
AtPeer(x, i) == {d \in Alive(x) : pieces[d].index = i}
InL3(x, i) == i \in DOMAIN l3 /\ l3[i] # None /\ l3[i].iteration = x
Known(x) == On(x) # {} \/ \E i \in DOMAIN l3 : InL3(x, i)

Stitchable(x) ==
    /\ Restorable(x) /\ Known(x)
    /\ \A i \in Wanted(x) : AtPeer(x, i) # {} \/ InL3(x, i)
    /\ \E i \in Wanted(x) : AtPeer(x, i) = {}

StitchSet == Newest({x \in Iteration : Stitchable(x)})

\* _latest_available_copy
LocalCopy == Newest({x \in {local.dram, local.ssd} : Restorable(x)})

Source(from, x, watched) == [from |-> from, iteration |-> x, watched |-> watched, aborted |-> FALSE]

\* The preference order of recover(), and which donors its fetch watches.
Chosen ==
    IF ParitySet > Max({LocalCopy, PeerSet, StitchSet})
        THEN Source("parity", ParitySet, Alive(ParitySet))
    ELSE IF StitchSet > Max({LocalCopy, PeerSet})
        THEN Source("stitch", StitchSet, UNION {AtPeer(StitchSet, i) : i \in Wanted(StitchSet)})
    ELSE IF PeerSet > LocalCopy THEN Source("peer", PeerSet, {})
    ELSE Source("local", LocalCopy, {})

-----------------------------------------------------------------------------
(* Failure and recovery of the owner: _single_node_failure. *)

Wiped(kind) == CASE kind = "process" -> {} [] kind = "reboot" -> {"dram"}
                 [] kind = "node" -> {"dram", "ssd"}

OwnerFails ==
    /\ owner = "up" /\ failures < MaxFailures
    /\ failures' = failures + 1
    /\ epoch' = epoch + 1
    /\ owner' = "down"
    /\ \E kind \in {"process", "reboot", "node"} :
           local' = [t \in DOMAIN local |-> IF t \in Wiped(kind) THEN 0 ELSE local[t]]
    /\ aborted' = Moving
    /\ stragglers' = {[s EXCEPT !.aborted = TRUE] : s \in stragglers}
    /\ UNCHANGED <<parameters, iteration, restore, beganAt, captures, queue, flush, wave,
                   granted, lastFlush, held, background, l3, failed>>

\* After the restart delay: the future is discarded, the source chosen.
StartRecovery ==
    /\ owner = "down"
    /\ owner' = "fetching"
    /\ restore' = Chosen
    /\ Discard(iteration, dramHosted, local)
    /\ UNCHANGED <<parameters, iteration, epoch, beganAt, flushVars, stragglers, background,
                   failed, failures>>

\* recover() returns: the job resumes at the iteration restored, or at 0 when it
\* returned False.
FinishRecovery ==
    /\ owner = "fetching"
    /\ owner' = "up" /\ restore' = None
    /\ LET resumed == IF restore.aborted THEN 0 ELSE restore.iteration
       IN  /\ iteration' = resumed
           /\ beganAt' = [beganAt EXCEPT ![epoch] = resumed]
           /\ Discard(resumed, dramHosted, [local EXCEPT !.dram = Max({@, resumed})])
    /\ UNCHANGED <<parameters, epoch, flushVars, stragglers, background, failed, failures>>

-----------------------------------------------------------------------------
(* Failure of a donor.  A process failure keeps what the daemon holds, a     *)
(* reboot the disk, the loss of the node nothing.                            *)

\* drop_hosted_piece: after a reboot the file under a lost piece is live again.
LostBy(kind, d) == pieces[d] # None /\ (kind = "node" \/ (kind = "reboot" /\ InDram(d)))
LeftOn(kind, d) == IF kind = "reboot" THEN shadow[d] ELSE None

AbortWatching(d) ==
    /\ aborted' = (aborted \/ (Moving /\ d \in GrantedTo))
    /\ stragglers' = {IF d \in s.watched THEN [s EXCEPT !.aborted = TRUE] ELSE s : s \in stragglers}
    /\ drains' = {IF d \in w.live THEN [w EXCEPT !.aborted = TRUE] ELSE w : w \in drains}
    /\ restore' = IF restore = None \/ d \notin restore.watched THEN restore
                  ELSE [restore EXCEPT !.aborted = TRUE]

DonorFails ==
    /\ failures < MaxFailures
    /\ failures' = failures + 1
    /\ \E d \in available \ failed, kind \in {"process", "reboot", "node"} :
           /\ failed' = failed \cup {d}
           /\ AbortWatching(d)
           /\ IF LostBy(kind, d)
              THEN /\ pieces' = [pieces EXCEPT ![d] = LeftOn(kind, d)]
                   /\ shadow' = [shadow EXCEPT ![d] = None]
                   /\ dramHosted' = IF InDram(d) THEN Released(dramHosted, {d}) ELSE dramHosted
              ELSE UNCHANGED held
    /\ UNCHANGED <<parameters, iteration, epoch, owner, beganAt, captures, queue, flush, wave,
                   granted, local, lastFlush, demotions, chains, l3>>

DonorReturns ==
    /\ \E d \in failed : failed' = failed \ {d}
    /\ UNCHANGED <<parameters, ownerVars, flushVars, local, lastFlush, stragglers, held,
                   background, l3, failures>>

-----------------------------------------------------------------------------
Init ==
    /\ \E s \in Settings : placement = s[1] /\ backstop = s[2] /\ available \in kSubset(s[3], Donor)
    /\ iteration = 0 /\ epoch = 0 /\ owner = "up" /\ restore = None
    /\ local = [t \in {"dram", "ssd"} |-> 0]
    /\ captures = <<>> /\ queue = <<>> /\ lastFlush = 0
    /\ flush = "free" /\ wave = None /\ granted = <<>> /\ aborted = FALSE
    /\ stragglers = {}
    /\ pieces = [d \in Donor |-> None] /\ shadow = [d \in Donor |-> None]
    /\ dramHosted = [d \in Donor |-> 0]
    /\ demotions = {} /\ chains = {} /\ drains = {}
    /\ l3 = [i \in 0..(K - 1) |-> None]
    /\ failed = {} /\ failures = 0
    /\ beganAt = [e \in Epoch |-> IF e = 0 THEN 0 ELSE MaxIteration]

FlushStep == Capture \/ TakeLock \/ Reserve \/ LeaveSlot \/ AbortWave \/ LandLocally
             \/ LandStripe \/ LandParity
BackgroundStep == SettleStraggler \/ Demote \/ StartChain \/ StartDrain \/ FinishDrain
RecoveryStep == StartRecovery \/ FinishRecovery

Next == Train \/ FlushStep \/ BackgroundStep \/ OwnerFails \/ RecoveryStep
        \/ DonorFails \/ DonorReturns

Spec == Init /\ [][Next]_vars

-----------------------------------------------------------------------------
(* Properties. *)

TypeOK ==
    /\ <<placement, backstop, Cardinality(available)>> \in Settings /\ available \subseteq Donor
    /\ iteration \in 0..MaxIteration /\ epoch \in Epoch
    /\ owner \in {"up", "down", "fetching"}
    /\ restore \in Fetch \cup {None} /\ (owner = "fetching" <=> restore # None)
    /\ local \in [{"dram", "ssd"} -> 0..MaxIteration]
    /\ captures \in Seq(Wave) /\ queue \in Seq(Wave)
    /\ lastFlush \in 0..MaxIteration
    /\ flush \in {"free", "slot", "local", "stripe", "parity"}
    /\ wave \in Wave \cup {None} /\ (flush = "free" <=> wave = None)
    /\ granted \in Seq(Donor) /\ aborted \in BOOLEAN
    /\ stragglers \subseteq [donor : Donor, piece : Piece, watched : SUBSET Donor,
                             aborted : BOOLEAN]
    /\ pieces \in [Donor -> Piece \cup {None}] /\ shadow \in [Donor -> Piece \cup {None}]
    /\ dramHosted \in [Donor -> 0..DramSlots]
    /\ demotions \subseteq Donor \X Piece /\ chains \subseteq SUBSET (Donor \X Piece)
    /\ drains \subseteq [iteration : Iteration, born : Epoch, epoch : Epoch,
                         pieces : SUBSET (Donor \X Index), total : 1..K, data : 1..K,
                         live : SUBSET Donor, moving : BOOLEAN, aborted : BOOLEAN]
    /\ l3 \in [0..(K - 1) -> Stored \cup {None}] /\ \A i \in DOMAIN l3 : l3[i] # None => l3[i].index = i
    /\ failed \subseteq Donor /\ failures \in 0..MaxFailures
    /\ beganAt \in [Epoch -> 0..MaxIteration]

\* Pieces from which a shard can be put together: of one wave, and as many as
\* it had data pieces.
Whole(ps) ==
    \E p \in ps : Cardinality({q.index : q \in {r \in ps : r.born = p.born}}) >= p.data

PiecesAt(x) == {pieces[d] : d \in Alive(x)}
StitchedAt(x) == {p \in PiecesAt(x) : p.index \in Wanted(x)}
                 \cup {l3[i] : i \in {j \in Wanted(x) : InL3(x, j) /\ AtPeer(x, j) = {}}}

\* The set of pieces that recover() takes for a checkpoint on the donors is one:
\* all of a single wave and enough of them on donors that are up, whichever
\* waves, demotions, stragglers, failures and rollbacks came before.  The same of
\* a parity reconstruction and, where pieces go to the donors' disks, of a
\* stitch of donors' pieces and L3.
RestorableIsWhole ==
    /\ PeerSet # 0 => Whole(PiecesAt(PeerSet))
    /\ ParitySet # 0 => Whole(PiecesAt(ParitySet))
    /\ placement = "ssd" /\ StitchSet # 0 => Whole(StitchedAt(StitchSet))

\* "A rank's L3 copy is COMPLETE at iteration X when all k pieces of X are
\* present" (crossjob.py, at l3_pieces): what a stitch takes for a checkpoint is
\* one, for pieces in the donors' DRAM as well.
StitchIsWhole == StitchSet # 0 => Whole(StitchedAt(StitchSet))

\* A donor counts as reserved exactly the buffers that hold a piece or that a
\* wave in flight will fill: none is leaked by an abort, a loss, a rollback or a
\* replacement, and none is given back twice.
DramLedgerExact ==
    \A d \in Donor :
        dramHosted[d] = (IF InDram(d) THEN 1 ELSE 0)
                        + (IF placement = "dram" /\ d \in GrantedTo THEN 1 ELSE 0)

\* The invariant stated at dram_shadow: an old file is kept apart only while a
\* newer piece is in the donor's DRAM.
ShadowUnderDram ==
    \A d \in Donor : shadow[d] # None =>
        /\ InDram(d) /\ shadow[d].tier = "ssd"
        /\ shadow[d].iteration < pieces[d].iteration

OnTimeline(p) == \A e \in Epoch : p.born < e /\ e <= epoch => p.iteration <= beganAt[e]

Restored == {p \in {l3[i] : i \in DOMAIN l3} \ {None} : Restorable(p.iteration)}
HeldForOwner == {p \in {pieces[d] : d \in Donor} \cup {shadow[d] : d \in Donor} : p # None}

\* After a rollback no piece of the abandoned timeline is left on a donor, nor
\* under a piece in its DRAM, nor, where pieces go to the donors' disks, in L3;
\* and no transfer that was under way brings one back later.
NothingAbandoned ==
    \A p \in HeldForOwner \cup (IF placement = "ssd" THEN Restored ELSE {}) : OnTimeline(p)

\* The suppression of stale flushes never drops a checkpoint of the current
\* timeline, also when its iteration was flushed before a rollback.
FreshFlushStarts ==
    owner = "up" => \A i \in DOMAIN queue : queue[i][2] = epoch => queue[i][1] > lastFlush

\* What the owner's own records say of its donors is so: every piece is where the
\* record has it, and the DRAM ledger of each donor counts the pieces there.
RecordsExact == TypeOK /\ ShadowUnderDram /\ DramLedgerExact

-----------------------------------------------------------------------------
(* The inductive invariant behind the safety properties. *)

\* What belongs to the current epoch: none of it while the owner is down, and
\* all of it after the iteration at which the epoch began.
OfEpoch(it, born) ==
    /\ born <= epoch /\ (owner # "up" => born < epoch)
    /\ born = epoch => beganAt[born] < it /\ it <= iteration

\* An epoch begins once, when the owner is up again.
EpochsBegin ==
    /\ epoch <= failures /\ lastFlush <= iteration
    /\ owner = "up" => beganAt[epoch] <= iteration
    /\ \A e \in Epoch : e > epoch \/ (e = epoch /\ owner # "up") => beganAt[e] = MaxIteration

\* The checkpoints of the current epoch that wait are later than all that were
\* flushed, and wait in order.
Ascending(q, low) ==
    \A i \in DOMAIN q :
        /\ OfEpoch(q[i][1], q[i][2]) /\ (q[i][2] = epoch => q[i][1] > low)
        /\ \A j \in DOMAIN q : i < j /\ q[i][2] = epoch /\ q[j][2] = epoch => q[i][1] < q[j][1]
InOrder ==
    /\ Ascending(captures, lastFlush) /\ Ascending(queue, lastFlush)
    /\ \A i \in DOMAIN queue, j \in DOMAIN captures :
           queue[i][2] = epoch /\ captures[j][2] = epoch => queue[i][1] < captures[j][1]

\* A wave that moves is one of the current epoch, or aborts.
WaveMoves ==
    /\ flush # "free" => /\ OfEpoch(wave[1], wave[2])
                         /\ wave[2] = epoch => wave[1] = lastFlush
    /\ Moving /\ ~aborted => wave[2] = epoch
    /\ flush \in {"free", "slot", "local"} => DOMAIN granted = {}
    /\ flush \in {"free", "slot"} => ~aborted
    /\ flush = "stripe" => Len(granted) \in 1..K
    /\ flush = "parity" => Len(granted) = K + 1 /\ placement = "ssd"
    /\ \A i, j \in DOMAIN granted : granted[i] = granted[j] => i = j

\* The pieces that a donor holds, covers or may still register.
Tracked ==
    {x \in {<<d, pieces[d]>> : d \in Donor} \cup {<<d, shadow[d]>> : d \in Donor} : x[2] # None}
    \cup {<<s.donor, s.piece>> : s \in {r \in stragglers : ~r.aborted}}

OnTime(it, born) ==
    /\ born \in Epoch /\ beganAt[born] < it
    /\ \A e \in Epoch : born < e /\ e <= epoch => it <= beganAt[e]

\* They are of the present timeline, and older than the wave that moves.
TrackedOnTime ==
    \A x \in Tracked :
        /\ OfEpoch(x[2].iteration, x[2].born) /\ OnTime(x[2].iteration, x[2].born)
        /\ x[2].data <= x[2].total
        /\ x[2].born = epoch =>
               /\ x[2].iteration <= lastFlush
               /\ flush # "free" /\ wave[2] = epoch => x[2].iteration < wave[1]

\* Those of one wave have as many data pieces, and one index each.
OneWave ==
    \A x, y \in Tracked :
        x[2].iteration = y[2].iteration /\ x[2].born = y[2].born =>
            /\ x[2].data = y[2].data
            /\ x[2].index = y[2].index <=> x[1] = y[1]

\* A straggler is of the current epoch, or aborts; pieces in DRAM are those of
\* that placement.
Placements ==
    /\ \A s \in stragglers : /\ s.piece.tier = placement /\ placement = "ssd"
                             /\ s.aborted \/ s.piece.born = epoch
    /\ \A d \in Donor : InDram(d) => placement = "dram"
    /\ \A x \in demotions : x[2].tier = "dram" /\ placement = "dram"
    /\ chains # {} => placement = "dram"
    /\ \A c \in chains : IsFiniteSet(c) /\ Cardinality(c) \in 1..K

\* Where pieces go to the donors' disks, what drains and what the store holds
\* is of the present timeline.
StoreOnTime ==
    placement = "ssd" =>
        /\ \A w \in drains : /\ w.born = w.epoch /\ OfEpoch(w.iteration, w.born)
                             /\ beganAt[w.born] < w.iteration /\ w.data <= w.total
        /\ \A i \in DOMAIN l3 : l3[i] # None =>
               /\ OfEpoch(l3[i].iteration, l3[i].born) /\ OnTime(l3[i].iteration, l3[i].born)
               /\ l3[i].data <= l3[i].total

Inductive ==
    /\ TypeOK /\ EpochsBegin /\ InOrder /\ WaveMoves /\ TrackedOnTime /\ OneWave
    /\ Placements /\ ShadowUnderDram /\ DramLedgerExact /\ StoreOnTime

=============================================================================

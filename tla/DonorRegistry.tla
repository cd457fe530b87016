---------------------------- MODULE DonorRegistry ----------------------------
(***************************************************************************)
(* DonorRegistry (checkpointing/crossjob.py): the board on which the jobs  *)
(* of a run reserve room for the pieces of their checkpoint waves, and the *)
(* waves of _persist_flow and _persist_flow_cohort, its clients.           *)
(*                                                                         *)
(* A slot is one worker: a node, or a cohort of Represents nodes.  It has  *)
(* room for 2 transient pieces per node on its disks (tier "ssd"), and for *)
(* DramHostSlots pieces and DramHostGb bytes per node in DRAM (tier        *)
(* "dram").  A piece on disk is reserved until its wave ends, one in DRAM  *)
(* until it is demoted or lost.  The board matches a wave to donors by     *)
(* one of                                                                  *)
(*  - "least":  the least loaded donors first;                             *)
(*  - "spread": round robin over the donor jobs;                           *)
(*  - "rack":   donors whose racks are disjoint, and not the owner's; when *)
(*              they run out, any others, and the wave is flagged;          *)
(*  - "probe":  a bounded sample of the donors, without a view of the load.*)
(* window_bias, which only reorders the donors, is off.                    *)
(***************************************************************************)
EXTENDS Integers, Sequences, FiniteSets, FiniteSetsExt, Functions, SequencesExt

CONSTANTS
    Registered,   \* the slots in the order in which they register
    Job,          \* the jobs in the order of their names
    HomeJob,      \* job of a slot
    Represents,   \* nodes a slot stands for
    RacksOf,      \* racks its nodes are in
    Allowed,      \* donor jobs that the group policy of a job names
    DramHostSlots, DramHostGb,  \* dram_host_slots, dram_host_gb
    ShardGb,      \* bytes of the checkpoint of one rank
    FanoutMin,    \* PROBE_FANOUT_MIN
    RegistrySettings,  \* [matching, tier, parity, k, grouped] checked
    MaxEvents     \* bound: waves, failures, relocations and arrivals in all

\* Bytes are counted in a unit in which every piece has at least one.
RegistryAssumption ==
    /\ DramHostSlots \in Nat /\ DramHostGb \in Nat /\ ShardGb \in Nat \ {0}
    /\ FanoutMin \in Nat /\ MaxEvents \in Nat
    /\ RegistrySettings \subseteq
          [matching : {"least", "spread", "rack", "probe"}, tier : {"ssd", "dram"},
           parity : BOOLEAN, k : Nat \ {0}, grouped : BOOLEAN]
    /\ Registered \in Seq(Range(Registered)) /\ IsInjective(Registered)  \* setdefault
    /\ Represents \in [Range(Registered) -> Nat \ {0}]
    /\ RacksOf \in [Range(Registered) -> SUBSET UNION Range(RacksOf)]
    /\ \A s \in Range(Registered) : IsFiniteSet(RacksOf[s])
    /\ \A board \in RegistrySettings : board.k <= ShardGb
    /\ \A j \in Range(Job) : j \notin Allowed[j]

ASSUME RegistryAssumption

Slot == Range(Registered)

VARIABLES
    setting,    \* a parameter
    hosted,     \* pieces reserved on the disks of a slot
    dram,       \* dram_hosted
    dramGb,     \* dram_gb
    flushing,   \* slots in a wave of their own
    arrived,    \* jobs whose slots are available
    down,       \* slots whose worker is down
    racks,      \* racks_by_slot
    waves,      \* the wave of a slot that flushes: [take, parity, gb, flagged]
    streams,    \* [donor, pieces, id]: parity streams that outlive their wave
    resident,   \* pieces in DRAM of an owner at a donor: [pieces, gb]
    events      \* so far (bounds the model)

registryVars == <<setting, hosted, dram, dramGb, flushing, arrived, down, racks, waves,
                  streams, resident, events>>

NoTake == [s \in Slot |-> 0]
NoWave == [take |-> NoTake, parity |-> FALSE, flagged |-> FALSE, gb |-> 0]
NoPiece == [pieces |-> 0, gb |-> 0]

\* The sum of the values of f, counted one by one.
Total(f) == Cardinality(UNION {{x} \X (1..f[x]) : x \in DOMAIN f})

Donors(take) == {s \in Slot : take[s] > 0}
Earlier(s, u) == \E i, j \in DOMAIN Registered : i < j /\ Registered[i] = s /\ Registered[j] = u

-----------------------------------------------------------------------------
(* Room and order. *)

Capacity(s) == 2 * Represents[s]

\* _room_ok, _dram_room_shards, _shard_room: pieces of gb bytes s has room for.
Room(s, tr, gb) ==
    IF tr = "ssd" THEN Capacity(s) - hosted[s]
    ELSE Max({0, Min({DramHostSlots * Represents[s] - dram[s],
                      (DramHostGb * Represents[s] - dramGb[s]) \div gb})})

\* The conditions that every path repeats.
Available(job, tr, gb) ==
    {s \in Slot : /\ HomeJob[s] # job
                  /\ HomeJob[s] \in arrived
                  /\ s \notin flushing
                  /\ s \notin down
                  /\ Room(s, tr, gb) >= 1}

\* Only _valid_donors, which not all matchings call, reads the group policy.
Eligible(job, tr, gb) ==
    {s \in Available(job, tr, gb) :
        setting.grouped /\ setting.matching \in {"spread", "rack"} => HomeJob[s] \in Allowed[job]}

\* _occupancy_key, and _order, which looks at the disks whatever the tier: the load of the
\* donor of a piece before it takes that piece.
Load(p, tr) ==
    (IF tr = "dram" /\ setting.matching = "least" THEN dram[p[1]] ELSE hosted[p[1]])
    + (IF tr = "ssd" THEN p[2] - 1 ELSE 0)

\* Below zero when the donor of p is less loaded than that of q.  A cohort compares the
\* fractions of the room.
LoadDifference(p, q, tr, cohort) ==
    IF cohort THEN Load(p, tr) * Represents[q[1]] - Load(q, tr) * Represents[p[1]]
              ELSE Load(p, tr) - Load(q, tr)

\* sorted() keeps the order of registration.
Lighter(s, u, tr, cohort) ==
    LET difference == LoadDifference(<<s, 1>>, <<u, 1>>, tr, cohort)
    IN  difference < 0 \/ (difference = 0 /\ Earlier(s, u))

\* A wave of one node takes one piece of a donor, a cohort what it has room for.
Limit(s, tr, gb, cohort) == IF cohort THEN Room(s, tr, gb) ELSE 1

-----------------------------------------------------------------------------
(* Matching: what the donors are to take of n pieces.  A wave takes the      *)
(* first n pieces that the donors offer; the modes differ in the order.      *)

\* The i-th piece that a donor s would take is <<s, i>>.
Offers(E, tr, gb, cohort) == UNION {{s} \X (1..Limit(s, tr, gb, cohort)) : s \in E}

\* The loops over the donors: ahead[p] are the pieces that are offered before p.
Taken(offers, n, ahead) ==
    LET taken == {p \in offers : Cardinality(ahead[p]) < n}
    IN  [s \in Slot |-> Cardinality({p \in taken : p[1] = s})]

\* One donor after the other: before[s] are the donors before s.
DonorByDonor(offers, before) ==
    [p \in offers |->
        {q \in offers : q[1] \in before[p[1]] \/ (q[1] = p[1] /\ q[2] < p[2])}]

LightestFirst(E, tr, cohort) == [s \in E |-> {u \in E : Lighter(u, s, tr, cohort)}]

\* _reserve_matched, _reserve_shards_matched with spread_jobs: the donor jobs take turns,
\* each with the donor that is the least loaded by then.
JobByJob(E, offers, tr, cohort) ==
    LET JobOf(p) == HomeJob[p[1]]
        Sooner(q, p) ==
            LET difference == LoadDifference(q, p, tr, cohort)
            IN  \/ q[1] = p[1] /\ q[2] < p[2]
                \/ /\ q[1] # p[1]
                   /\ difference < 0 \/ (difference = 0 /\ Lighter(q[1], p[1], tr, cohort))
        round == [p \in offers |->
                     Cardinality({q \in offers : JobOf(q) = JobOf(p) /\ Sooner(q, p)})]
        Foremost(j) == CHOOSE s \in E : /\ HomeJob[s] = j
                                    /\ \A u \in E \ {s} :
                                          HomeJob[u] = j => Lighter(s, u, tr, cohort)
        Before(i, j) ==
            LET difference == LoadDifference(<<Foremost(i), 1>>, <<Foremost(j), 1>>, tr, cohort)
            IN  \/ difference < 0
                \/ difference = 0 /\ \E a, b \in DOMAIN Job : a < b /\ Job[a] = i /\ Job[b] = j
    IN  [p \in offers |->
            {q \in offers : round[q] < round[p] \/
                                (round[q] = round[p] /\ Before(JobOf(q), JobOf(p)))}]

\* _reserve_rack_aa, _reserve_shards_rack_aa, first loop: the donors whose racks are not the
\* owner's, and of no lighter donor that is chosen; the others are deferred.
RackDisjoint(owner, E, tr, cohort) ==
    CHOOSE A \in SUBSET E : \A s \in E :
        s \in A <=> /\ racks[s] \cap racks[owner] = {}
                   /\ \A u \in A : Lighter(u, s, tr, cohort) => racks[u] \cap racks[s] = {}

\* The second: the deferred donors, those of the owner's racks last.
RackDisjointFirst(owner, E, tr, cohort) ==
    LET disjoint == RackDisjoint(owner, E, tr, cohort)
        class(s) == IF s \in disjoint THEN 0
                    ELSE IF racks[s] \cap racks[owner] = {} THEN 1 ELSE 2
    IN  [s \in E |->
            {u \in E : class(u) < class(s) \/ (class(u) = class(s) /\ Lighter(u, s, tr, cohort))}]

\* The donors of a pool that are probed, in order.
Probed(pool, fanout) ==
    IF Cardinality(pool) <= fanout THEN {SelectSeq(Registered, LAMBDA s : s \in pool)}
    ELSE UNION {SetToSeqs(P) : P \in kSubset(fanout, pool)}

Pool(job) == {s \in Slot : HomeJob[s] # job /\ HomeJob[s] \in arrived}

\* _reserve_probe.
NodeProbes(job, n) == Probed(Pool(job), Max({FanoutMin, 2 * n}))

\* _reserve_shards_probe, which counts the nodes that the pieces need.
CohortProbes(job, n) ==
    LET nodes == (n + 1) \div 2
    IN  Probed(Pool(job), Max({FanoutMin, nodes + nodes \div 2}))

\* The two of them.
Probes(job, n, cohort) == IF cohort THEN CohortProbes(job, n) ELSE NodeProbes(job, n)

InProbedOrder(order, E) ==
    [s \in E |-> {u \in E : \E i, j \in DOMAIN order :
                                 i < j /\ order[i] = u /\ order[j] = s}]

\* Mutant of RackFallback: the deferred donors are taken without a flag.
SilentFallback(owner, E, n, tr, gb, cohort) == FALSE

\* When the deferred donors are needed: last_rack_fallback.
RackFallback(owner, E, n, tr, gb, cohort) ==
    LET disjoint == RackDisjoint(owner, E, tr, cohort)
    IN  disjoint # E /\ Cardinality(Offers(disjoint, tr, gb, cohort)) < n

\* The mode that reserve and reserve_shards choose.
Matched(owner, n, tr, gb) ==
    LET cohort == Represents[owner] > 1
        E == Eligible(HomeJob[owner], tr, gb)
        offers == Offers(E, tr, gb, cohort)
        Match(ahead, flagged) == [take |-> Taken(offers, n, ahead), flagged |-> flagged]
        probed(order) == Offers(E \cap Range(order), tr, gb, cohort)
    IN  CASE setting.matching = "least" ->
                 {Match(DonorByDonor(offers, LightestFirst(E, tr, cohort)), FALSE)}
          [] setting.matching = "spread" -> {Match(JobByJob(E, offers, tr, cohort), FALSE)}
          [] setting.matching = "rack" ->
                 {Match(DonorByDonor(offers, RackDisjointFirst(owner, E, tr, cohort)),
                        RackFallback(owner, E, n, tr, gb, cohort))}
          [] setting.matching = "probe" ->
                 {[take |-> Taken(probed(order), n,
                                  DonorByDonor(probed(order), InProbedOrder(order, E))),
                   flagged |-> FALSE] : order \in Probes(HomeJob[owner], n, cohort)}

\* What reserve returns of a match.
Returned(take, n, partial) == IF Total(take) < n /\ ~partial THEN NoTake ELSE take

\* Mutant of OnBoard: a reservation that is refused in the end keeps what it was granted.
GrantsStay(take, n, partial) == take

\* What it leaves reserved: _grant while it matches, _ungrant when it is refused.
OnBoard(take, n, partial) ==
    [s \in Slot |-> take[s] - (IF Total(take) < n /\ ~partial THEN take[s] ELSE 0)]

\* reserve_one_slot: one donor with room for all the pieces of a parity stream.
OneSlot(owner, least, not) ==
    LET able == {s \in Available(HomeJob[owner], "ssd", 1) \ not :
                     Capacity(s) - hosted[s] >= least}
    IN  {s \in able : \A u \in able \ {s} : Lighter(s, u, "ssd", TRUE)}

-----------------------------------------------------------------------------
(* Waves. *)

Plus(load, take) == [s \in Slot |-> load[s] + take[s]]

\* release, release_shards, release_dram: never below zero.
Minus(load, take) == [s \in Slot |-> Max({0, load[s] - take[s]})]

Times(take, gb) == [s \in Slot |-> take[s] * gb]

\* The bytes of a piece when the grant is whole.
PieceEstimate == ShardGb \div setting.k

\* adjust_dram_gb: a partial grant spreads the same bytes over fewer pieces.
TrueUp(load, take, gb) ==
    [s \in Slot |-> Max({0, load[s] + take[s] * (gb - PieceEstimate)})]

Start(s, take, parity, flagged) ==
    /\ events < MaxEvents
    /\ events' = events + 1
    /\ flushing' = flushing \cup {s}
    /\ waves' = [waves EXCEPT ![s] =
           [take |-> take, parity |-> parity, flagged |-> flagged,
            gb |-> IF take = NoTake THEN 0 ELSE (ShardGb * Represents[s]) \div Total(take)]]
    /\ UNCHANGED <<setting, arrived, down, racks, streams, resident>>

MayFlush(s) == /\ s \notin flushing /\ s \notin down /\ HomeJob[s] \in arrived
               /\ events < MaxEvents

\* A wave whose pieces land in DRAM; without a grant it is local.
FlushToDram(s) ==
    LET n == setting.k * Represents[s]
    IN  /\ setting.tier = "dram" /\ MayFlush(s)
        /\ \E match \in Matched(s, n, "dram", PieceEstimate) :
               LET take == Returned(match.take, n, TRUE)
                   gb == IF take = NoTake THEN 0 ELSE (ShardGb * Represents[s]) \div Total(take)
               IN  /\ Start(s, take, FALSE, match.flagged)
                   /\ dram' = Plus(dram, OnBoard(match.take, n, TRUE))
                   /\ dramGb' = TrueUp(Plus(dramGb, Times(OnBoard(match.take, n, TRUE),
                                                          PieceEstimate)), take, gb)
        /\ UNCHANGED hosted

\* A wave to the disks.  One node with parity first asks for k + 1 donors, all or
\* none; a cohort adds one donor for the parity stream to its data donors.
FlushToDisk(s) ==
    LET n == setting.k * Represents[s]
        Plain(board) ==
            \E match \in Matched(s, n, "ssd", 1) :
                LET take == Returned(match.take, n, TRUE)
                    spare == IF setting.parity /\ Represents[s] > 1 /\ take # NoTake
                             THEN OneSlot(s, Max(Range(take)), Donors(take)) ELSE {}
                    parity == [d \in Slot |-> IF d \in spare THEN Max(Range(take)) ELSE 0]
                IN  /\ Start(s, Plus(take, parity), spare # {}, match.flagged)
                    /\ hosted' = Plus(Plus(board, OnBoard(match.take, n, TRUE)), parity)
    IN  /\ setting.tier = "ssd" /\ MayFlush(s)
        /\ IF setting.parity /\ Represents[s] = 1
           THEN \E match \in Matched(s, n + 1, "ssd", 1) :
                    LET board == Plus(hosted, OnBoard(match.take, n + 1, FALSE))
                    IN  IF Returned(match.take, n + 1, FALSE) # NoTake
                        THEN Start(s, match.take, TRUE, match.flagged) /\ hosted' = board
                        ELSE Plain(board)
           ELSE Plain(hosted)
        /\ UNCHANGED <<dram, dramGb>>

WaveOver(s) ==
    /\ s \in flushing
    /\ waves' = [waves EXCEPT ![s] = NoWave]
    /\ flushing' = flushing \ {s}
    /\ UNCHANGED <<setting, arrived, down, racks, events>>

\* A stream of n pieces to d; the id tells it from those that go on.
Stream(d, n) ==
    LET stream(i) == [donor |-> d, pieces |-> n, id |-> i]
    IN  stream(CHOOSE i \in 0..Cardinality(streams) : stream(i) \notin streams)

\* A wave to the disks ends, whole or aborted: it releases its donors.  With
\* parity_cutoff the slowest stream may go on without it.
EndOnDisk(s) ==
    LET wave == waves[s]
    IN  /\ setting.tier = "ssd" /\ WaveOver(s)
        /\ \/ hosted' = Minus(hosted, wave.take) /\ UNCHANGED streams
           \/ /\ wave.parity
              /\ \E d \in Donors(wave.take) :
                     /\ hosted' = Minus(hosted, [wave.take EXCEPT ![d] = 0])
                     /\ streams' = streams \cup {Stream(d, wave.take[d])}
        /\ UNCHANGED <<dram, dramGb, resident>>

StreamEnds ==
    \E x \in streams :
        /\ streams' = streams \ {x}
        /\ hosted' = Minus(hosted, [NoTake EXCEPT ![x.donor] = x.pieces])
        /\ UNCHANGED <<setting, dram, dramGb, flushing, arrived, down, racks, waves, resident,
                       events>>

\* A wave to DRAM is aborted: nothing landed.
AbortInDram(s) ==
    /\ setting.tier = "dram" /\ WaveOver(s)
    /\ dram' = Minus(dram, waves[s].take)
    /\ dramGb' = Minus(dramGb, Times(waves[s].take, waves[s].gb))
    /\ UNCHANGED <<hosted, streams, resident>>

\* The reservations that the pieces of owner s at the donors D hold.
Held(s, d) == resident[<<s, d>>].pieces
Bytes(s, d) == resident[<<s, d>>].pieces * resident[<<s, d>>].gb
HeldAt(s, D) == [d \in Slot |-> IF d \in D THEN Held(s, d) ELSE 0]
BytesAt(s, D) == [d \in Slot |-> IF d \in D THEN Bytes(s, d) ELSE 0]

\* Those of all owners at one donor.
HeldBy(d) == Total([s \in Slot |-> Held(s, d)])
BytesBy(d) == Total([s \in Slot |-> Bytes(s, d)])

\* It lands.  A piece that is stale is dropped; another replaces the owner's older
\* piece in the donor's DRAM, which is released (_book_dram_release).
LandInDram(s, stale) ==
    LET wave == waves[s]
        new == Donors(wave.take) \ stale
        dropped == [d \in Slot |-> IF d \in stale THEN wave.take[d] ELSE 0]
    IN  /\ setting.tier = "dram" /\ WaveOver(s)
        /\ resident' = [x \in Slot \X Slot |->
               IF x[1] = s /\ x[2] \in new THEN [pieces |-> wave.take[x[2]], gb |-> wave.gb]
                                          ELSE resident[x]]
        /\ dram' = Minus(Minus(dram, dropped), HeldAt(s, new))
        /\ dramGb' = Minus(Minus(dramGb, Times(dropped, wave.gb)), BytesAt(s, new))
        /\ UNCHANGED <<hosted, streams>>

\* A piece leaves DRAM: demoted to the donor's disk, or discarded by a rollback.
LeaveDram(s, d) ==
    /\ resident[<<s, d>>] # NoPiece
    /\ resident' = [resident EXCEPT ![<<s, d>>] = NoPiece]
    /\ dram' = Minus(dram, HeldAt(s, {d}))
    /\ dramGb' = Minus(dramGb, BytesAt(s, {d}))
    /\ UNCHANGED <<setting, hosted, flushing, arrived, down, racks, waves, streams, events>>

-----------------------------------------------------------------------------
(* The cluster. *)

\* A donor fails, and the pieces in its DRAM with it.
Fail(d) ==
    /\ d \notin down /\ events < MaxEvents
    /\ events' = events + 1
    /\ down' = down \cup {d}
    /\ resident' = [x \in Slot \X Slot |-> IF x[2] = d THEN NoPiece ELSE resident[x]]
    /\ dram' = [dram EXCEPT ![d] = Max({0, @ - HeldBy(d)})]
    /\ dramGb' = [dramGb EXCEPT ![d] = Max({0, @ - BytesBy(d)})]
    /\ UNCHANGED <<setting, hosted, flushing, arrived, racks, waves, streams>>

Return(d) ==
    /\ d \in down
    /\ down' = down \ {d}
    /\ UNCHANGED <<setting, hosted, dram, dramGb, flushing, arrived, racks, waves, streams,
                   resident, events>>

\* _relocate: the worker moves to replacement nodes, which are in no rack.
Relocate(d) ==
    /\ racks[d] # {} /\ events < MaxEvents
    /\ events' = events + 1
    /\ racks' = [racks EXCEPT ![d] = {}]
    /\ UNCHANGED <<setting, hosted, dram, dramGb, flushing, arrived, down, waves, streams,
                   resident>>

\* set_available: a job arrives, or leaves.
SetAvailable(j) ==
    /\ events < MaxEvents
    /\ events' = events + 1
    /\ arrived' = IF j \in arrived THEN arrived \ {j} ELSE arrived \cup {j}
    /\ UNCHANGED <<setting, hosted, dram, dramGb, flushing, down, racks, waves, streams,
                   resident>>

RegistryInit ==
    /\ setting \in RegistrySettings
    /\ hosted = NoTake /\ dram = NoTake /\ dramGb = NoTake
    /\ flushing = {} /\ down = {}
    /\ arrived = Range(Job)
    /\ racks = IF setting.matching = "rack" THEN RacksOf ELSE [s \in Slot |-> {}]
    /\ waves = [s \in Slot |-> NoWave]
    /\ streams = {}
    /\ resident = [x \in Slot \X Slot |-> NoPiece]
    /\ events = 0

RegistryNext ==
    \/ \E s \in Slot : \/ FlushToDisk(s) \/ FlushToDram(s) \/ EndOnDisk(s) \/ AbortInDram(s)
                       \/ \E stale \in SUBSET Donors(waves[s].take) : LandInDram(s, stale)
                       \/ \E d \in Slot : LeaveDram(s, d)
                       \/ Fail(s) \/ Return(s) \/ Relocate(s)
    \/ \E j \in Range(Job) : SetAvailable(j)
    \/ StreamEnds

RegistrySpec == RegistryInit /\ [][RegistryNext]_registryVars

-----------------------------------------------------------------------------
(* Properties. *)

\* The pieces and bytes that waves have taken of a donor, and that streams hold.
InWaves(d) == Total([s \in Slot |-> waves[s].take[d]])
GbInWaves(d) == Total([s \in Slot |-> waves[s].take[d] * waves[s].gb])
InStreams(d) == Total([x \in streams |-> IF x.donor = d THEN x.pieces ELSE 0])

\* What is reserved is what the waves, the streams and the pieces in DRAM hold: a
\* reservation that fails in the middle, an aborted wave, a straggler, a piece that
\* grew after a partial grant, is superseded, demoted or lost, each gives back what it
\* took, once (release accounting stays exact, reserve, release_dram,
\* _book_dram_release).  And no donor is reserved beyond its room.
LedgerExact ==
    \A d \in Slot :
        /\ hosted[d] <= Capacity(d) /\ dram[d] <= DramHostSlots * Represents[d]
        /\ IF setting.tier = "ssd" THEN hosted[d] = InWaves(d) + InStreams(d)
           ELSE dram[d] = InWaves(d) + HeldBy(d) /\ dramGb[d] = GbInWaves(d) + BytesBy(d)

\* When a wave of a node reserves its donors: with rack anti-affinity no rack holds
\* two of its pieces or is one of the owner's unless the wave is flagged, and it is
\* flagged only when no such donors existed (for donors in one rack each); with
\* spread_jobs its pieces are in as many jobs as the eligible donors allow.
StripeIsSpread == [][
    LET take(s) == waves'[s].take
        Disjoint(s, D) == /\ \A d \in D : racks[d] \cap racks[s] = {}
                          /\ \A d, e \in D : d # e => racks[d] \cap racks[e] = {}
        able(s) == Eligible(HomeJob[s], setting.tier, PieceEstimate)
        Homes(D) == Cardinality({HomeJob[d] : d \in D})
    IN  \A s \in Slot : s \in flushing' \ flushing /\ Represents[s] = 1 =>
            /\ setting.matching = "rack" /\ ~waves'[s].flagged => Disjoint(s, Donors(take(s)))
            /\ setting.matching = "rack" /\ waves'[s].flagged
                   /\ (\A d \in Slot : Cardinality(racks[d]) <= 1)
               => ~\E D \in kSubset(Total(take(s)), able(s)) : Disjoint(s, D)
            /\ setting.matching = "spread"
               => Homes(Donors(take(s))) = Min({Total(take(s)), Homes(able(s))})]_registryVars
=============================================================================

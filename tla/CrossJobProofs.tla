--------------------------- MODULE CrossJobProofs ---------------------------
(***************************************************************************)
(* Proofs about CrossJob, for any donors, any number of pieces in a wave,  *)
(* any placement and backstop, any iterations and any failures; and about  *)
(* DonorRegistry, for any jobs, slots, matching and sizes.                 *)
(***************************************************************************)
EXTENDS CrossJob, DonorRegistry, DataLemmas

-----------------------------------------------------------------------------
(***************************************************************************)
(* The assumptions and the types, as the proofs use them.                  *)
(***************************************************************************)

\* The parts of the assumptions that the proofs rest on.
LEMMA Constants ==
  /\ K \in Nat /\ K >= 1 /\ DramSlots \in Nat /\ MaxIteration \in Nat /\ MaxFailures \in Nat
  /\ IsFiniteSet(Donor)
  BY CrossJobAssumption DEF CrossJobAssumption

\* None is not a value of the model.
LEMMA NoneDistinct ==
  None \notin Piece /\ None \notin Stored /\ None \notin Wave /\ None \notin Fetch
  BY NoneAssumption DEF NoneAssumption

\* The fields of a piece.
LEMMA PieceFields ==
  ASSUME NEW p \in Piece
  PROVE  /\ p.iteration \in Iteration /\ p.born \in Epoch /\ p.index \in Index
         /\ p.data \in 1 .. K /\ p.total \in 1 .. (K + 1) /\ p.tier \in {"ssd", "dram"}
         /\ p.iteration \in Int /\ p.iteration >= 1 /\ p.iteration <= MaxIteration
  BY Constants DEF Piece, Iteration

\* The parameters of a run.
LEMMA ParametersTyped ==
  ASSUME TypeOK
  PROVE  /\ placement \in {"ssd", "dram"} /\ backstop \in {"donor_drain", "parity", "parity_cutoff"}
         /\ available \subseteq Donor
  BY CrossJobAssumption DEF CrossJobAssumption, TypeOK

\* The types of the variables of the owner, of its flush, of what the donors
\* hold and of what goes on in the background.
OwnerTyped ==
  /\ iteration \in 0..MaxIteration /\ epoch \in Epoch
  /\ owner \in {"up", "down", "fetching"}
  /\ restore \in Fetch \cup {None} /\ (owner = "fetching" <=> restore # None)
  /\ local \in [{"dram", "ssd"} -> 0..MaxIteration]
  /\ lastFlush \in 0..MaxIteration
  /\ failed \subseteq Donor /\ failures \in 0..MaxFailures
  /\ beganAt \in [Epoch -> 0..MaxIteration]
FlushTyped ==
  /\ captures \in Seq(Wave) /\ queue \in Seq(Wave)
  /\ flush \in {"free", "slot", "local", "stripe", "parity"}
  /\ wave \in Wave \cup {None} /\ (flush = "free" <=> wave = None)
  /\ granted \in Seq(Donor) /\ aborted \in BOOLEAN
HeldTyped ==
  /\ stragglers \subseteq [donor : Donor, piece : Piece, watched : SUBSET Donor,
                           aborted : BOOLEAN]
  /\ pieces \in [Donor -> Piece \cup {None}] /\ shadow \in [Donor -> Piece \cup {None}]
  /\ dramHosted \in [Donor -> 0..DramSlots]
DrainRecord == [iteration : Iteration, born : Epoch, epoch : Epoch,
                pieces : SUBSET (Donor \X Index), total : 1..K, data : 1..K,
                live : SUBSET Donor, moving : BOOLEAN, aborted : BOOLEAN]
BackgroundTyped ==
  /\ demotions \subseteq Donor \X Piece /\ chains \subseteq SUBSET (Donor \X Piece)
  /\ drains \subseteq DrainRecord
  /\ l3 \in [0..(K - 1) -> Stored \cup {None}]
  /\ \A i \in DOMAIN l3 : l3[i] # None => l3[i].index = i

\* The type invariant, part by part.
LEMMA TypeParts ==
  TypeOK <=> /\ <<placement, backstop, Cardinality(available)>> \in Settings
             /\ available \subseteq Donor
             /\ OwnerTyped /\ FlushTyped /\ HeldTyped /\ BackgroundTyped
  BY DEF TypeOK, OwnerTyped, FlushTyped, HeldTyped, BackgroundTyped, DrainRecord

-----------------------------------------------------------------------------
(***************************************************************************)
(* What the operators of the model do.                                     *)
(***************************************************************************)

\* The least of two naturals.
LEMMA MinOfTwo ==
  ASSUME NEW a \in Nat, NEW b \in Nat
  PROVE  Min({a, b}) = IF a <= b THEN a ELSE b
  <1>1. {a, b} \subseteq Nat /\ {a, b} # {}
    OBVIOUS
  <1>2. Min({a, b}) \in {a, b} /\ \A y \in {a, b} : Min({a, b}) <= y
    BY <1>1, MinOfNat
  <1> QED
    BY <1>2

\* The greatest of two naturals.
LEMMA MaxOfTwo ==
  ASSUME NEW a \in Nat, NEW b \in Nat
  PROVE  Max({a, b}) = IF a <= b THEN b ELSE a
  <1> DEFINE n == IF a <= b THEN b ELSE a
  <1>1. {a, b} \subseteq Int /\ {a, b} # {} /\ n \in Int /\ \A y \in {a, b} : y <= n
    OBVIOUS
  <1> HIDE DEF n
  <1>2. Max({a, b}) \in {a, b} /\ \A y \in {a, b} : Max({a, b}) >= y
    BY <1>1, MaxOfBounded
  <1> QED
    BY <1>2

\* The newest of a set of iterations, or 0.
LEMMA NewestOf ==
  ASSUME NEW its, its \subseteq 0 .. MaxIteration
  PROVE  /\ Newest(its) \in 0 .. MaxIteration /\ Newest(its) \in its \cup {0}
         /\ \A x \in its : x <= Newest(its)
  <1> DEFINE T == its \cup {0}
  <1>1. T \subseteq Int /\ T # {} /\ MaxIteration \in Int /\ \A y \in T : y <= MaxIteration
    BY Constants
  <1>2. T \subseteq 0 .. MaxIteration
    BY Constants
  <1>3. Newest(its) = Max(T)
    BY DEF Newest
  <1> HIDE DEF T
  <1>4. Max(T) \in T /\ \A y \in T : Max(T) >= y
    BY <1>1, MaxOfBounded
  <1>5. \A x \in its : x <= Max(T)
    <2> TAKE x \in its
    <2>1. Max(T) >= x /\ x \in Int /\ Max(T) \in Int
      BY <1>1, <1>4, <1>2 DEF T
    <2> QED
      BY <2>1
  <1> QED
    BY <1>2, <1>3, <1>4, <1>5 DEF T

\* A piece is of the placement's tier and is one of the donor's records.
LEMMA HeldFields ==
  ASSUME HeldTyped, NEW d \in Donor
  PROVE  /\ pieces[d] # None => pieces[d] \in Piece /\ pieces[d].iteration \in Int
         /\ shadow[d] # None => shadow[d] \in Piece /\ shadow[d].iteration \in Int
         /\ dramHosted[d] \in 0 .. DramSlots
  BY PieceFields DEF HeldTyped

\* What a rollback to iteration i leaves of the donors' records: no piece newer
\* than i; a piece that goes from a donor's DRAM uncovers the file below it.
LEMMA DiscardHeld ==
  ASSUME HeldTyped, ShadowUnderDram, NEW i \in 0 .. MaxIteration
  PROVE  /\ PiecesKept(i) \in [Donor -> Piece \cup {None}]
         /\ ShadowKept(i) \in [Donor -> Piece \cup {None}]
         /\ \A d \in Donor :
              /\ PiecesKept(i)[d] # None =>
                   /\ PiecesKept(i)[d].iteration <= i
                   /\ PiecesKept(i)[d] = pieces[d] \/ PiecesKept(i)[d] = shadow[d]
              /\ ShadowKept(i)[d] # None =>
                   /\ ShadowKept(i)[d].iteration <= i
                   /\ ShadowKept(i)[d] = shadow[d] /\ PiecesKept(i)[d] = pieces[d]
              /\ PiecesKept(i)[d] # None /\ PiecesKept(i)[d].tier = "dram" =>
                   PiecesKept(i)[d] = pieces[d] /\ ~After(pieces[d], i)
              /\ InDram(d) /\ ~After(pieces[d], i) => PiecesKept(i)[d] = pieces[d]
  <1>1. \A d \in Donor : /\ pieces[d] # None => pieces[d] \in Piece /\ pieces[d].iteration \in Int
                         /\ shadow[d] # None => shadow[d] \in Piece /\ shadow[d].iteration \in Int
                         /\ pieces[d] \in Piece \cup {None} /\ shadow[d] \in Piece \cup {None}
    BY HeldFields DEF HeldTyped
  <1>2. PiecesKept(i) \in [Donor -> Piece \cup {None}]
    BY <1>1 DEF PiecesKept
  <1>3. ShadowKept(i) \in [Donor -> Piece \cup {None}]
    BY <1>1 DEF ShadowKept
  <1>4. ASSUME NEW d \in Donor, PiecesKept(i)[d] # None
        PROVE  /\ PiecesKept(i)[d].iteration <= i
               /\ PiecesKept(i)[d] = pieces[d] \/ PiecesKept(i)[d] = shadow[d]
    BY <1>1, <1>4, Constants DEF PiecesKept, After
  <1>5. ASSUME NEW d \in Donor, ShadowKept(i)[d] # None
        PROVE  /\ ShadowKept(i)[d].iteration <= i
               /\ ShadowKept(i)[d] = shadow[d] /\ PiecesKept(i)[d] = pieces[d]
    BY <1>1, <1>5, Constants DEF ShadowKept, PiecesKept, After
  <1>6. ASSUME NEW d \in Donor, PiecesKept(i)[d] # None, PiecesKept(i)[d].tier = "dram"
        PROVE  PiecesKept(i)[d] = pieces[d] /\ ~After(pieces[d], i)
    <2>1. shadow[d] # None => shadow[d].tier = "ssd"
      BY DEF ShadowUnderDram
    <2> QED
      BY <1>6, <2>1 DEF PiecesKept
  <1>7. \A d \in Donor : InDram(d) /\ ~After(pieces[d], i) => PiecesKept(i)[d] = pieces[d]
    BY DEF PiecesKept
  <1> QED
    BY <1>2, <1>3, <1>4, <1>5, <1>6, <1>7

\* A rollback leaves a file apart only below a newer piece, and gives back the
\* buffer of every piece in DRAM that goes, whatever else is reserved.
LEMMA DiscardLedger ==
  ASSUME HeldTyped, ShadowUnderDram, NEW i \in 0 .. MaxIteration,
         NEW buffers \in [Donor -> Nat], NEW more \in [Donor -> Nat], NEW copies,
         \A d \in Donor : buffers[d] = (IF InDram(d) THEN 1 ELSE 0) + more[d],
         Discard(i, buffers, copies)
  PROVE  /\ ShadowUnderDram'
         /\ dramHosted' \in [Donor -> Nat]
         /\ \A d \in Donor : /\ dramHosted'[d] = (IF InDram(d)' THEN 1 ELSE 0) + more[d]
                             /\ dramHosted'[d] <= buffers[d]
  <1>1. pieces' = PiecesKept(i) /\ shadow' = ShadowKept(i)
    BY DEF Discard
  <1>2. \A d \in Donor :
          /\ ShadowKept(i)[d] # None => ShadowKept(i)[d] = shadow[d] /\ PiecesKept(i)[d] = pieces[d]
          /\ PiecesKept(i)[d] # None /\ PiecesKept(i)[d].tier = "dram" =>
               PiecesKept(i)[d] = pieces[d] /\ ~After(pieces[d], i)
          /\ InDram(d) /\ ~After(pieces[d], i) => PiecesKept(i)[d] = pieces[d]
    BY DiscardHeld
  <1>3. ShadowUnderDram'
    BY <1>1, <1>2 DEF ShadowUnderDram, InDram
  <1>4. dramHosted' = Released(buffers, {d \in Donor : InDram(d) /\ After(pieces[d], i)})
    BY DEF Discard
  <1>5. \A d \in Donor : InDram(d)' <=> InDram(d) /\ ~After(pieces[d], i)
    BY <1>1, <1>2 DEF InDram
  <1>6. ASSUME NEW d \in Donor
        PROVE  /\ dramHosted'[d] = (IF InDram(d)' THEN 1 ELSE 0) + more[d]
               /\ dramHosted'[d] <= buffers[d]
    <2>1. buffers[d] = (IF InDram(d) THEN 1 ELSE 0) + more[d] /\ more[d] \in Nat
      OBVIOUS
    <2>2. CASE InDram(d) /\ After(pieces[d], i)
      BY <1>4, <1>5, <2>1, <2>2 DEF Released
    <2>3. CASE ~(InDram(d) /\ After(pieces[d], i))
      BY <1>4, <1>5, <2>1, <2>3 DEF Released
    <2> QED
      BY <2>2, <2>3
  <1>7. dramHosted' \in [Donor -> Nat]
    BY <1>4 DEF Released
  <1> QED
    BY <1>3, <1>6, <1>7

\* What it leaves of the store, of the owner's copies and of the last flush.
LEMMA DiscardOwn ==
  ASSUME BackgroundTyped, lastFlush \in 0 .. MaxIteration, NEW i \in 0 .. MaxIteration,
         NEW buffers, NEW copies \in [{"dram", "ssd"} -> 0 .. MaxIteration],
         Discard(i, buffers, copies)
  PROVE  /\ lastFlush' \in 0 .. MaxIteration /\ lastFlush' <= i /\ lastFlush' <= lastFlush
         /\ lastFlush <= i => lastFlush' = lastFlush
         /\ local' \in [{"dram", "ssd"} -> 0 .. MaxIteration]
         /\ l3' \in [0..(K - 1) -> Stored \cup {None}]
         /\ \A x \in DOMAIN l3 : /\ l3'[x] # None => l3'[x] = l3[x] /\ l3[x].iteration <= i
  <1>1. lastFlush' = Min({lastFlush, i}) /\ lastFlush \in Nat /\ i \in Nat
    BY Constants DEF Discard
  <1>2. Min({lastFlush, i}) = IF lastFlush <= i THEN lastFlush ELSE i
    BY <1>1, MinOfTwo
  <1>3. local' \in [{"dram", "ssd"} -> 0 .. MaxIteration]
    BY Constants DEF Discard
  <1>4. DOMAIN l3 = 0..(K - 1) /\ \A x \in 0..(K - 1) : l3[x] \in Stored \cup {None}
    BY DEF BackgroundTyped
  <1>5. \A x \in 0..(K - 1) : l3[x] # None => l3[x].iteration \in Int
    BY <1>4 DEF Stored, Iteration
  <1>6. l3' = [x \in DOMAIN l3 |-> IF After(l3[x], i) THEN None ELSE l3[x]]
    BY DEF Discard
  <1>7. l3' \in [0..(K - 1) -> Stored \cup {None}]
    BY <1>4, <1>6
  <1>8. ASSUME NEW x \in DOMAIN l3, l3'[x] # None PROVE l3'[x] = l3[x] /\ l3[x].iteration <= i
    BY <1>1, <1>4, <1>5, <1>6, <1>8 DEF After
  <1> QED
    BY <1>1, <1>2, <1>3, <1>7, <1>8

\* The donors of a wave are numbered without repetition.
LEMMA IndexOfDonor ==
  ASSUME granted \in Seq(Donor), \A i, j \in DOMAIN granted : granted[i] = granted[j] => i = j
  PROVE  /\ \A d \in GrantedTo : /\ d \in Donor /\ IndexOf(d) \in 0 .. (Len(granted) - 1)
                                 /\ granted[IndexOf(d) + 1] = d
         /\ \A d, e \in GrantedTo : IndexOf(d) = IndexOf(e) => d = e
         /\ IsFiniteSet(GrantedTo) /\ Cardinality(GrantedTo) = Len(granted)
  <1>1. DOMAIN granted = 1 .. Len(granted) /\ Len(granted) \in Nat
    OBVIOUS
  <1>2. ASSUME NEW d \in GrantedTo
        PROVE  d \in Donor /\ IndexOf(d) \in 0 .. (Len(granted) - 1) /\ granted[IndexOf(d) + 1] = d
    <2> DEFINE n == CHOOSE i \in DOMAIN granted : granted[i] = d
    <2>1. \E i \in DOMAIN granted : granted[i] = d
      BY DEF GrantedTo
    <2>2. n \in DOMAIN granted /\ granted[n] = d
      BY <2>1
    <2>3. IndexOf(d) = n - 1
      BY DEF IndexOf
    <2> HIDE DEF n
    <2>4. IndexOf(d) + 1 = n /\ IndexOf(d) \in 0 .. (Len(granted) - 1)
      BY <1>1, <2>2, <2>3
    <2> QED
      BY <1>1, <2>2, <2>4
  <1>3. \A d, e \in GrantedTo : IndexOf(d) = IndexOf(e) => d = e
    BY <1>2
  <1>4. IsFiniteSet(GrantedTo) /\ Cardinality(GrantedTo) = Len(granted)
    <2>1. granted \in Bijection(1 .. Len(granted), GrantedTo)
      <3>1. granted \in [1 .. Len(granted) -> GrantedTo]
        BY <1>1 DEF GrantedTo
      <3>2. \A a, b \in 1 .. Len(granted) : granted[a] = granted[b] => a = b
        BY <1>1
      <3>3. \A t \in GrantedTo : \E s \in 1 .. Len(granted) : granted[s] = t
        BY <1>1 DEF GrantedTo
      <3> QED
        BY <3>1, <3>2, <3>3 DEF Bijection, Injection, Surjection, IsInjective
    <2>2. IsFiniteSet(1 .. Len(granted)) /\ Cardinality(1 .. Len(granted)) = Len(granted)
      BY <1>1, FS_Interval
    <2> QED
      BY <2>1, <2>2, FS_Bijection DEF ExistsBijection
  <1> QED
    BY <1>2, <1>3, <1>4

\* A piece that a wave registers is one, of that wave.
LEMMA PieceOfWave ==
  ASSUME TypeOK, WaveMoves, flush \in {"stripe", "parity"}, NEW d \in GrantedTo
  PROVE  /\ PieceOf(d) \in Piece /\ d \in Donor
         /\ PieceOf(d).iteration = wave[1] /\ PieceOf(d).born = wave[2]
         /\ PieceOf(d).index = IndexOf(d) /\ PieceOf(d).tier = placement
         /\ PieceOf(d).data = IF flush = "parity" THEN K ELSE Len(granted)
         /\ PieceOf(d).data <= PieceOf(d).total
         /\ wave \in Wave /\ Len(granted) \in 1 .. (K + 1)
  <1>1. K \in Nat /\ K >= 1 /\ placement \in {"ssd", "dram"}
    BY Constants, ParametersTyped
  <1>2. granted \in Seq(Donor) /\ wave \in Wave /\ Len(granted) \in Nat
    BY DEF TypeOK
  <1>3. /\ flush = "stripe" => Len(granted) \in 1..K
        /\ flush = "parity" => Len(granted) = K + 1
    BY DEF WaveMoves
  <1>4. d \in Donor /\ IndexOf(d) \in 0 .. (Len(granted) - 1)
    BY <1>2, IndexOfDonor DEF WaveMoves
  <1>5. wave[1] \in Iteration /\ wave[2] \in Epoch
    BY <1>2 DEF Wave
  <1> DEFINE data == IF flush = "parity" THEN K ELSE Len(granted)
  <1>6. data \in 1 .. K /\ data <= Len(granted) /\ Len(granted) \in 1 .. (K + 1)
        /\ IndexOf(d) \in Index
    BY <1>1, <1>3, <1>4 DEF Index
  <1>7. PieceOf(d) = [iteration |-> wave[1], born |-> wave[2], index |-> IndexOf(d),
                      data |-> data, total |-> Len(granted), tier |-> placement]
    BY DEF PieceOf
  <1> HIDE DEF data
  <1>8. PieceOf(d) \in Piece
    BY <1>1, <1>5, <1>6, <1>7 DEF Piece
  <1> QED
    BY <1>2, <1>4, <1>6, <1>7, <1>8 DEF data

\* The donors that a wave reserves.
LEMMA ReserveGrants ==
  ASSUME TypeOK, Reserve
  PROVE  /\ granted' \in Seq(Donor) /\ (\E n \in Nat : granted' \in [1 .. n -> Able])
         /\ \A i, j \in DOMAIN granted' : granted'[i] = granted'[j] => i = j
         /\ flush' \in {"local", "stripe", "parity"}
         /\ flush' = "local" => DOMAIN granted' = {}
         /\ flush' = "stripe" => Len(granted') \in 1..K
         /\ flush' = "parity" => Len(granted') = K + 1 /\ placement = "ssd"
  <1>1. PICK willing \in SUBSET Able :
          LET parity == /\ placement = "ssd" /\ backstop \in {"parity", "parity_cutoff"}
                        /\ Cardinality(willing) > K
              n == IF parity THEN K + 1 ELSE Min({K, Cardinality(willing)})
          IN  /\ granted' \in Stripes(willing, n)
              /\ flush' = IF n = 0 THEN "local" ELSE IF parity THEN "parity" ELSE "stripe"
    BY DEF Reserve
  <1> DEFINE parity == /\ placement = "ssd" /\ backstop \in {"parity", "parity_cutoff"}
                       /\ Cardinality(willing) > K
             n == IF parity THEN K + 1 ELSE Min({K, Cardinality(willing)})
  <1>2. granted' \in Stripes(willing, n)
        /\ flush' = IF n = 0 THEN "local" ELSE IF parity THEN "parity" ELSE "stripe"
    BY <1>1, Zenon
  <1>3. K \in Nat /\ K >= 1 /\ Cardinality(willing) \in Nat /\ Able \subseteq Donor
    <2>1. Able \subseteq Donor
      BY ParametersTyped DEF Able
    <2>2. IsFiniteSet(willing)
      BY <2>1, Constants, FS_Subset
    <2> QED
      BY <2>1, <2>2, Constants, FS_CardinalityType
  <1>4. n \in Nat /\ n <= K + 1 /\ (~parity => n <= K) /\ (parity => n = K + 1)
    <2>1. Min({K, Cardinality(willing)}) = IF K <= Cardinality(willing) THEN K ELSE Cardinality(willing)
      BY <1>3, MinOfTwo
    <2> QED
      BY <1>3, <2>1
  <1>5. parity => placement = "ssd"
    OBVIOUS
  <1> HIDE DEF parity, n
  <1>6. granted' \in [1 .. n -> willing]
        /\ \A i, j \in 1 .. n : granted'[i] = granted'[j] => i = j
    BY <1>2 DEF Stripes
  <1>7. granted' \in [1 .. n -> Able] /\ granted' \in Seq(Donor)
        /\ Len(granted') = n /\ DOMAIN granted' = 1 .. n
    BY <1>3, <1>4, <1>6
  <1>8. flush' = "local" => n = 0
    BY <1>2
  <1> QED
    BY <1>2, <1>3, <1>4, <1>5, <1>6, <1>7, <1>8

\* What recover() takes is a source of an iteration of the run.
LEMMA ChosenTyped ==
  ASSUME TypeOK PROVE Chosen \in Fetch
  <1>1. Iteration \subseteq 0 .. MaxIteration
    BY Constants DEF Iteration
  <1>2. PeerSet \in 0 .. MaxIteration
    BY <1>1, NewestOf DEF PeerSet
  <1>3. ParitySet \in 0 .. MaxIteration
    BY <1>1, NewestOf DEF ParitySet
  <1>4. StitchSet \in 0 .. MaxIteration
    BY <1>1, NewestOf DEF StitchSet
  <1>5. LocalCopy \in 0 .. MaxIteration
    <2>1. {local.dram, local.ssd} \subseteq 0 .. MaxIteration
      BY DEF TypeOK
    <2> QED
      BY <2>1, NewestOf DEF LocalCopy
  <1>6. \A x : Alive(x) \subseteq Donor
    BY DEF Alive, On
  <1>7. UNION {AtPeer(StitchSet, i) : i \in Wanted(StitchSet)} \subseteq Donor
    BY <1>6 DEF AtPeer
  <1> DEFINE watched == UNION {AtPeer(StitchSet, i) : i \in Wanted(StitchSet)}
  <1>8. \A from \in {"parity", "stitch", "peer", "local"}, x \in 0 .. MaxIteration, w \in SUBSET Donor :
          Source(from, x, w) \in Fetch
    BY DEF Source, Fetch
  <1>9. Chosen \in {Source("parity", ParitySet, Alive(ParitySet)), Source("stitch", StitchSet, watched),
                    Source("peer", PeerSet, {}), Source("local", LocalCopy, {})}
    BY Zenon DEF Chosen
  <1> HIDE DEF watched
  <1>10. watched \in SUBSET Donor /\ {} \in SUBSET Donor /\ Alive(ParitySet) \in SUBSET Donor
    BY <1>6, <1>7 DEF watched
  <1> QED
    BY <1>2, <1>3, <1>4, <1>5, <1>8, <1>9, <1>10

\* The image of a finite set is finite, and no larger.
LEMMA ImageOf ==
  ASSUME NEW S, IsFiniteSet(S), NEW T, NEW f \in [S -> T], \A t \in T : \E s \in S : f[s] = t
  PROVE  /\ IsFiniteSet(T) /\ Cardinality(T) <= Cardinality(S)
         /\ (\A x, y \in S : f[x] = f[y] => x = y) => Cardinality(T) = Cardinality(S)
  <1>1. f \in Surjection(S, T)
    BY DEF Surjection
  <1>2. (\A x, y \in S : f[x] = f[y] => x = y) => f \in Injection(S, T)
    BY DEF Injection, IsInjective
  <1> QED
    BY <1>1, <1>2, FS_Surjection

\* What a wave drains.
LEMMA DrainedTyped ==
  ASSUME epoch \in Epoch, NEW it \in Iteration, NEW born \in Epoch, NEW info, NEW data \in 1..K,
         info \subseteq Donor \X Index, IsFiniteSet(info), Cardinality(info) <= K,
         NEW started \in Drained(it, born, info, data)
  PROVE  /\ started \subseteq DrainRecord
         /\ \A w \in started : /\ w.iteration = it /\ w.born = born /\ w.epoch = epoch /\ ~(it > iteration)
                               /\ w.total = Cardinality(info) /\ w.data = data
  <1>1. CASE started = {}
    BY <1>1
  <1>2. CASE started # {}
    <2> DEFINE w == [iteration |-> it, born |-> born, epoch |-> epoch, pieces |-> info,
                     total |-> Cardinality(info), data |-> data,
                     live |-> {}, moving |-> FALSE, aborted |-> FALSE]
    <2>1. started = {w} /\ info # {} /\ ~(it > iteration)
      BY <1>2 DEF Drained
    <2>2. Cardinality(info) \in 1 .. K
      <3>1. Cardinality(info) \in Nat /\ Cardinality(info) # 0
        BY <2>1, FS_CardinalityType, FS_EmptySet
      <3> QED
        BY <3>1, Constants
    <2>3. w \in DrainRecord
      BY <2>2 DEF DrainRecord
    <2>4. w.iteration = it /\ w.born = born /\ w.epoch = epoch /\ w.total = Cardinality(info) /\ w.data = data
      OBVIOUS
    <2> HIDE DEF w
    <2> QED
      BY <2>1, <2>3, <2>4
  <1> QED
    BY <1>1, <1>2

-----------------------------------------------------------------------------
(***************************************************************************)
(* Each conjunct of the inductive invariant is preserved by every step.    *)
(***************************************************************************)

\* The parameters of a run stay what they are.
LEMMA ParametersStep ==
  ASSUME [Next]_vars PROVE UNCHANGED <<placement, backstop, available>>
  <1> USE DEF parameters
  <1>1. CASE Train \/ FlushStep
    BY <1>1 DEF Train, FlushStep, Capture, TakeLock, Reserve, LeaveSlot, AbortWave, LandLocally,
                LandStripe, LandParity
  <1>2. CASE BackgroundStep
    BY <1>2 DEF BackgroundStep, SettleStraggler, Demote, StartChain, StartDrain, FinishDrain
  <1>3. CASE OwnerFails \/ RecoveryStep \/ DonorFails \/ DonorReturns
    BY <1>3 DEF OwnerFails, RecoveryStep, StartRecovery, FinishRecovery, DonorFails, DonorReturns
  <1>4. CASE UNCHANGED vars
    BY <1>4 DEF vars
  <1> QED
    BY <1>1, <1>2, <1>3, <1>4 DEF Next

\* The owner's clock, epoch, copies and failures keep their types.
LEMMA OwnerTypeStep ==
  ASSUME Inductive, [Next]_vars PROVE OwnerTyped'
  <1>1. /\ OwnerTyped /\ FlushTyped /\ HeldTyped /\ BackgroundTyped /\ ShadowUnderDram
        /\ MaxIteration \in Nat /\ MaxFailures \in Nat /\ epoch <= failures
    BY TypeParts, Constants DEF Inductive, EpochsBegin
  <1>2. None \notin Fetch
    BY NoneDistinct
  <1>3. \A q \in {captures, queue} : q # <<>> => Head(q)[1] \in Iteration /\ Head(q)[2] \in Epoch
    BY <1>1 DEF FlushTyped, Wave
  <1>4. Iteration \subseteq 0 .. MaxIteration
    BY <1>1 DEF Iteration
  <1>5. \A a, b \in 0 .. MaxIteration : Max({a, b}) \in 0 .. MaxIteration
    BY <1>1, MaxOfTwo
  <1> USE DEF ownerVars, parameters
  <1>6. CASE UNCHANGED <<ownerVars, local, lastFlush, failed, failures>>
    BY <1>1, <1>6 DEF OwnerTyped
  <1>7. CASE Train
    BY <1>1, <1>7 DEF OwnerTyped, Train
  <1>8. CASE Capture
    <2>1. local' = local \/ \E i \in Iteration : local' = [local EXCEPT !["dram"] = Max({local["dram"], i})]
      BY <1>3, <1>8 DEF Capture
    <2>2. local' \in [{"dram", "ssd"} -> 0..MaxIteration]
      BY <1>1, <1>4, <1>5, <2>1 DEF OwnerTyped
    <2> QED
      BY <1>1, <1>8, <2>2 DEF OwnerTyped, Capture
  <1>9. CASE TakeLock
    BY <1>1, <1>3, <1>4, <1>9 DEF OwnerTyped, TakeLock
  <1>10. CASE Reserve \/ LeaveSlot
    BY <1>6, <1>10 DEF Reserve, LeaveSlot
  <1>11. CASE AbortWave
    <2>1. lastFlush' \in 0..MaxIteration /\ local' \in [{"dram", "ssd"} -> 0..MaxIteration]
      <3>1. lastFlush \in 0..MaxIteration /\ iteration \in 0..MaxIteration
            /\ local \in [{"dram", "ssd"} -> 0..MaxIteration]
        BY <1>1 DEF OwnerTyped
      <3>2. UNCHANGED <<lastFlush, local>> \/ \E buffers : Discard(iteration, buffers, local)
        BY <1>11, Zenon DEF AbortWave
      <3> QED
        BY <1>1, <3>1, <3>2, DiscardOwn
    <2> QED
      BY <1>1, <1>11, <2>1 DEF OwnerTyped, AbortWave
  <1>12. CASE LandLocally
    <2>1. wave[1] \in 0..MaxIteration
      BY <1>1, <1>4, <1>12 DEF LandLocally, FlushTyped, Wave
    <2>2. local' = [local EXCEPT !["ssd"] = Max({local["ssd"], wave[1]})]
      BY <1>12 DEF LandLocally
    <2>3. local' \in [{"dram", "ssd"} -> 0..MaxIteration]
      BY <1>1, <1>5, <2>1, <2>2 DEF OwnerTyped
    <2> QED
      BY <1>1, <1>12, <2>3 DEF OwnerTyped, LandLocally
  <1>13. CASE LandStripe \/ LandParity
    BY <1>6, <1>13 DEF LandStripe, LandParity
  <1>14. CASE BackgroundStep
    BY <1>6, <1>14 DEF BackgroundStep, SettleStraggler, Demote, StartChain, StartDrain, FinishDrain
  <1>15. CASE OwnerFails
    <2>1. epoch + 1 \in Epoch /\ failures + 1 \in 0..MaxFailures
      BY <1>1, <1>15 DEF OwnerFails, OwnerTyped, Epoch
    <2>2. local' \in [{"dram", "ssd"} -> 0..MaxIteration]
      BY <1>1, <1>15 DEF OwnerFails, OwnerTyped
    <2> QED
      BY <1>1, <1>15, <2>1, <2>2 DEF OwnerFails, OwnerTyped
  <1>16. CASE StartRecovery
    <2>1. restore' \in Fetch
      BY <1>16, ChosenTyped DEF StartRecovery, Inductive
    <2>2. lastFlush' \in 0..MaxIteration /\ local' \in [{"dram", "ssd"} -> 0..MaxIteration]
      <3>1. lastFlush \in 0..MaxIteration /\ iteration \in 0..MaxIteration
            /\ local \in [{"dram", "ssd"} -> 0..MaxIteration]
        BY <1>1 DEF OwnerTyped
      <3>2. Discard(iteration, dramHosted, local)
        BY <1>16 DEF StartRecovery
      <3> QED
        BY <1>1, <3>1, <3>2, DiscardOwn
    <2> QED
      BY <1>1, <1>2, <1>16, <2>1, <2>2 DEF StartRecovery, OwnerTyped
  <1>17. CASE FinishRecovery
    <2> DEFINE resumed == IF restore.aborted THEN 0 ELSE restore.iteration
               copies == [local EXCEPT !["dram"] = Max({local["dram"], resumed})]
    <2>1. resumed \in 0..MaxIteration
      <3>1. restore \in Fetch
        BY <1>1, <1>17 DEF FinishRecovery, OwnerTyped
      <3> QED
        BY <1>1, <3>1 DEF Fetch
    <2>2. iteration' = resumed /\ beganAt' = [beganAt EXCEPT ![epoch] = resumed]
          /\ owner' = "up" /\ restore' = None
          /\ UNCHANGED <<epoch, failed, failures>>
          /\ Discard(resumed, dramHosted, copies)
      BY <1>17 DEF FinishRecovery
    <2> HIDE DEF resumed
    <2>3. copies \in [{"dram", "ssd"} -> 0..MaxIteration]
      BY <1>1, <1>5, <2>1 DEF OwnerTyped
    <2> HIDE DEF copies
    <2>4. lastFlush' \in 0..MaxIteration /\ local' \in [{"dram", "ssd"} -> 0..MaxIteration]
      <3>1. lastFlush \in 0..MaxIteration
        BY <1>1 DEF OwnerTyped
      <3> QED
        BY <1>1, <2>1, <2>2, <2>3, <3>1, DiscardOwn
    <2> QED
      BY <1>1, <2>1, <2>2, <2>4 DEF OwnerTyped
  <1>18. CASE DonorFails
    <2>1. /\ UNCHANGED <<iteration, epoch, owner, local, lastFlush, beganAt>>
          /\ failures' = failures + 1 /\ failures < MaxFailures
      BY <1>18 DEF DonorFails
    <2>2. PICK d \in available \ failed : failed' = failed \cup {d} /\ AbortWatching(d)
      BY <1>18 DEF DonorFails
    <2>3. restore' = restore \/ (restore # None /\ restore' = [restore EXCEPT !.aborted = TRUE])
      BY <2>2 DEF AbortWatching
    <2>4. restore' \in Fetch \cup {None} /\ (restore # None <=> restore' # None)
      <3>1. ASSUME restore \in Fetch PROVE [restore EXCEPT !.aborted = TRUE] \in Fetch
        BY <3>1 DEF Fetch
      <3> QED
        BY <1>1, <1>2, <2>3, <3>1 DEF OwnerTyped
    <2>5. failed' \subseteq Donor /\ failures' \in 0..MaxFailures
      BY <1>1, <2>1, <2>2, ParametersTyped DEF OwnerTyped, Inductive
    <2> QED
      BY <1>1, <2>1, <2>4, <2>5 DEF OwnerTyped
  <1>19. CASE DonorReturns
    BY <1>1, <1>19 DEF OwnerTyped, DonorReturns
  <1>20. CASE UNCHANGED vars
    BY <1>6, <1>20 DEF vars
  <1> QED
    BY <1>7, <1>8, <1>9, <1>10, <1>11, <1>12, <1>13, <1>14, <1>15, <1>16, <1>17, <1>18, <1>19, <1>20,
       Zenon DEF Next, FlushStep, RecoveryStep

\* The queues and the wave keep their types.
LEMMA FlushTypeStep ==
  ASSUME Inductive, [Next]_vars PROVE FlushTyped'
  <1>1. FlushTyped /\ OwnerTyped /\ MaxIteration \in Nat /\ None \notin Wave
    BY TypeParts, Constants, NoneDistinct DEF Inductive
  <1>2. \A q \in Seq(Wave) : q # <<>> => Tail(q) \in Seq(Wave) /\ Head(q) \in Wave
    OBVIOUS
  <1>3. FreeLock => flush' = "free" /\ wave' = None /\ granted' \in Seq(Donor) /\ aborted' \in BOOLEAN
    <2>1. <<>> \in Seq(Donor) /\ FALSE \in BOOLEAN
      OBVIOUS
    <2> QED
      BY <2>1, Zenon DEF FreeLock
  <1> USE DEF flushVars
  <1>4. CASE UNCHANGED flushVars
    BY <1>1, <1>4 DEF FlushTyped
  <1>5. CASE Train
    <2>1. <<iteration + 1, epoch>> \in Wave
      BY <1>1, <1>5 DEF Train, OwnerTyped, Wave, Iteration
    <2> QED
      BY <1>1, <1>5, <2>1 DEF FlushTyped, Train
  <1>6. CASE Capture
    <2>1. queue' = queue \/ queue' = Append(queue, Head(captures))
      BY <1>6 DEF Capture
    <2>2. captures \in Seq(Wave) /\ queue \in Seq(Wave)
      BY <1>1 DEF FlushTyped
    <2>3. captures # <<>> /\ captures' = Tail(captures) /\ UNCHANGED <<flush, wave, granted, aborted>>
      BY <1>6 DEF Capture
    <2>4. captures' \in Seq(Wave) /\ Head(captures) \in Wave
      BY <1>2, <2>2, <2>3
    <2>5. queue' \in Seq(Wave)
      <3>1. \A q \in Seq(Wave), w \in Wave : Append(q, w) \in Seq(Wave)
        OBVIOUS
      <3> QED
        BY <2>1, <2>2, <2>4, <3>1, Zenon
    <2> QED
      BY <1>1, <2>3, <2>4, <2>5, Zenon DEF FlushTyped
  <1>7. CASE TakeLock
    <2>1. (flush' = "free" /\ wave' = None) \/ (flush' = "slot" /\ wave' \in Wave)
      BY <1>1, <1>2, <1>7 DEF TakeLock, FlushTyped
    <2>2. queue' \in Seq(Wave) /\ UNCHANGED <<captures, granted, aborted>>
      BY <1>1, <1>2, <1>7 DEF TakeLock, FlushTyped
    <2> QED
      BY <1>1, <2>1, <2>2 DEF FlushTyped
  <1>8. CASE Reserve
    <2>1. granted' \in Seq(Donor) /\ flush' \in {"local", "stripe", "parity"}
      BY <1>8, ReserveGrants DEF Inductive
    <2>2. UNCHANGED <<captures, queue, wave, aborted>> /\ flush = "slot"
      BY <1>8 DEF Reserve
    <2> QED
      BY <1>1, <2>1, <2>2 DEF FlushTyped
  <1>9. CASE LeaveSlot \/ AbortWave \/ LandLocally \/ LandStripe \/ LandParity
    <2>1. FreeLock /\ UNCHANGED <<captures, queue>>
      BY <1>9 DEF LeaveSlot, AbortWave, LandLocally, LandStripe, LandParity
    <2> QED
      BY <1>1, <1>3, <2>1 DEF FlushTyped
  <1>10. CASE BackgroundStep
    BY <1>4, <1>10 DEF BackgroundStep, SettleStraggler, Demote, StartChain, StartDrain, FinishDrain
  <1>11. CASE OwnerFails
    <2>1. aborted' \in BOOLEAN /\ UNCHANGED <<captures, queue, flush, wave, granted>>
      BY <1>11 DEF OwnerFails, Moving
    <2> QED
      BY <1>1, <2>1 DEF FlushTyped
  <1>12. CASE RecoveryStep \/ DonorReturns
    BY <1>4, <1>12 DEF RecoveryStep, StartRecovery, FinishRecovery, DonorReturns
  <1>13. CASE DonorFails
    <2>1. aborted' \in BOOLEAN /\ UNCHANGED <<captures, queue, flush, wave, granted>>
      BY <1>13 DEF DonorFails, AbortWatching
    <2> QED
      BY <1>1, <2>1 DEF FlushTyped
  <1>14. CASE UNCHANGED vars
    BY <1>4, <1>14 DEF vars
  <1> QED
    BY <1>5, <1>6, <1>7, <1>8, <1>9, <1>10, <1>11, <1>12, <1>13, <1>14, Zenon DEF Next, FlushStep

\* Every step leaves a wave that moves with donors of its own, or lets it go.
LEMMA WaveMovesStep ==
  ASSUME Inductive, [Next]_vars PROVE WaveMoves'
  <1>1. /\ WaveMoves /\ FlushTyped /\ OwnerTyped /\ EpochsBegin
        /\ \A i \in DOMAIN queue : OfEpoch(queue[i][1], queue[i][2])
    BY TypeParts DEF Inductive, InOrder, Ascending
  <1>2. UNCHANGED <<placement, backstop, available>>
    BY ParametersStep
  <1>3. ASSUME FreeLock PROVE WaveMoves'
    BY <1>3 DEF FreeLock, WaveMoves, Moving
  <1>4. ASSUME UNCHANGED <<epoch, owner, iteration, beganAt, lastFlush, flush, wave, granted>>,
               aborted' \in BOOLEAN, flush \in {"free", "slot"} => aborted' = aborted,
               aborted => aborted'
        PROVE  WaveMoves'
    BY <1>1, <1>2, <1>4 DEF WaveMoves, Moving, OfEpoch, FlushTyped
  <1> USE DEF ownerVars, flushVars
  <1>5. CASE Train
    <2>1. iteration' = iteration + 1
          /\ UNCHANGED <<epoch, owner, beganAt, lastFlush, flush, wave, granted, aborted>>
      BY <1>5 DEF Train
    <2>2. \A i, b : OfEpoch(i, b) /\ i \in Int => OfEpoch(i, b)'
      BY <1>1, <2>1 DEF OfEpoch, OwnerTyped
    <2>3. flush # "free" => wave[1] \in Int
      BY <1>1 DEF FlushTyped, Wave, Iteration
    <2> QED
      BY <1>1, <1>2, <2>1, <2>2, <2>3 DEF WaveMoves, Moving
  <1>6. CASE Capture
    <2>1. aborted \in BOOLEAN
      BY <1>1 DEF FlushTyped
    <2> QED
      BY <1>4, <1>6, <2>1 DEF Capture
  <1>7. CASE TakeLock
    <2>1. UNCHANGED <<epoch, owner, iteration, beganAt, granted, aborted>> /\ flush = "free"
      BY <1>7 DEF TakeLock
    <2>2. CASE flush' = "slot" /\ wave' = Head(queue) /\ lastFlush' = Head(queue)[1]
      <3>1. 1 \in DOMAIN queue /\ Head(queue) = queue[1]
        BY <1>1, <1>7 DEF TakeLock, FlushTyped
      <3>2. OfEpoch(wave'[1], wave'[2])
        BY <1>1, <2>2, <3>1
      <3> QED
        BY <1>1, <2>1, <2>2, <3>2 DEF WaveMoves, Moving, OfEpoch
    <2>3. CASE UNCHANGED <<flush, wave, lastFlush>>
      BY <1>1, <1>2, <2>1, <2>3 DEF WaveMoves, Moving
    <2> QED
      BY <1>7, <2>2, <2>3 DEF TakeLock
  <1>8. CASE Reserve
    <2>1. /\ granted' \in Seq(Donor)
          /\ \A i, j \in DOMAIN granted' : granted'[i] = granted'[j] => i = j
          /\ flush' \in {"local", "stripe", "parity"}
          /\ flush' = "local" => DOMAIN granted' = {}
          /\ flush' = "stripe" => Len(granted') \in 1..K
          /\ flush' = "parity" => Len(granted') = K + 1 /\ placement = "ssd"
      BY <1>8, ReserveGrants DEF Inductive
    <2>2. /\ UNCHANGED <<epoch, owner, iteration, beganAt, lastFlush, wave, aborted>>
          /\ flush = "slot" /\ wave[2] = epoch
      BY <1>8 DEF Reserve
    <2> QED
      BY <1>1, <1>2, <2>1, <2>2 DEF WaveMoves, Moving, OfEpoch
  <1>9. CASE LeaveSlot \/ AbortWave \/ LandLocally \/ LandStripe \/ LandParity
    BY <1>3, <1>9 DEF LeaveSlot, AbortWave, LandLocally, LandStripe, LandParity
  <1>10. CASE BackgroundStep \/ DonorReturns
    <2>1. aborted \in BOOLEAN
      BY <1>1 DEF FlushTyped
    <2> QED
      BY <1>4, <1>10, <2>1 DEF BackgroundStep, SettleStraggler, Demote, StartChain, StartDrain, FinishDrain,
                        DonorReturns
  <1>11. CASE OwnerFails
    <2>1. /\ UNCHANGED <<iteration, beganAt, lastFlush, flush, wave, granted>>
          /\ epoch' = epoch + 1 /\ owner' = "down" /\ aborted' = Moving
      BY <1>11 DEF OwnerFails
    <2>2. flush # "free" => wave[2] <= epoch /\ wave[2] \in Nat /\ epoch \in Nat
      BY <1>1 DEF WaveMoves, OfEpoch, FlushTyped, OwnerTyped, Wave, Epoch
    <2>3. flush # "free" => wave[2] < epoch' /\ wave[2] <= epoch' /\ wave[2] # epoch'
      BY <2>1, <2>2
    <2> QED
      BY <1>1, <1>2, <2>1, <2>3 DEF WaveMoves, Moving, OfEpoch
  <1>12. CASE RecoveryStep
    <2>1. /\ UNCHANGED <<epoch, flush, wave, granted, aborted>> /\ owner # "up"
      BY <1>12 DEF RecoveryStep, StartRecovery, FinishRecovery
    <2>2. flush # "free" => wave[2] < epoch /\ wave[2] # epoch /\ wave[2] <= epoch
      <3>1. wave \in Wave /\ epoch \in Nat => wave[2] \in Nat
        BY Constants DEF Wave, Epoch
      <3> QED
        BY <1>1, <2>1, <3>1 DEF WaveMoves, OfEpoch, FlushTyped, OwnerTyped, Epoch
    <2> QED
      BY <1>1, <1>2, <2>1, <2>2 DEF WaveMoves, Moving, OfEpoch
  <1>13. CASE DonorFails
    <2>1. PICK d : AbortWatching(d)
      BY <1>13 DEF DonorFails
    <2>2. aborted' = (aborted \/ (Moving /\ d \in GrantedTo))
      BY <2>1 DEF AbortWatching
    <2>3. UNCHANGED <<epoch, owner, iteration, beganAt, lastFlush, flush, wave, granted>>
      BY <1>13 DEF DonorFails
    <2>4. flush \in {"free", "slot"} => ~Moving
      BY DEF Moving
    <2> QED
      BY <1>1, <1>2, <2>2, <2>3, <2>4 DEF WaveMoves, Moving, OfEpoch
  <1>14. CASE UNCHANGED vars
    <2>1. aborted \in BOOLEAN
      BY <1>1 DEF FlushTyped
    <2> QED
      BY <1>4, <1>14, <2>1 DEF vars
  <1> QED
    BY <1>5, <1>6, <1>7, <1>8, <1>9, <1>10, <1>11, <1>12, <1>13, <1>14, Zenon DEF Next, FlushStep

\* Every step leaves an epoch to begin where the owner resumes.
LEMMA EpochsBeginStep ==
  ASSUME Inductive, [Next]_vars PROVE EpochsBegin'
  <1>1. /\ EpochsBegin /\ OwnerTyped /\ FlushTyped /\ BackgroundTyped /\ HeldTyped /\ ShadowUnderDram
        /\ MaxIteration \in Nat /\ MaxFailures \in Nat
    BY TypeParts, Constants DEF Inductive
  <1>2. /\ lastFlush \in 0..MaxIteration /\ iteration \in 0..MaxIteration
        /\ local \in [{"dram", "ssd"} -> 0..MaxIteration]
        /\ lastFlush \in Nat /\ iteration \in Nat /\ epoch \in Nat /\ failures \in Nat
    BY <1>1 DEF OwnerTyped, Epoch
  <1> USE DEF ownerVars, EpochsBegin
  <1>3. CASE UNCHANGED <<iteration, epoch, owner, beganAt, lastFlush, failures>>
    BY <1>1, <1>3
  <1>4. CASE Train
    <2>1. beganAt[epoch] \in Nat
      BY <1>1, <1>2 DEF OwnerTyped
    <2> QED
      BY <1>1, <1>2, <1>4, <2>1 DEF Train
  <1>5. CASE TakeLock
    <2>1. UNCHANGED <<iteration, epoch, owner, beganAt, failures>>
      BY <1>5 DEF TakeLock
    <2>2. lastFlush' = lastFlush \/ (lastFlush' = Head(queue)[1] /\ Head(queue)[2] = epoch)
      BY <1>5 DEF TakeLock
    <2>3. 1 \in DOMAIN queue /\ Head(queue) = queue[1]
      BY <1>1, <1>5 DEF TakeLock, FlushTyped
    <2>4. OfEpoch(Head(queue)[1], Head(queue)[2])
      BY <2>3 DEF Inductive, InOrder, Ascending
    <2> QED
      BY <1>1, <2>1, <2>2, <2>4 DEF OfEpoch
  <1>6. CASE Capture \/ Reserve \/ LeaveSlot \/ LandLocally \/ LandStripe \/ LandParity
    BY <1>3, <1>6 DEF Capture, Reserve, LeaveSlot, LandLocally, LandStripe, LandParity
  <1>7. CASE AbortWave
    <2>1. UNCHANGED <<iteration, epoch, owner, beganAt, failures>>
      BY <1>7 DEF AbortWave
    <2>2. UNCHANGED <<lastFlush>> \/ \E buffers : Discard(iteration, buffers, local)
      BY <1>7, Zenon DEF AbortWave
    <2>3. lastFlush' <= iteration
      BY <1>1, <1>2, <2>2, DiscardOwn
    <2> QED
      BY <1>1, <2>1, <2>3
  <1>8. CASE BackgroundStep
    BY <1>3, <1>8 DEF BackgroundStep, SettleStraggler, Demote, StartChain, StartDrain, FinishDrain
  <1>9. CASE OwnerFails
    <2>1. /\ UNCHANGED <<iteration, beganAt, lastFlush>> /\ owner' = "down"
          /\ epoch' = epoch + 1 /\ failures' = failures + 1
      BY <1>9 DEF OwnerFails
    <2>2. \A e \in Epoch : e > epoch' \/ e = epoch' => e > epoch
      BY <1>2, <2>1 DEF Epoch
    <2> QED
      BY <1>1, <1>2, <2>1, <2>2
  <1>10. CASE StartRecovery
    <2>1. /\ UNCHANGED <<iteration, epoch, beganAt, failures>> /\ owner = "down" /\ owner' = "fetching"
          /\ Discard(iteration, dramHosted, local)
      BY <1>10 DEF StartRecovery
    <2>2. lastFlush' <= iteration
      BY <1>1, <1>2, <2>1, DiscardOwn
    <2> QED
      BY <1>1, <2>1, <2>2
  <1>11. CASE FinishRecovery
    <2>1. restore \in Fetch
      BY <1>1, <1>11 DEF FinishRecovery, OwnerTyped
    <2>2. PICK resumed : /\ resumed = IF restore.aborted THEN 0 ELSE restore.iteration
                         /\ iteration' = resumed /\ beganAt' = [beganAt EXCEPT ![epoch] = resumed]
                         /\ owner' = "up" /\ UNCHANGED <<epoch, failures>>
                         /\ Discard(resumed, dramHosted, [local EXCEPT !["dram"] = Max({local["dram"], resumed})])
      BY <1>11 DEF FinishRecovery
    <2>3. resumed \in 0..MaxIteration
      BY <1>1, <2>1, <2>2 DEF Fetch
    <2>4. lastFlush' <= resumed
      BY <1>2, <2>2, <2>3, MinOfTwo DEF Discard
    <2>5. beganAt'[epoch] = resumed /\ \A e \in Epoch : e # epoch => beganAt'[e] = beganAt[e]
      BY <1>1, <2>2 DEF OwnerTyped
    <2>6. \A e \in Epoch : e > epoch => e # epoch
      BY <1>2 DEF Epoch
    <2> QED
      BY <1>1, <1>2, <2>2, <2>3, <2>4, <2>5, <2>6
  <1>12. CASE DonorFails
    BY <1>1, <1>2, <1>12 DEF DonorFails
  <1>13. CASE DonorReturns
    BY <1>3, <1>13 DEF DonorReturns
  <1>14. CASE UNCHANGED vars
    BY <1>3, <1>14 DEF vars
  <1> QED
    <2> HIDE DEF EpochsBegin
    <2> QED
      BY <1>4, <1>5, <1>6, <1>7, <1>8, <1>9, <1>10, <1>11, <1>12, <1>13, <1>14, Zenon
        DEF Next, FlushStep, RecoveryStep

\* Every step leaves the checkpoints of the current epoch in order, and none of
\* them behind the last flush.
LEMMA InOrderStep ==
  ASSUME Inductive, [Next]_vars PROVE InOrder'
  <1>1. /\ InOrder /\ FlushTyped /\ OwnerTyped /\ EpochsBegin
        /\ MaxIteration \in Nat /\ MaxFailures \in Nat
    BY TypeParts, Constants DEF Inductive
  <1>2. /\ lastFlush \in Nat /\ iteration \in Nat /\ epoch \in Nat
        /\ iteration \in 0..MaxIteration /\ lastFlush \in 0..MaxIteration
    BY <1>1 DEF OwnerTyped, Epoch
  <1>3. \A q \in {captures, queue} :
          /\ q \in Seq(Wave) /\ DOMAIN q = 1..Len(q) /\ Len(q) \in Nat
          /\ \A i \in DOMAIN q : q[i] \in Wave /\ q[i][1] \in Nat /\ q[i][2] \in Nat
    <2>1. \A w \in Wave : w[1] \in Nat /\ w[2] \in Nat
      BY DEF Wave, Iteration, Epoch
    <2> QED
      BY <1>1, <2>1 DEF FlushTyped
  <1> DEFINE Fits(it, born) == /\ born <= epoch' /\ (owner' # "up" => born < epoch')
                               /\ born = epoch' => beganAt'[born] < it /\ it <= iteration'
             Sorted(q) == \A i, j \in DOMAIN q :
                            i < j /\ q[i][2] = epoch' /\ q[j][2] = epoch' => q[i][1] < q[j][1]
             Placed(q) == \A i \in DOMAIN q :
                            Fits(q[i][1], q[i][2]) /\ (q[i][2] = epoch' => q[i][1] > lastFlush')
  <1>4. ASSUME Placed(captures'), Placed(queue'), Sorted(captures'), Sorted(queue'),
               \A i \in DOMAIN queue', j \in DOMAIN captures' :
                 queue'[i][2] = epoch' /\ captures'[j][2] = epoch' => queue'[i][1] < captures'[j][1]
        PROVE  InOrder'
    BY <1>4 DEF InOrder, Ascending, OfEpoch
  <1>5. /\ epoch' = epoch /\ owner' = owner /\ iteration' >= iteration /\ iteration' \in Nat
        /\ beganAt' = beganAt /\ lastFlush' = lastFlush
        => Placed(captures) /\ Placed(queue) /\ Sorted(captures) /\ Sorted(queue)
    <2>1. \A q \in {captures, queue} : \A i \in DOMAIN q :
            /\ OfEpoch(q[i][1], q[i][2]) /\ (q[i][2] = epoch => q[i][1] > lastFlush)
            /\ q[i][1] \in Nat
      BY <1>1, <1>3 DEF InOrder, Ascending
    <2> QED
      BY <1>1, <1>2, <2>1 DEF InOrder, Ascending, OfEpoch
  <1>6. ASSUME UNCHANGED <<captures, queue>>, epoch' \in Nat,
               \A i \in DOMAIN captures : captures[i][2] < epoch',
               \A i \in DOMAIN queue : queue[i][2] < epoch'
        PROVE  InOrder'
    <2>1. \A q \in {captures, queue} : \A i \in DOMAIN q : q[i][2] <= epoch' /\ q[i][2] # epoch'
      <3>1. \A q \in {captures, queue} : \A i \in DOMAIN q : q[i][2] \in Nat /\ q[i][2] < epoch'
        BY <1>3, <1>6, Zenon
      <3> QED
        BY <1>6, <3>1
    <2> QED
      BY <1>4, <1>6, <2>1
  <1> HIDE DEF Fits, Sorted, Placed
  <1> USE DEF ownerVars, flushVars
  <1>7. CASE UNCHANGED <<captures, queue, epoch, owner, iteration, beganAt, lastFlush>>
    <2>1. \A i \in DOMAIN queue', j \in DOMAIN captures' :
            queue'[i][2] = epoch' /\ captures'[j][2] = epoch' => queue'[i][1] < captures'[j][1]
      BY <1>1, <1>7 DEF InOrder
    <2> QED
      BY <1>2, <1>4, <1>5, <1>7, <2>1
  <1>8. CASE Train
    <2>1. /\ captures' = Append(captures, <<iteration + 1, epoch>>) /\ iteration' = iteration + 1
          /\ UNCHANGED <<queue, epoch, owner, beganAt, lastFlush>> /\ owner = "up"
      BY <1>8 DEF Train
    <2>2. /\ DOMAIN captures' = 1 .. Len(captures) + 1
          /\ \A i \in 1 .. Len(captures) + 1 :
               captures'[i] = IF i = Len(captures) + 1 THEN <<iteration + 1, epoch>> ELSE captures[i]
      <3>1. <<iteration + 1, epoch>> \in Nat \X Nat /\ captures \in Seq(Nat \X Nat)
        BY <1>2, <1>3 DEF Wave, Iteration, Epoch
      <3> QED
        BY <2>1, <3>1
    <2>3. \A i \in DOMAIN captures' :
            \/ i = Len(captures) + 1 /\ captures'[i] = <<iteration + 1, epoch>>
            \/ i \in DOMAIN captures /\ i < Len(captures) + 1 /\ captures'[i] = captures[i]
      BY <1>3, <2>2
    <2>4. Placed(captures) /\ Placed(queue) /\ Sorted(captures) /\ Sorted(queue)
      BY <1>2, <1>5, <2>1
    <2>5. Fits(iteration + 1, epoch) /\ iteration + 1 > lastFlush
      <3>1. beganAt[epoch] \in Nat /\ beganAt[epoch] <= iteration /\ lastFlush <= iteration
        BY <1>1, <1>2, <2>1 DEF OwnerTyped, EpochsBegin
      <3> QED
        BY <1>2, <2>1, <3>1 DEF Fits
    <2>6. \A q \in {captures, queue} : \A i \in DOMAIN q :
            q[i][2] = epoch => q[i][1] < iteration + 1
      <3>1. \A q \in {captures, queue} : \A i \in DOMAIN q :
              q[i][2] = epoch => q[i][1] <= iteration /\ q[i][1] \in Nat
        BY <1>1, <1>3 DEF InOrder, Ascending, OfEpoch
      <3> QED
        BY <1>2, <3>1
    <2>7. Placed(captures')
      BY <2>1, <2>3, <2>4, <2>5 DEF Placed
    <2>8. Sorted(captures')
      <3>1. ASSUME NEW i \in DOMAIN captures', NEW j \in DOMAIN captures', i < j,
                   captures'[i][2] = epoch', captures'[j][2] = epoch'
            PROVE  captures'[i][1] < captures'[j][1]
        <4>1. i \in DOMAIN captures /\ captures'[i] = captures[i]
          BY <1>3, <2>2, <2>3, <3>1
        <4>2. CASE j = Len(captures) + 1 /\ captures'[j] = <<iteration + 1, epoch>>
          BY <2>1, <2>6, <3>1, <4>1, <4>2
        <4>3. CASE j \in DOMAIN captures /\ captures'[j] = captures[j]
          BY <2>4, <3>1, <4>1, <4>3 DEF Sorted
        <4> QED
          BY <2>3, <4>2, <4>3
      <3> QED
        BY <3>1 DEF Sorted
    <2>9. \A i \in DOMAIN queue', j \in DOMAIN captures' :
            queue'[i][2] = epoch' /\ captures'[j][2] = epoch' => queue'[i][1] < captures'[j][1]
      BY <1>1, <2>1, <2>3, <2>6 DEF InOrder
    <2> QED
      BY <1>4, <2>1, <2>4, <2>7, <2>8, <2>9
  <1>9. CASE Capture
    <2>1. /\ UNCHANGED <<epoch, owner, iteration, beganAt, lastFlush>>
          /\ captures # <<>> /\ captures' = Tail(captures)
      BY <1>9 DEF Capture
    <2>2. Placed(captures) /\ Placed(queue) /\ Sorted(captures) /\ Sorted(queue)
      BY <1>2, <1>5, <2>1
    <2>3. /\ \A i \in DOMAIN captures' : /\ i \in Nat /\ i + 1 \in DOMAIN captures /\ 1 < i + 1
                                        /\ captures'[i] = captures[i + 1]
          /\ 1 \in DOMAIN captures /\ Head(captures) = captures[1]
      <3>1. captures \in Seq(Wave) /\ Len(captures) \in Nat /\ Len(captures) # 0
        BY <1>3, <2>1
      <3> QED
        BY <2>1, <3>1
    <2>4. \A i \in DOMAIN captures' : captures'[i][2] = epoch /\ captures[1][2] = epoch
                                       => captures[1][1] < captures'[i][1]
      BY <2>1, <2>2, <2>3 DEF Sorted
    <2>5. Placed(captures')
      BY <2>2, <2>3 DEF Placed
    <2>6. Sorted(captures')
      <3>1. ASSUME NEW i \in DOMAIN captures', NEW j \in DOMAIN captures', i < j,
                   captures'[i][2] = epoch', captures'[j][2] = epoch'
            PROVE  captures'[i][1] < captures'[j][1]
        <4>1. i + 1 < j + 1 /\ i + 1 \in DOMAIN captures /\ j + 1 \in DOMAIN captures
              /\ captures'[i] = captures[i + 1] /\ captures'[j] = captures[j + 1]
          BY <2>3, <3>1
        <4> QED
          BY <2>2, <3>1, <4>1 DEF Sorted
      <3> QED
        BY <3>1 DEF Sorted
    <2>7. CASE queue' = queue
      <3>1. \A i \in DOMAIN queue', j \in DOMAIN captures' :
              queue'[i][2] = epoch' /\ captures'[j][2] = epoch' => queue'[i][1] < captures'[j][1]
        BY <1>1, <2>1, <2>3, <2>7 DEF InOrder
      <3>2. Placed(queue') /\ Sorted(queue')
        BY <2>2, <2>7
      <3> QED
        BY <1>4, <2>5, <2>6, <3>1, <3>2
    <2>8. CASE Head(captures)[2] = epoch /\ queue' = Append(queue, Head(captures))
      <3>1. \A i \in DOMAIN queue' :
              \/ i = Len(queue) + 1 /\ queue'[i] = captures[1]
              \/ i \in DOMAIN queue /\ i < Len(queue) + 1 /\ queue'[i] = queue[i]
        <4>1. queue \in Seq(Wave) /\ Head(captures) \in Wave
          BY <1>3, <2>3
        <4> QED
          BY <2>3, <2>8, <4>1
      <3>2. \A i \in DOMAIN queue : queue[i][2] = epoch => queue[i][1] < captures[1][1]
        BY <1>1, <2>3, <2>8 DEF InOrder
      <3>3. Placed(queue')
        BY <2>2, <2>3, <3>1 DEF Placed
      <3>4. Sorted(queue')
        <4>1. ASSUME NEW i \in DOMAIN queue', NEW j \in DOMAIN queue', i < j,
                     queue'[i][2] = epoch', queue'[j][2] = epoch'
              PROVE  queue'[i][1] < queue'[j][1]
          <5>1. i \in DOMAIN queue /\ queue'[i] = queue[i]
            <6>1. CASE i = Len(queue) + 1
              <7>1. j = Len(queue) + 1 \/ (j \in Nat /\ j < Len(queue) + 1)
                BY <1>3, <3>1
              <7>2. Len(queue) \in Nat
                BY <1>3
              <7> QED
                BY <4>1, <6>1, <7>1, <7>2
            <6> QED
              BY <3>1, <6>1
          <5>2. CASE j = Len(queue) + 1 /\ queue'[j] = captures[1]
            BY <2>1, <3>2, <4>1, <5>1, <5>2
          <5>3. CASE j \in DOMAIN queue /\ queue'[j] = queue[j]
            BY <2>2, <4>1, <5>1, <5>3 DEF Sorted
          <5> QED
            BY <3>1, <5>2, <5>3
        <4> QED
          BY <4>1 DEF Sorted
      <3>5. \A i \in DOMAIN queue', j \in DOMAIN captures' :
              queue'[i][2] = epoch' /\ captures'[j][2] = epoch' => queue'[i][1] < captures'[j][1]
        <4>1. \A i \in DOMAIN queue, j \in DOMAIN captures' :
                queue[i][2] = epoch' /\ captures'[j][2] = epoch' => queue[i][1] < captures'[j][1]
          BY <1>1, <2>1, <2>3 DEF InOrder
        <4> QED
          BY <2>1, <2>3, <2>4, <2>8, <3>1, <4>1
      <3> QED
        BY <1>4, <2>5, <2>6, <3>3, <3>4, <3>5
    <2> QED
      BY <1>9, <2>7, <2>8 DEF Capture
  <1>10. CASE TakeLock
    <2>1. /\ UNCHANGED <<epoch, owner, iteration, beganAt, captures>>
          /\ queue # <<>> /\ queue' = Tail(queue)
          /\ lastFlush' = lastFlush \/ (lastFlush' = Head(queue)[1] /\ Head(queue)[2] = epoch)
      BY <1>10 DEF TakeLock
    <2>2. /\ \A i \in DOMAIN queue' : /\ i \in Nat /\ i + 1 \in DOMAIN queue /\ 1 < i + 1
                                     /\ queue'[i] = queue[i + 1]
          /\ 1 \in DOMAIN queue /\ Head(queue) = queue[1]
      <3>1. queue \in Seq(Wave) /\ Len(queue) \in Nat /\ Len(queue) # 0
        BY <1>3, <2>1
      <3> QED
        BY <2>1, <3>1
    <2>3. \A q \in {captures, queue} : \A i \in DOMAIN q :
            OfEpoch(q[i][1], q[i][2]) /\ (q[i][2] = epoch => q[i][1] > lastFlush)
      BY <1>1 DEF InOrder, Ascending
    <2>4. Sorted(captures) /\ Sorted(queue)
      BY <1>1, <2>1 DEF Sorted, InOrder, Ascending
    <2>5. \A i \in DOMAIN captures : captures[i][2] = epoch => captures[i][1] > lastFlush'
      <3>1. \A i \in DOMAIN captures : captures[i][2] = epoch /\ queue[1][2] = epoch
                                        => queue[1][1] < captures[i][1]
        BY <1>1, <2>2 DEF InOrder
      <3>2. queue[1][1] \in Nat /\ \A i \in DOMAIN captures : captures[i][1] \in Nat
        BY <1>3, <2>2
      <3> QED
        BY <2>1, <2>2, <2>3, <3>1, <3>2
    <2>6. \A i \in DOMAIN queue' : queue'[i][2] = epoch => queue'[i][1] > lastFlush'
      <3>1. \A i \in DOMAIN queue' : queue'[i][2] = epoch /\ queue[1][2] = epoch
                                        => queue[1][1] < queue'[i][1]
        BY <2>1, <2>2, <2>4 DEF Sorted
      <3>2. queue[1][1] \in Nat /\ \A i \in DOMAIN queue' : queue'[i][1] \in Nat
        BY <1>3, <2>2
      <3> QED
        BY <2>1, <2>2, <2>3, <3>1, <3>2
    <2>7. Placed(captures')
      BY <2>1, <2>3, <2>5 DEF Placed, Fits, OfEpoch
    <2>8. Placed(queue')
      BY <2>1, <2>2, <2>3, <2>6 DEF Placed, Fits, OfEpoch
    <2>9. Sorted(queue')
      <3>1. ASSUME NEW i \in DOMAIN queue', NEW j \in DOMAIN queue', i < j,
                   queue'[i][2] = epoch', queue'[j][2] = epoch'
            PROVE  queue'[i][1] < queue'[j][1]
        <4>1. i + 1 < j + 1 /\ i + 1 \in DOMAIN queue /\ j + 1 \in DOMAIN queue
              /\ queue'[i] = queue[i + 1] /\ queue'[j] = queue[j + 1]
          BY <2>2, <3>1
        <4> QED
          BY <2>4, <3>1, <4>1 DEF Sorted
      <3> QED
        BY <3>1 DEF Sorted
    <2>10. \A i \in DOMAIN queue', j \in DOMAIN captures' :
             queue'[i][2] = epoch' /\ captures'[j][2] = epoch' => queue'[i][1] < captures'[j][1]
      BY <1>1, <2>1, <2>2 DEF InOrder
    <2> QED
      BY <1>4, <2>1, <2>4, <2>7, <2>8, <2>9, <2>10
  <1>11. CASE Reserve \/ LeaveSlot \/ LandLocally \/ LandStripe \/ LandParity
    BY <1>7, <1>11 DEF Reserve, LeaveSlot, LandLocally, LandStripe, LandParity
  <1>12. CASE AbortWave
    <2>1. UNCHANGED <<captures, queue, epoch, owner, iteration, beganAt>>
      BY <1>12 DEF AbortWave
    <2>2. UNCHANGED <<lastFlush>> \/ \E buffers : Discard(iteration, buffers, local)
      BY <1>12, Zenon DEF AbortWave
    <2>3. lastFlush' = lastFlush
      <3>1. BackgroundTyped /\ local \in [{"dram", "ssd"} -> 0..MaxIteration] /\ lastFlush <= iteration
        BY <1>1, TypeParts DEF Inductive, OwnerTyped, EpochsBegin
      <3> QED
        BY <1>2, <2>2, <3>1, DiscardOwn
    <2> QED
      BY <1>7, <2>1, <2>3
  <1>13. CASE BackgroundStep \/ DonorFails \/ DonorReturns
    BY <1>7, <1>13 DEF BackgroundStep, SettleStraggler, Demote, StartChain, StartDrain, FinishDrain,
                       DonorFails, DonorReturns
  <1>14. \A q \in {captures, queue} : \A i \in DOMAIN q :
           q[i][2] <= epoch /\ (owner # "up" => q[i][2] < epoch)
    BY <1>1 DEF InOrder, Ascending, OfEpoch
  <1>15. CASE OwnerFails
    <2>1. UNCHANGED <<captures, queue>> /\ epoch' = epoch + 1
      BY <1>15 DEF OwnerFails
    <2>2. \A q \in {captures, queue} : \A i \in DOMAIN q : q[i][2] < epoch'
      <3>1. \A q \in {captures, queue} : \A i \in DOMAIN q : q[i][2] \in Nat
        BY <1>3
      <3> QED
        BY <1>2, <1>14, <2>1, <3>1
    <2> QED
      BY <1>2, <1>6, <2>1, <2>2
  <1>16. CASE RecoveryStep
    <2>1. UNCHANGED <<captures, queue, epoch>> /\ owner # "up"
      BY <1>16 DEF RecoveryStep, StartRecovery, FinishRecovery
    <2> QED
      BY <1>2, <1>6, <1>14, <2>1
  <1>17. CASE UNCHANGED vars
    BY <1>7, <1>17 DEF vars
  <1> QED
    BY <1>8, <1>9, <1>10, <1>11, <1>12, <1>13, <1>15, <1>16, <1>17, Zenon DEF Next, FlushStep

\* What a donor holds, covers or may still register for the owner, piece by piece.
LEMMA TrackedBy ==
  ASSUME HeldTyped
  PROVE  /\ \A x \in Tracked : /\ x[1] \in Donor /\ x[2] \in Piece
                               /\ \/ x[2] = pieces[x[1]] \/ x[2] = shadow[x[1]]
                                  \/ \E s \in stragglers : ~s.aborted /\ x[1] = s.donor /\ x[2] = s.piece
         /\ \A d \in Donor : /\ pieces[d] # None => <<d, pieces[d]>> \in Tracked
                             /\ shadow[d] # None => <<d, shadow[d]>> \in Tracked
         /\ \A s \in stragglers : ~s.aborted => <<s.donor, s.piece>> \in Tracked
  <1>1. ASSUME NEW x \in Tracked
        PROVE  /\ x[1] \in Donor /\ x[2] \in Piece
               /\ \/ x[2] = pieces[x[1]] \/ x[2] = shadow[x[1]]
                  \/ \E s \in stragglers : ~s.aborted /\ x[1] = s.donor /\ x[2] = s.piece
    <2>1. CASE x[2] # None /\ \E d \in Donor : x = <<d, pieces[d]>>
      BY <2>1, HeldFields
    <2>2. CASE x[2] # None /\ \E d \in Donor : x = <<d, shadow[d]>>
      BY <2>2, HeldFields
    <2>3. CASE \E s \in stragglers : ~s.aborted /\ x = <<s.donor, s.piece>>
      BY <2>3 DEF HeldTyped
    <2>4. \/ x[2] # None /\ \E d \in Donor : x = <<d, pieces[d]>>
          \/ x[2] # None /\ \E d \in Donor : x = <<d, shadow[d]>>
          \/ \E s \in stragglers : ~s.aborted /\ x = <<s.donor, s.piece>>
      BY Zenon DEF Tracked
    <2> QED
      BY <2>1, <2>2, <2>3, <2>4
  <1>2. ASSUME NEW d \in Donor
        PROVE  /\ pieces[d] # None => <<d, pieces[d]>> \in Tracked
               /\ shadow[d] # None => <<d, shadow[d]>> \in Tracked
    BY DEF Tracked
  <1>3. ASSUME NEW s \in stragglers, ~s.aborted PROVE <<s.donor, s.piece>> \in Tracked
    BY <1>3 DEF Tracked
  <1> QED
    BY <1>1, <1>2, <1>3

\* A wave that lands is newer than what its donors hold, and of the present
\* timeline: every piece of it registers.
LEMMA LandingRegisters ==
  ASSUME Inductive, flush \in {"stripe", "parity"}, ~aborted
  PROVE  /\ wave \in Wave /\ wave[2] = epoch /\ OfEpoch(wave[1], epoch) /\ wave[1] <= iteration
         /\ beganAt[epoch] < wave[1] /\ wave[1] = lastFlush
         /\ \A d \in GrantedTo : /\ d \in Donor /\ Registers(wave[1], d)
                                 /\ pieces[d] # None => pieces[d].iteration < wave[1]
  <1>1. /\ WaveMoves /\ FlushTyped /\ OwnerTyped /\ HeldTyped /\ TrackedOnTime
        /\ epoch \in Nat /\ iteration \in Int /\ MaxIteration \in Nat
    BY TypeParts, Constants DEF Inductive, OwnerTyped, Epoch
  <1>2. wave \in Wave /\ wave[2] = epoch /\ OfEpoch(wave[1], epoch) /\ wave[1] = lastFlush
    BY <1>1 DEF WaveMoves, Moving, FlushTyped
  <1>3. wave[1] \in Int /\ epoch \in Epoch /\ wave[1] <= iteration /\ beganAt[epoch] < wave[1]
        /\ beganAt[epoch] \in Int
    BY <1>1, <1>2 DEF Wave, Iteration, OfEpoch, OwnerTyped
  <1>4. ASSUME NEW d \in GrantedTo
        PROVE  /\ d \in Donor /\ Registers(wave[1], d)
               /\ pieces[d] # None => pieces[d].iteration < wave[1]
    <2>1. d \in Donor
      BY <1>1, IndexOfDonor DEF FlushTyped, WaveMoves
    <2>2. pieces[d] # None => pieces[d].iteration < wave[1] /\ pieces[d].iteration \in Int
      <3>1. SUFFICES ASSUME pieces[d] # None
                     PROVE  pieces[d].iteration < wave[1] /\ pieces[d].iteration \in Int
        OBVIOUS
      <3>2. pieces[d] \in Piece /\ <<d, pieces[d]>> \in Tracked
        BY <1>1, <2>1, <3>1, HeldFields, TrackedBy
      <3> DEFINE p == pieces[d]
      <3>3. p.iteration \in Int /\ p.born \in Epoch /\ p.born \in Nat
        BY <3>2, PieceFields DEF Epoch
      <3>4. /\ OfEpoch(p.iteration, p.born) /\ OnTime(p.iteration, p.born)
            /\ p.born = epoch => (flush # "free" /\ wave[2] = epoch => p.iteration < wave[1])
        BY <1>1, <3>2, Zenon DEF TrackedOnTime
      <3> HIDE DEF p
      <3>5. CASE p.born = epoch
        BY <1>2, <3>3, <3>4, <3>5 DEF p
      <3>6. CASE p.born # epoch
        <4>1. p.born < epoch
          BY <1>1, <3>3, <3>4, <3>6 DEF OfEpoch
        <4>2. p.iteration <= beganAt[epoch]
          BY <1>3, <3>4, <4>1, <1>1 DEF OnTime
        <4> QED
          BY <1>3, <3>3, <4>2 DEF p
      <3> QED
        BY <3>5, <3>6
    <2> QED
      BY <1>3, <2>1, <2>2 DEF Registers, After
  <1> QED
    BY <1>2, <1>3, <1>4

\* Every step leaves what the owner's records say of its donors exact: a file is
\* kept apart only below a newer piece in DRAM, and the buffers counted are those
\* that hold a piece or that the wave in flight will fill.
LEMMA HeldStep ==
  ASSUME Inductive, [Next]_vars PROVE HeldTyped' /\ ShadowUnderDram' /\ DramLedgerExact'
  <1> DEFINE Kept(d) == IF placement = "dram" /\ d \in GrantedTo THEN 1 ELSE 0
  <1>1. /\ HeldTyped /\ OwnerTyped /\ FlushTyped /\ ShadowUnderDram /\ WaveMoves /\ Placements
        /\ \A d \in Donor : dramHosted[d] = (IF InDram(d) THEN 1 ELSE 0) + Kept(d)
        /\ DramSlots \in Nat /\ placement \in {"ssd", "dram"} /\ None \notin Piece
    BY TypeParts, Constants, ParametersTyped, NoneDistinct DEF Inductive, DramLedgerExact
  <1>2. UNCHANGED <<placement, backstop, available>>
    BY ParametersStep
  <1>3. \A d \in Donor : /\ pieces[d] # None => pieces[d] \in Piece
                         /\ shadow[d] # None => shadow[d] \in Piece
                         /\ dramHosted[d] \in 0 .. DramSlots /\ dramHosted[d] \in Nat
    BY <1>1, HeldFields
  <1> DEFINE Straggler == [donor : Donor, piece : Piece, watched : SUBSET Donor, aborted : BOOLEAN]
  <1>4. stragglers \subseteq Straggler
    BY <1>1 DEF HeldTyped
  <1>5. ASSUME UNCHANGED held, GrantedTo' = GrantedTo, stragglers' \subseteq Straggler
        PROVE  HeldTyped' /\ ShadowUnderDram' /\ DramLedgerExact'
    BY <1>1, <1>2, <1>5 DEF held, HeldTyped, ShadowUnderDram, DramLedgerExact, InDram
  <1>6. DOMAIN granted = {} => GrantedTo = {}
    BY DEF GrantedTo
  <1>7. FreeLock => GrantedTo' = {}
    BY DEF FreeLock, GrantedTo
  <1> HIDE DEF Straggler
  <1> USE DEF flushVars, ownerVars
  <1>8. CASE Train \/ Capture \/ TakeLock
    <2>1. UNCHANGED <<held, granted, stragglers>>
      BY <1>8 DEF Train, Capture, TakeLock
    <2> QED
      BY <1>4, <1>5, <2>1 DEF GrantedTo
  <1>9. CASE Reserve
    <2>1. /\ flush = "slot" /\ UNCHANGED <<pieces, shadow, stragglers>>
          /\ dramHosted' = [d \in Donor |-> IF placement = "dram" /\ \E i \in DOMAIN granted' : granted'[i] = d
                                            THEN dramHosted[d] + 1 ELSE dramHosted[d]]
      BY <1>9 DEF Reserve
    <2>2. PICK n \in Nat : granted' \in [1 .. n -> Able]
      BY <1>9, ReserveGrants DEF Inductive
    <2>3. \A d : d \in GrantedTo' <=> \E i \in DOMAIN granted' : granted'[i] = d
      BY DEF GrantedTo
    <2>4. GrantedTo = {} /\ \A d \in Donor : Kept(d) = 0
      BY <1>1, <1>6, <2>1 DEF WaveMoves
    <2>5. \A d \in GrantedTo' : placement = "dram" => dramHosted[d] < DramSlots
      BY <2>2, <2>3 DEF Able
    <2>6. \A d \in Donor : dramHosted'[d] = IF placement = "dram" /\ d \in GrantedTo'
                                            THEN dramHosted[d] + 1 ELSE dramHosted[d]
      BY <2>1, <2>3
    <2>7. HeldTyped'
      <3>1. \A d \in Donor : dramHosted'[d] \in 0 .. DramSlots
        BY <1>1, <1>3, <2>5, <2>6
      <3> QED
        BY <1>1, <2>1, <3>1 DEF HeldTyped
    <2>8. ShadowUnderDram'
      BY <1>1, <2>1 DEF ShadowUnderDram, InDram
    <2>9. DramLedgerExact'
      <3>1. ASSUME NEW d \in Donor
            PROVE  dramHosted'[d] = (IF InDram(d) THEN 1 ELSE 0)
                                    + (IF placement = "dram" /\ d \in GrantedTo' THEN 1 ELSE 0)
        BY <1>1, <1>3, <2>4, <2>6
      <3>2. \A d \in Donor : InDram(d)' <=> InDram(d)
        BY <2>1 DEF InDram
      <3> QED
        BY <1>2, <3>1, <3>2 DEF DramLedgerExact
    <2> QED
      BY <2>7, <2>8, <2>9
  <1>10. CASE LeaveSlot \/ LandLocally
    <2>1. UNCHANGED <<held, stragglers>> /\ FreeLock /\ flush \in {"slot", "local"}
      BY <1>10 DEF LeaveSlot, LandLocally
    <2>2. GrantedTo = {}
      BY <1>1, <1>6, <2>1 DEF WaveMoves
    <2> QED
      BY <1>4, <1>5, <1>7, <2>1, <2>2
  <1>11. ASSUME NEW i \in 0 .. MaxIteration, NEW buffers, NEW copies, Discard(i, buffers, copies),
                NEW more \in [Donor -> Nat], buffers \in [Donor -> 0 .. DramSlots],
                \A d \in Donor : buffers[d] = (IF InDram(d) THEN 1 ELSE 0) + more[d],
                \A d \in Donor : more[d] = IF placement = "dram" /\ d \in GrantedTo' THEN 1 ELSE 0,
                UNCHANGED stragglers
         PROVE  HeldTyped' /\ ShadowUnderDram' /\ DramLedgerExact'
    <2>1. buffers \in [Donor -> Nat]
      BY <1>1, <1>11
    <2>2. /\ ShadowUnderDram' /\ dramHosted' \in [Donor -> Nat]
          /\ \A d \in Donor : /\ dramHosted'[d] = (IF InDram(d)' THEN 1 ELSE 0) + more[d]
                              /\ dramHosted'[d] <= buffers[d]
      BY <1>1, <1>11, <2>1, DiscardLedger
    <2>3. dramHosted' \in [Donor -> 0 .. DramSlots]
      BY <1>1, <1>11, <2>2
    <2>4. pieces' \in [Donor -> Piece \cup {None}] /\ shadow' \in [Donor -> Piece \cup {None}]
      BY <1>1, <1>11, DiscardHeld DEF Discard
    <2>5. DramLedgerExact'
      BY <1>2, <1>11, <2>2 DEF DramLedgerExact
    <2> QED
      BY <1>1, <1>11, <2>2, <2>3, <2>4, <2>5 DEF HeldTyped
  <1>12. CASE AbortWave
    <2> DEFINE buffers == IF placement = "dram" THEN Released(dramHosted, GrantedTo) ELSE dramHosted
               more == [d \in Donor |-> 0]
    <2>1. \A d \in Donor : /\ buffers[d] = IF InDram(d) THEN 1 ELSE 0
                           /\ buffers[d] \in 0 .. DramSlots /\ buffers[d] \in Nat
      <3> TAKE d \in Donor
      <3>1. dramHosted[d] = (IF InDram(d) THEN 1 ELSE 0) + Kept(d) /\ dramHosted[d] \in 0 .. DramSlots
        BY <1>1, <1>3
      <3>2. CASE placement = "dram" /\ d \in GrantedTo
        BY <1>1, <3>1, <3>2 DEF Released
      <3>3. CASE ~(placement = "dram" /\ d \in GrantedTo)
        BY <1>1, <3>1, <3>3 DEF Released
      <3> QED
        BY <3>2, <3>3
    <2>2. buffers \in [Donor -> 0 .. DramSlots]
      <3>1. buffers = [d \in Donor |-> buffers[d]]
        BY <1>1 DEF Released, HeldTyped
      <3> QED
        BY <2>1, <3>1
    <2>3. /\ GrantedTo' = {} /\ UNCHANGED stragglers
          /\ \/ Discard(iteration, buffers, local)
             \/ dramHosted' = buffers /\ UNCHANGED <<pieces, shadow>>
      BY <1>7, <1>12, Zenon DEF AbortWave
    <2> HIDE DEF buffers
    <2>4. \A d \in Donor : /\ buffers[d] = (IF InDram(d) THEN 1 ELSE 0) + more[d]
                           /\ more[d] = IF placement = "dram" /\ d \in GrantedTo' THEN 1 ELSE 0
      BY <2>1, <2>3
    <2>5. more \in [Donor -> Nat]
      OBVIOUS
    <2> HIDE DEF more
    <2>6. CASE Discard(iteration, buffers, local)
      <3>1. iteration \in 0 .. MaxIteration
        BY <1>1 DEF OwnerTyped
      <3> QED
        BY <1>11, <2>2, <2>3, <2>4, <2>5, <2>6, <3>1
    <2>7. CASE dramHosted' = buffers /\ UNCHANGED <<pieces, shadow>>
      <3>1. HeldTyped' /\ ShadowUnderDram'
        BY <1>1, <2>2, <2>3, <2>7 DEF HeldTyped, ShadowUnderDram, InDram
      <3>2. \A d \in Donor : InDram(d)' <=> InDram(d)
        BY <2>7 DEF InDram
      <3>3. DramLedgerExact'
        BY <1>2, <2>1, <2>3, <2>7, <3>2 DEF DramLedgerExact
      <3> QED
        BY <3>1, <3>3
    <2> QED
      BY <2>3, <2>6, <2>7
  <1>13. CASE LandStripe
    <2>1. flush = "stripe" /\ ~aborted /\ GrantedTo' = {} /\ UNCHANGED stragglers
      BY <1>7, <1>13 DEF LandStripe
    <2>2. \A d \in GrantedTo : /\ d \in Donor /\ Registers(wave[1], d)
                               /\ pieces[d] # None => pieces[d].iteration < wave[1]
      BY <2>1, LandingRegisters
    <2>3. {d \in GrantedTo : Registers(wave[1], d)} = GrantedTo
      BY <2>2
    <2>4. pieces' = [d \in Donor |-> IF d \in GrantedTo THEN PieceOf(d) ELSE pieces[d]]
      BY <1>13, <2>3, Zenon DEF LandStripe
    <2>5. \A d \in GrantedTo : /\ PieceOf(d) \in Piece /\ PieceOf(d).iteration = wave[1]
                               /\ PieceOf(d).tier = placement
      BY <2>1, PieceOfWave DEF Inductive
    <2>6. pieces' \in [Donor -> Piece \cup {None}]
      BY <1>1, <2>4, <2>5 DEF HeldTyped
    <2>7. CASE placement = "ssd"
      <3>1. UNCHANGED <<shadow, dramHosted>>
        BY <1>13, <2>7, Zenon DEF LandStripe
      <3>2. \A d \in Donor : ~InDram(d) /\ ~InDram(d)'
        BY <1>1, <2>4, <2>5, <2>7 DEF Placements, InDram
      <3>3. \A d \in Donor : shadow[d] = None
        BY <1>1, <3>2 DEF ShadowUnderDram
      <3> QED
        BY <1>1, <1>2, <2>1, <2>6, <2>7, <3>1, <3>2, <3>3 DEF HeldTyped, ShadowUnderDram, DramLedgerExact
    <2>8. CASE placement # "ssd"
      <3>1. /\ dramHosted' = Released(dramHosted, (GrantedTo \ GrantedTo) \cup {d \in GrantedTo : InDram(d)})
            /\ shadow' = [d \in Donor |-> IF d \in GrantedTo /\ pieces[d] # None /\ ~InDram(d)
                                          THEN pieces[d] ELSE shadow[d]]
        BY <1>13, <2>3, <2>8, Zenon DEF LandStripe
      <3>2. (GrantedTo \ GrantedTo) \cup {d \in GrantedTo : InDram(d)} = {d \in GrantedTo : InDram(d)}
        OBVIOUS
      <3>3. \A d \in Donor : dramHosted'[d] = IF d \in GrantedTo /\ InDram(d) /\ dramHosted[d] > 0
                                              THEN dramHosted[d] - 1 ELSE dramHosted[d]
        BY <3>1, <3>2 DEF Released
      <3>4. \A d \in Donor : InDram(d)' <=> (d \in GrantedTo \/ InDram(d))
        BY <1>1, <2>4, <2>5, <2>8 DEF InDram
      <3>5. ASSUME NEW d \in Donor
            PROVE  /\ dramHosted'[d] = IF InDram(d)' THEN 1 ELSE 0
                   /\ dramHosted'[d] \in 0 .. DramSlots
        <4>1. dramHosted[d] = (IF InDram(d) THEN 1 ELSE 0) + (IF d \in GrantedTo THEN 1 ELSE 0)
              /\ dramHosted[d] \in 0 .. DramSlots
          BY <1>1, <1>3, <2>8
        <4>2. CASE d \in GrantedTo /\ InDram(d)
          BY <1>1, <3>3, <3>4, <4>1, <4>2
        <4>3. CASE ~(d \in GrantedTo /\ InDram(d))
          BY <1>1, <3>3, <3>4, <4>1, <4>3
        <4> QED
          BY <4>2, <4>3
      <3>6. shadow' \in [Donor -> Piece \cup {None}]
        BY <1>1, <1>3, <3>1 DEF HeldTyped
      <3>7. dramHosted' \in [Donor -> 0 .. DramSlots]
        BY <3>1, <3>5 DEF Released
      <3>8. ShadowUnderDram'
        <4>1. SUFFICES ASSUME NEW d \in Donor, shadow'[d] # None
                       PROVE  /\ InDram(d)' /\ shadow'[d].tier = "ssd"
                              /\ shadow'[d].iteration < pieces'[d].iteration
          BY DEF ShadowUnderDram
        <4>2. CASE d \in GrantedTo /\ pieces[d] # None /\ ~InDram(d)
          <5>1. shadow'[d] = pieces[d] /\ pieces'[d] = PieceOf(d)
            BY <2>4, <3>1, <4>2
          <5>2. pieces[d].tier = "ssd"
            BY <1>3, <4>2, PieceFields DEF InDram
          <5> QED
            BY <2>2, <2>5, <3>4, <4>2, <5>1, <5>2
        <4>3. CASE ~(d \in GrantedTo /\ pieces[d] # None /\ ~InDram(d))
          <5>1. shadow'[d] = shadow[d] /\ shadow[d] # None
            BY <3>1, <4>1, <4>3
          <5>2. InDram(d) /\ shadow[d].tier = "ssd" /\ shadow[d].iteration < pieces[d].iteration
            BY <1>1, <5>1 DEF ShadowUnderDram
          <5>3. CASE d \in GrantedTo
            <6>1. pieces'[d] = PieceOf(d) /\ pieces[d].iteration < wave[1] /\ pieces[d] # None
              BY <2>2, <2>4, <5>2, <5>3 DEF InDram
            <6>2. pieces[d].iteration \in Int /\ shadow[d].iteration \in Int /\ wave[1] \in Int
              <7>1. pieces[d] \in Piece /\ shadow[d] \in Piece /\ PieceOf(d) \in Piece
                BY <1>3, <2>5, <5>1, <5>3, <6>1
              <7> QED
                BY <2>5, <5>3, <7>1, PieceFields
            <6> QED
              BY <2>5, <3>4, <5>1, <5>2, <5>3, <6>1, <6>2
          <5>4. CASE d \notin GrantedTo
            BY <2>4, <3>4, <5>1, <5>2, <5>4
          <5> QED
            BY <5>3, <5>4
        <4> QED
          BY <4>2, <4>3
      <3>9. DramLedgerExact'
        BY <1>2, <2>1, <3>5 DEF DramLedgerExact
      <3> QED
        BY <1>1, <2>1, <2>6, <3>6, <3>7, <3>8, <3>9 DEF HeldTyped
    <2> QED
      BY <2>7, <2>8
  <1>14. ASSUME placement = "ssd", UNCHANGED <<shadow, dramHosted>>, stragglers' \subseteq Straggler,
                \A d \in Donor : \/ pieces'[d] = pieces[d]
                                 \/ pieces'[d] \in Piece /\ pieces'[d].tier = "ssd",
                pieces' = [d \in Donor |-> pieces'[d]]
         PROVE  HeldTyped' /\ ShadowUnderDram' /\ DramLedgerExact'
    <2>1. \A d \in Donor : ~InDram(d) /\ ~InDram(d)'
      BY <1>1, <1>14 DEF Placements, InDram
    <2>2. \A d \in Donor : shadow[d] = None
      BY <1>1, <2>1 DEF ShadowUnderDram
    <2>3. pieces' \in [Donor -> Piece \cup {None}]
      BY <1>1, <1>14 DEF HeldTyped
    <2> QED
      BY <1>1, <1>2, <1>14, <2>1, <2>2, <2>3 DEF HeldTyped, ShadowUnderDram, DramLedgerExact, Straggler
  <1>15. CASE LandParity
    <2>1. flush = "parity" /\ ~aborted /\ UNCHANGED <<shadow, dramHosted>>
      BY <1>15 DEF LandParity
    <2>2. placement = "ssd" /\ flush \in {"stripe", "parity"}
      BY <1>1, <2>1 DEF WaveMoves
    <2>3. \A d \in GrantedTo : PieceOf(d) \in Piece /\ PieceOf(d).tier = placement /\ d \in Donor
      BY <2>2, PieceOfWave DEF Inductive
    <2>4. PICK late \in {{}} \cup {{d} : d \in IF backstop = "parity_cutoff" THEN GrantedTo ELSE {}} :
            LET landed == {d \in GrantedTo \ late : Registers(wave[1], d)}
            IN  /\ pieces' = [d \in Donor |-> IF d \in landed THEN PieceOf(d) ELSE pieces[d]]
                /\ stragglers' = stragglers \cup
                      {[donor |-> d, piece |-> PieceOf(d), watched |-> GrantedTo, aborted |-> FALSE]
                           : d \in late}
      BY <1>15, Zenon DEF LandParity
    <2> DEFINE landed == {d \in GrantedTo \ late : Registers(wave[1], d)}
    <2>5. late \subseteq GrantedTo /\ landed \subseteq GrantedTo
      <3>1. late = {} \/ \E d \in GrantedTo : late = {d}
        <4>1. CASE backstop = "parity_cutoff"
          BY <4>1
        <4>2. CASE backstop # "parity_cutoff"
          BY <4>2
        <4> QED
          BY <4>1, <4>2
      <3> QED
        BY <3>1
    <2>6. /\ pieces' = [d \in Donor |-> IF d \in landed THEN PieceOf(d) ELSE pieces[d]]
          /\ stragglers' = stragglers \cup
                {[donor |-> d, piece |-> PieceOf(d), watched |-> GrantedTo, aborted |-> FALSE] : d \in late}
      BY <2>4, Zenon
    <2> HIDE DEF landed
    <2>7. \A d \in Donor : pieces'[d] = pieces[d] \/ (pieces'[d] \in Piece /\ pieces'[d].tier = "ssd")
      BY <2>2, <2>3, <2>5, <2>6
    <2>8. stragglers' \subseteq Straggler
      <3>1. GrantedTo \subseteq Donor
        BY <2>3
      <3>2. \A d \in late : [donor |-> d, piece |-> PieceOf(d), watched |-> GrantedTo, aborted |-> FALSE]
                            \in Straggler
        BY <2>3, <2>5, <3>1 DEF Straggler
      <3> QED
        BY <1>4, <2>6, <3>2
    <2>9. pieces' = [d \in Donor |-> pieces'[d]]
      BY <2>6
    <2> QED
      BY <1>14, <2>1, <2>2, <2>7, <2>8, <2>9
  <1>16. CASE SettleStraggler
    <2>1. PICK s \in stragglers :
            /\ stragglers' = stragglers \ {s} /\ UNCHANGED <<flushVars, shadow, dramHosted>>
            /\ pieces' = pieces \/ pieces' = [pieces EXCEPT ![s.donor] = s.piece]
      BY <1>16 DEF SettleStraggler
    <2>2. placement = "ssd" /\ s.piece.tier = "ssd" /\ s.donor \in Donor /\ s.piece \in Piece
      BY <1>1, <1>4 DEF Placements, Straggler
    <2>3. stragglers' \subseteq Straggler
      BY <1>4, <2>1
    <2>4. /\ \A d \in Donor : pieces'[d] = pieces[d] \/ (pieces'[d] \in Piece /\ pieces'[d].tier = "ssd")
          /\ pieces' = [d \in Donor |-> pieces'[d]]
      BY <1>1, <2>1, <2>2 DEF HeldTyped
    <2> QED
      BY <1>14, <2>1, <2>2, <2>3, <2>4
  <1>17. CASE Demote
    <2>1. PICK x \in demotions :
            \/ UNCHANGED held
            \/ /\ pieces[x[1]] = x[2]
               /\ pieces' = [pieces EXCEPT ![x[1]].tier = "ssd"]
               /\ shadow' = [shadow EXCEPT ![x[1]] = None]
               /\ dramHosted' = Released(dramHosted, {x[1]})
      BY <1>17, Zenon DEF Demote
    <2>2. UNCHANGED <<flushVars, stragglers>> /\ GrantedTo' = GrantedTo
      BY <1>17 DEF Demote, GrantedTo
    <2>3. x[1] \in Donor /\ x[2].tier = "dram" /\ x[2] \in Piece
      BY <1>1, TypeParts DEF Placements, Inductive, BackgroundTyped
    <2>4. CASE UNCHANGED held
      BY <1>4, <1>5, <2>2, <2>4
    <2>5. CASE /\ pieces[x[1]] = x[2] /\ pieces' = [pieces EXCEPT ![x[1]].tier = "ssd"]
               /\ shadow' = [shadow EXCEPT ![x[1]] = None]
               /\ dramHosted' = Released(dramHosted, {x[1]})
      <3> DEFINE e == x[1]
      <3>1. InDram(e) /\ dramHosted[e] = 1 + Kept(e) /\ dramHosted[e] \in 0 .. DramSlots
        BY <1>1, <1>3, <2>3, <2>5 DEF InDram
      <3>2. /\ \A d \in Donor \ {e} : pieces'[d] = pieces[d] /\ shadow'[d] = shadow[d]
                                      /\ dramHosted'[d] = dramHosted[d]
            /\ pieces'[e] = [pieces[e] EXCEPT !.tier = "ssd"] /\ shadow'[e] = None
            /\ dramHosted'[e] = dramHosted[e] - 1
        BY <1>1, <2>3, <2>5, <3>1 DEF HeldTyped, Released
      <3>3. pieces'[e] \in Piece /\ pieces'[e].tier = "ssd"
        BY <2>3, <2>5, <3>2 DEF Piece
      <3> HIDE DEF e
      <3>4. e \in Donor
        BY <2>3 DEF e
      <3>5. HeldTyped'
        <4>1. \A d \in Donor : /\ pieces'[d] \in Piece \cup {None} /\ shadow'[d] \in Piece \cup {None}
                               /\ dramHosted'[d] \in 0 .. DramSlots
          BY <1>1, <1>3, <3>1, <3>2, <3>3, <3>4 DEF HeldTyped
        <4>2. /\ pieces' = [d \in Donor |-> pieces'[d]] /\ shadow' = [d \in Donor |-> shadow'[d]]
              /\ dramHosted' = [d \in Donor |-> dramHosted'[d]]
          BY <1>1, <2>5 DEF HeldTyped, Released
        <4> QED
          BY <1>1, <2>2, <4>1, <4>2 DEF HeldTyped
      <3>6. ~InDram(e)' /\ \A d \in Donor \ {e} : InDram(d)' <=> InDram(d)
        BY <3>2, <3>3 DEF InDram
      <3>7. ShadowUnderDram'
        BY <1>1, <3>2, <3>6 DEF ShadowUnderDram
      <3>8. DramLedgerExact'
        <4>1. ASSUME NEW d \in Donor
              PROVE  dramHosted'[d] = (IF InDram(d)' THEN 1 ELSE 0) + Kept(d)
          <5>1. Kept(d) \in 0 .. 1
            OBVIOUS
          <5>2. CASE d = e
            BY <3>1, <3>2, <3>6, <5>1, <5>2
          <5>3. CASE d # e
            BY <1>1, <3>2, <3>6, <5>3
          <5> QED
            BY <5>2, <5>3
        <4> QED
          BY <1>2, <2>2, <4>1 DEF DramLedgerExact
      <3> QED
        BY <3>5, <3>7, <3>8
    <2> QED
      BY <2>1, <2>4, <2>5
  <1>18. CASE StartChain \/ StartDrain \/ FinishDrain \/ DonorReturns
    <2>1. UNCHANGED <<held, granted, stragglers>>
      BY <1>18 DEF StartChain, StartDrain, FinishDrain, DonorReturns
    <2> QED
      BY <1>4, <1>5, <2>1 DEF GrantedTo
  <1>19. CASE OwnerFails
    <2>1. /\ UNCHANGED <<held, granted>>
          /\ stragglers' = {[s EXCEPT !.aborted = TRUE] : s \in stragglers}
      BY <1>19 DEF OwnerFails
    <2>2. stragglers' \subseteq Straggler
      BY <1>4, <2>1 DEF Straggler
    <2> QED
      BY <1>5, <2>1, <2>2 DEF GrantedTo
  <1>20. CASE RecoveryStep
    <2> DEFINE more == [d \in Donor |-> Kept(d)]
    <2>1. UNCHANGED <<granted, stragglers>>
          /\ \E i \in 0 .. MaxIteration : \E copies : Discard(i, dramHosted, copies)
      <3>1. CASE StartRecovery
        <4>1. iteration \in 0 .. MaxIteration
          BY <1>1 DEF OwnerTyped
        <4> QED
          BY <3>1, <4>1 DEF StartRecovery
      <3>2. CASE FinishRecovery
        <4>1. restore \in Fetch
          BY <1>1, <3>2 DEF FinishRecovery, OwnerTyped
        <4>2. (IF restore.aborted THEN 0 ELSE restore.iteration) \in 0 .. MaxIteration
          BY <4>1, Constants DEF Fetch
        <4> QED
          BY <3>2, <4>2 DEF FinishRecovery
      <3> QED
        BY <1>20, <3>1, <3>2 DEF RecoveryStep
    <2>2. PICK i \in 0 .. MaxIteration : \E copies : Discard(i, dramHosted, copies)
      BY <2>1
    <2>3. more \in [Donor -> Nat] /\ \A d \in Donor : more[d] = Kept(d)
      OBVIOUS
    <2>4. GrantedTo' = GrantedTo
      BY <2>1 DEF GrantedTo
    <2> HIDE DEF more
    <2>5. dramHosted \in [Donor -> 0 .. DramSlots]
      BY <1>1 DEF HeldTyped
    <2> QED
      BY <1>1, <1>11, <2>1, <2>2, <2>3, <2>4, <2>5
  <1>21. CASE DonorFails
    <2>1. PICK e \in available \ failed, kind \in {"process", "reboot", "node"} :
            /\ AbortWatching(e)
            /\ IF LostBy(kind, e)
               THEN /\ pieces' = [pieces EXCEPT ![e] = LeftOn(kind, e)]
                    /\ shadow' = [shadow EXCEPT ![e] = None]
                    /\ dramHosted' = IF InDram(e) THEN Released(dramHosted, {e}) ELSE dramHosted
               ELSE UNCHANGED held
      BY <1>21 DEF DonorFails
    <2>2. e \in Donor
      BY <2>1, ParametersTyped DEF Inductive
    <2>3. stragglers' \subseteq Straggler
      <3>1. stragglers' = {IF e \in s.watched THEN [s EXCEPT !.aborted = TRUE] ELSE s : s \in stragglers}
        BY <2>1 DEF AbortWatching
      <3>2. \A s \in Straggler : [s EXCEPT !.aborted = TRUE] \in Straggler
        BY DEF Straggler
      <3> QED
        BY <1>4, <3>1, <3>2
    <2>4. GrantedTo' = GrantedTo
      BY <1>21 DEF DonorFails, GrantedTo
    <2>5. CASE UNCHANGED held
      BY <1>5, <2>3, <2>4, <2>5
    <2>6. CASE LostBy(kind, e) /\ ~UNCHANGED held
      <3>1. /\ pieces' = [pieces EXCEPT ![e] = LeftOn(kind, e)]
            /\ shadow' = [shadow EXCEPT ![e] = None]
            /\ dramHosted' = IF InDram(e) THEN Released(dramHosted, {e}) ELSE dramHosted
        BY <2>1, <2>6, Zenon
      <3>2. /\ \A d \in Donor \ {e} : pieces'[d] = pieces[d] /\ shadow'[d] = shadow[d]
                                      /\ dramHosted'[d] = dramHosted[d]
            /\ pieces'[e] = LeftOn(kind, e) /\ shadow'[e] = None
            /\ dramHosted'[e] = Kept(e)
        <4>1. dramHosted[e] = (IF InDram(e) THEN 1 ELSE 0) + Kept(e) /\ Kept(e) \in 0 .. 1
              /\ dramHosted[e] \in 0 .. DramSlots
          BY <1>1, <1>3, <2>2
        <4>2. CASE InDram(e)
          BY <1>1, <2>2, <3>1, <4>1, <4>2 DEF HeldTyped, Released
        <4>3. CASE ~InDram(e)
          BY <1>1, <2>2, <3>1, <4>1, <4>3 DEF HeldTyped
        <4> QED
          BY <4>2, <4>3
      <3>3. pieces'[e] \in Piece \cup {None} /\ (pieces'[e] # None => pieces'[e].tier = "ssd")
        BY <1>1, <1>3, <2>2, <3>2 DEF LeftOn, ShadowUnderDram
      <3>4. HeldTyped'
        <4>1. \A d \in Donor : /\ pieces'[d] \in Piece \cup {None} /\ shadow'[d] \in Piece \cup {None}
                               /\ dramHosted'[d] \in 0 .. DramSlots
          <5>1. Kept(e) \in 0 .. DramSlots
            <6>1. dramHosted[e] = (IF InDram(e) THEN 1 ELSE 0) + Kept(e) /\ Kept(e) \in 0 .. 1
                  /\ dramHosted[e] \in 0 .. DramSlots
              BY <1>1, <1>3, <2>2
            <6> QED
              BY <1>1, <6>1
          <5> QED
            BY <1>1, <1>3, <3>2, <3>3, <5>1 DEF HeldTyped
        <4>2. /\ pieces' = [d \in Donor |-> pieces'[d]] /\ shadow' = [d \in Donor |-> shadow'[d]]
              /\ dramHosted' = [d \in Donor |-> dramHosted'[d]]
          BY <1>1, <3>1 DEF HeldTyped, Released
        <4> QED
          BY <2>3, <4>1, <4>2 DEF HeldTyped, Straggler
      <3>5. ~InDram(e)' /\ \A d \in Donor \ {e} : InDram(d)' <=> InDram(d)
        BY <3>2, <3>3 DEF InDram
      <3>6. ShadowUnderDram'
        BY <1>1, <3>2, <3>5 DEF ShadowUnderDram
      <3>7. DramLedgerExact'
        <4>1. ASSUME NEW d \in Donor
              PROVE  dramHosted'[d] = (IF InDram(d)' THEN 1 ELSE 0) + Kept(d)
          <5>1. Kept(d) \in 0 .. 1
            OBVIOUS
          <5>2. CASE d = e
            BY <3>2, <3>5, <5>1, <5>2
          <5>3. CASE d # e
            BY <1>1, <3>2, <3>5, <5>3
          <5> QED
            BY <5>2, <5>3
        <4> QED
          BY <1>2, <2>4, <4>1 DEF DramLedgerExact
      <3> QED
        BY <3>4, <3>6, <3>7
    <2> QED
      BY <2>1, <2>5, <2>6, Zenon
  <1>22. CASE UNCHANGED vars
    <2>1. UNCHANGED <<held, granted, stragglers>>
      BY <1>22 DEF vars
    <2> QED
      BY <1>4, <1>5, <2>1 DEF GrantedTo
  <1> QED
    BY <1>8, <1>9, <1>10, <1>12, <1>13, <1>15, <1>16, <1>17, <1>18, <1>19, <1>20, <1>21, <1>22, Zenon
      DEF Next, FlushStep, BackgroundStep

\* What a stripe changes when it lands: all of it registers.
LEMMA LandStripeDoes ==
  ASSUME Inductive, LandStripe
  PROVE  /\ flush = "stripe" /\ ~aborted /\ FreeLock
         /\ pieces' = [d \in Donor |-> IF d \in GrantedTo THEN PieceOf(d) ELSE pieces[d]]
         /\ placement = "ssd" =>
              /\ UNCHANGED <<shadow, dramHosted, demotions, chains>>
              /\ \E started \in Drained(wave[1], wave[2], {<<d, IndexOf(d)>> : d \in GrantedTo}, Len(granted)) :
                   drains' = drains \cup started
         /\ placement # "ssd" =>
              /\ UNCHANGED drains
              /\ shadow' = [d \in Donor |-> IF d \in GrantedTo /\ pieces[d] # None /\ ~InDram(d)
                                            THEN pieces[d] ELSE shadow[d]]
              /\ demotions' = demotions \cup {<<d, PieceOf(d)>> : d \in GrantedTo}
              /\ chains' = chains \/ chains' = chains \cup {{<<d, PieceOf(d)>> : d \in GrantedTo}}
  <1>1. flush = "stripe" /\ ~aborted /\ FreeLock
    BY DEF LandStripe
  <1>2. {d \in GrantedTo : Registers(wave[1], d)} = GrantedTo
    BY <1>1, LandingRegisters
  <1>3. pieces' = [d \in Donor |-> IF d \in GrantedTo THEN PieceOf(d) ELSE pieces[d]]
    BY <1>2, Zenon DEF LandStripe
  <1>4. ASSUME placement = "ssd"
        PROVE  /\ UNCHANGED <<shadow, dramHosted, demotions, chains>>
               /\ \E started \in Drained(wave[1], wave[2], {<<d, IndexOf(d)>> : d \in GrantedTo}, Len(granted)) :
                    drains' = drains \cup started
    BY <1>2, <1>4, Zenon DEF LandStripe
  <1>5. ASSUME placement # "ssd"
        PROVE  /\ UNCHANGED drains
               /\ shadow' = [d \in Donor |-> IF d \in GrantedTo /\ pieces[d] # None /\ ~InDram(d)
                                             THEN pieces[d] ELSE shadow[d]]
               /\ demotions' = demotions \cup {<<d, PieceOf(d)>> : d \in GrantedTo}
               /\ chains' = chains \/ chains' = chains \cup {{<<d, PieceOf(d)>> : d \in GrantedTo}}
    BY <1>2, <1>5, Zenon DEF LandStripe
  <1> QED
    BY <1>1, <1>3, <1>4, <1>5

\* What a wave with parity changes when it lands: all of it registers, but for
\* what is late.
LEMMA LandParityDoes ==
  ASSUME Inductive, LandParity
  PROVE  /\ flush = "parity" /\ ~aborted /\ FreeLock /\ placement = "ssd"
         /\ \E late \in SUBSET GrantedTo :
              /\ pieces' = [d \in Donor |-> IF d \in GrantedTo \ late THEN PieceOf(d) ELSE pieces[d]]
              /\ stragglers' = stragglers \cup
                   {[donor |-> d, piece |-> PieceOf(d), watched |-> GrantedTo, aborted |-> FALSE] : d \in late}
  <1>1. flush = "parity" /\ ~aborted /\ FreeLock /\ placement = "ssd"
    BY DEF LandParity, Inductive, WaveMoves
  <1>2. PICK late \in {{}} \cup {{d} : d \in IF backstop = "parity_cutoff" THEN GrantedTo ELSE {}} :
          LET landed == {d \in GrantedTo \ late : Registers(wave[1], d)}
          IN  /\ pieces' = [d \in Donor |-> IF d \in landed THEN PieceOf(d) ELSE pieces[d]]
              /\ stragglers' = stragglers \cup
                    {[donor |-> d, piece |-> PieceOf(d), watched |-> GrantedTo, aborted |-> FALSE]
                         : d \in late}
    BY Zenon DEF LandParity
  <1>3. late \subseteq GrantedTo
    <2>1. CASE backstop = "parity_cutoff"
      BY <2>1
    <2>2. CASE backstop # "parity_cutoff"
      BY <2>2
    <2> QED
      BY <2>1, <2>2
  <1>4. {d \in GrantedTo \ late : Registers(wave[1], d)} = GrantedTo \ late
    BY <1>1, LandingRegisters
  <1>5. /\ pieces' = [d \in Donor |-> IF d \in GrantedTo \ late THEN PieceOf(d) ELSE pieces[d]]
        /\ stragglers' = stragglers \cup
             {[donor |-> d, piece |-> PieceOf(d), watched |-> GrantedTo, aborted |-> FALSE] : d \in late}
    BY <1>2, <1>4, Zenon
  <1> QED
    BY <1>1, <1>3, <1>5

\* The pairs of a wave: as many as its donors.
LEMMA PairsOfWave ==
  ASSUME granted \in Seq(Donor), \A i, j \in DOMAIN granted : granted[i] = granted[j] => i = j,
         NEW f, f = [d \in GrantedTo |-> f[d]]
  PROVE  /\ IsFiniteSet({<<d, f[d]>> : d \in GrantedTo})
         /\ Cardinality({<<d, f[d]>> : d \in GrantedTo}) = Len(granted)
  <1>1. IsFiniteSet(GrantedTo) /\ Cardinality(GrantedTo) = Len(granted)
    BY IndexOfDonor
  <1> DEFINE g == [d \in GrantedTo |-> <<d, f[d]>>]
             T == {<<d, f[d]>> : d \in GrantedTo}
  <1>2. /\ g \in [GrantedTo -> T] /\ \A t \in T : \E d \in GrantedTo : g[d] = t
        /\ \A x, y \in GrantedTo : g[x] = g[y] => x = y
    OBVIOUS
  <1> HIDE DEF g, T
  <1>3. IsFiniteSet(T) /\ Cardinality(T) = Cardinality(GrantedTo)
    BY <1>1, <1>2, ImageOf
  <1> QED
    BY <1>1, <1>3 DEF T

\* Every step leaves pieces in DRAM, stragglers, demotions and chains to the
\* placement that has them, and stragglers of an earlier epoch to abort.
LEMMA PlacementsStep ==
  ASSUME Inductive, [Next]_vars PROVE Placements'
  <1>1. /\ HeldTyped /\ OwnerTyped /\ FlushTyped /\ BackgroundTyped /\ ShadowUnderDram /\ WaveMoves
        /\ Placements /\ K \in Nat /\ placement \in {"ssd", "dram"} /\ epoch \in Nat
    BY TypeParts, Constants, ParametersTyped DEF Inductive, OwnerTyped, Epoch
  <1>2. UNCHANGED <<placement, backstop, available>>
    BY ParametersStep
  <1> DEFINE Late(s) == /\ s.piece.tier = placement /\ placement = "ssd"
                        /\ s.aborted \/ s.piece.born = epoch'
  <1>3. /\ \A s \in stragglers : /\ s.piece.tier = placement /\ placement = "ssd"
                                 /\ s.aborted \/ s.piece.born = epoch
        /\ \A d \in Donor : InDram(d) => placement = "dram"
        /\ \A x \in demotions : x[2].tier = "dram" /\ placement = "dram"
        /\ chains # {} => placement = "dram"
        /\ \A c \in chains : IsFiniteSet(c) /\ Cardinality(c) \in 1..K
    BY <1>1 DEF Placements
  <1>4. ASSUME \A s \in stragglers' : Late(s), \A d \in Donor : InDram(d)' => placement = "dram",
               demotions' \subseteq demotions, chains' \subseteq chains
        PROVE  Placements'
    BY <1>2, <1>3, <1>4 DEF Placements
  <1>5. ASSUME epoch' = epoch, stragglers' \subseteq stragglers PROVE \A s \in stragglers' : Late(s)
    BY <1>3, <1>5
  <1>6. ASSUME UNCHANGED <<epoch, stragglers, pieces>>, demotions' \subseteq demotions,
               chains' \subseteq chains
        PROVE  Placements'
    <2>1. \A d \in Donor : InDram(d)' => InDram(d)
      BY <1>6 DEF InDram
    <2> QED
      BY <1>3, <1>4, <1>5, <1>6, <2>1
  <1>7. ASSUME NEW i \in 0 .. MaxIteration, pieces' = PiecesKept(i)
        PROVE  \A d \in Donor : InDram(d)' => InDram(d)
    BY <1>1, <1>7, DiscardHeld DEF InDram
  <1> HIDE DEF Late
  <1> USE DEF ownerVars, held, background
  <1>8. CASE Train \/ Capture \/ TakeLock \/ Reserve \/ LeaveSlot \/ LandLocally
    BY <1>6, <1>8 DEF Train, Capture, TakeLock, Reserve, LeaveSlot, LandLocally
  <1>9. CASE AbortWave
    <2>1. UNCHANGED <<epoch, stragglers, demotions, chains>>
          /\ (pieces' = pieces \/ pieces' = PiecesKept(iteration))
      BY <1>9, Zenon DEF AbortWave, Discard
    <2>2. iteration \in 0 .. MaxIteration
      BY <1>1 DEF OwnerTyped
    <2>3. \A d \in Donor : InDram(d)' => InDram(d)
      BY <1>7, <2>1, <2>2 DEF InDram
    <2> QED
      BY <1>3, <1>4, <1>5, <2>1, <2>3
  <1>10. CASE LandStripe
    <2>1. /\ flush = "stripe" /\ UNCHANGED <<epoch, stragglers>>
          /\ pieces' = [d \in Donor |-> IF d \in GrantedTo THEN PieceOf(d) ELSE pieces[d]]
      BY <1>10, LandStripeDoes DEF LandStripe
    <2>2. \A d \in GrantedTo : PieceOf(d).tier = placement
      BY <2>1, PieceOfWave DEF Inductive
    <2>3. \A d \in Donor : InDram(d)' => placement = "dram"
      BY <1>3, <2>1, <2>2 DEF InDram
    <2>4. \A s \in stragglers' : Late(s)
      BY <1>5, <2>1
    <2>5. CASE placement = "ssd"
      <3>1. UNCHANGED <<demotions, chains>>
        BY <1>10, <2>5, LandStripeDoes
      <3> QED
        BY <1>4, <2>3, <2>4, <3>1
    <2>6. CASE placement # "ssd"
      <3> DEFINE new == {<<d, PieceOf(d)>> : d \in GrantedTo}
      <3>1. /\ demotions' = demotions \cup new
            /\ chains' = chains \/ chains' = chains \cup {new}
        BY <1>10, <2>6, LandStripeDoes, Zenon
      <3>2. \A x \in new : x[2].tier = "dram"
        BY <1>1, <2>2, <2>6
      <3>3. IsFiniteSet(new) /\ Cardinality(new) \in 1 .. K
        <4> DEFINE f == [d \in GrantedTo |-> PieceOf(d)]
        <4>1. f = [d \in GrantedTo |-> f[d]] /\ new = {<<d, f[d]>> : d \in GrantedTo}
          OBVIOUS
        <4> HIDE DEF f, new
        <4>2. granted \in Seq(Donor) /\ Len(granted) \in 1 .. K
              /\ \A i, j \in DOMAIN granted : granted[i] = granted[j] => i = j
          BY <1>1, <2>1 DEF FlushTyped, WaveMoves
        <4> QED
          BY <4>1, <4>2, PairsOfWave
      <3> HIDE DEF new
      <3>4. \A x \in demotions' : x[2].tier = "dram" /\ placement = "dram"
        BY <1>1, <1>3, <2>6, <3>1, <3>2
      <3>5. \A c \in chains' : IsFiniteSet(c) /\ Cardinality(c) \in 1 .. K
        BY <1>3, <3>1, <3>3
      <3> QED
        BY <1>1, <1>2, <2>3, <2>4, <2>6, <3>4, <3>5 DEF Placements, Late
    <2> QED
      BY <2>5, <2>6
  <1>11. CASE LandParity
    <2>1. /\ flush = "parity" /\ ~aborted /\ placement = "ssd" /\ UNCHANGED <<epoch, demotions, chains>>
      BY <1>11, LandParityDoes DEF LandParity
    <2>2. PICK late \in SUBSET GrantedTo :
            /\ pieces' = [d \in Donor |-> IF d \in GrantedTo \ late THEN PieceOf(d) ELSE pieces[d]]
            /\ stragglers' = stragglers \cup
                 {[donor |-> d, piece |-> PieceOf(d), watched |-> GrantedTo, aborted |-> FALSE] : d \in late}
      BY <1>11, LandParityDoes
    <2>3. \A d \in GrantedTo : PieceOf(d).tier = placement /\ PieceOf(d).born = epoch
      BY <2>1, PieceOfWave, LandingRegisters DEF Inductive
    <2>4. \A d \in Donor : InDram(d)' => placement = "dram"
      BY <1>3, <2>2, <2>3 DEF InDram
    <2>5. \A s \in stragglers' : Late(s)
      <3>1. \A d \in late : Late([donor |-> d, piece |-> PieceOf(d), watched |-> GrantedTo, aborted |-> FALSE])
        BY <2>1, <2>3 DEF Late
      <3>2. \A s \in stragglers : Late(s)
        BY <1>3, <2>1 DEF Late
      <3> QED
        BY <2>2, <3>1, <3>2
    <2> QED
      BY <1>4, <2>1, <2>4, <2>5
  <1>12. CASE SettleStraggler
    <2>1. PICK s \in stragglers :
            /\ stragglers' = stragglers \ {s} /\ UNCHANGED <<epoch, demotions, chains>>
            /\ pieces' = pieces \/ pieces' = [pieces EXCEPT ![s.donor] = s.piece]
      BY <1>12 DEF SettleStraggler
    <2>2. s.piece.tier = placement /\ s.donor \in Donor
      BY <1>1, <1>3 DEF HeldTyped
    <2>3. \A d \in Donor : InDram(d)' => placement = "dram"
      BY <1>1, <1>3, <2>1, <2>2 DEF InDram, HeldTyped
    <2> QED
      BY <1>4, <1>5, <2>1, <2>3
  <1>13. CASE Demote
    <2>1. PICK x \in demotions :
            /\ demotions' = demotions \ {x} /\ UNCHANGED <<epoch, stragglers, chains>>
      BY <1>13 DEF Demote
    <2>2. placement = "dram"
      BY <1>3
    <2> QED
      BY <1>4, <1>5, <2>1, <2>2
  <1>14. CASE StartChain \/ StartDrain \/ FinishDrain \/ DonorReturns
    BY <1>6, <1>14 DEF StartChain, StartDrain, FinishDrain, DonorReturns
  <1>15. CASE OwnerFails
    <2>1. /\ UNCHANGED <<pieces, demotions, chains>>
          /\ stragglers' = {[s EXCEPT !.aborted = TRUE] : s \in stragglers}
      BY <1>15 DEF OwnerFails
    <2>2. \A s \in stragglers' : Late(s)
      <3>1. stragglers \subseteq [donor : Donor, piece : Piece, watched : SUBSET Donor, aborted : BOOLEAN]
        BY <1>1 DEF HeldTyped
      <3> QED
        BY <1>3, <2>1, <3>1 DEF Late
    <2>3. \A d \in Donor : InDram(d)' => InDram(d)
      BY <2>1 DEF InDram
    <2> QED
      BY <1>3, <1>4, <2>1, <2>2, <2>3
  <1>16. CASE RecoveryStep
    <2>1. UNCHANGED <<epoch, stragglers, demotions, chains>>
          /\ \E i \in 0 .. MaxIteration : pieces' = PiecesKept(i)
      <3>1. CASE StartRecovery
        <4>1. iteration \in 0 .. MaxIteration
          BY <1>1 DEF OwnerTyped
        <4> QED
          BY <3>1, <4>1 DEF StartRecovery, Discard
      <3>2. CASE FinishRecovery
        <4>1. restore \in Fetch
          BY <1>1, <3>2 DEF FinishRecovery, OwnerTyped
        <4>2. (IF restore.aborted THEN 0 ELSE restore.iteration) \in 0 .. MaxIteration
          BY <4>1, Constants DEF Fetch
        <4> QED
          BY <3>2, <4>2 DEF FinishRecovery, Discard
      <3> QED
        BY <1>16, <3>1, <3>2 DEF RecoveryStep
    <2> QED
      BY <1>3, <1>4, <1>5, <1>7, <2>1
  <1>17. CASE DonorFails
    <2>1. PICK e \in available \ failed, kind \in {"process", "reboot", "node"} :
            /\ AbortWatching(e)
            /\ pieces' = pieces \/ pieces' = [pieces EXCEPT ![e] = LeftOn(kind, e)]
      BY <1>17 DEF DonorFails, held
    <2>2. UNCHANGED <<epoch, demotions, chains>>
      BY <1>17 DEF DonorFails
    <2>3. stragglers' = {IF e \in s.watched THEN [s EXCEPT !.aborted = TRUE] ELSE s : s \in stragglers}
      BY <2>1 DEF AbortWatching
    <2>4. \A s \in stragglers' : Late(s)
      <3>1. stragglers \subseteq [donor : Donor, piece : Piece, watched : SUBSET Donor, aborted : BOOLEAN]
        BY <1>1 DEF HeldTyped
      <3>2. \A s \in stragglers : Late(s) /\ Late([s EXCEPT !.aborted = TRUE])
        BY <1>3, <2>2, <3>1 DEF Late
      <3> QED
        BY <2>3, <3>2
    <2>5. \A d \in Donor : InDram(d)' => placement = "dram"
      <3>1. LeftOn(kind, e) # None => LeftOn(kind, e).tier = "ssd"
        <4>1. e \in Donor
          BY <2>1, ParametersTyped DEF Inductive
        <4> QED
          BY <1>1, <4>1 DEF LeftOn, ShadowUnderDram
      <3> QED
        BY <1>1, <1>3, <2>1, <3>1 DEF InDram, HeldTyped
    <2> QED
      BY <1>4, <2>2, <2>4, <2>5
  <1>18. CASE UNCHANGED vars
    BY <1>6, <1>18 DEF vars
  <1> QED
    BY <1>8, <1>9, <1>10, <1>11, <1>12, <1>13, <1>14, <1>15, <1>16, <1>17, <1>18, Zenon
      DEF Next, FlushStep, BackgroundStep

\* What a stripe drains when it lands on the donors' disks.
LEMMA StripeDrains ==
  ASSUME Inductive, LandStripe,
         NEW started \in Drained(wave[1], wave[2], {<<d, IndexOf(d)>> : d \in GrantedTo}, Len(granted))
  PROVE  /\ started \subseteq DrainRecord
         /\ \A w \in started : /\ w.iteration = wave[1] /\ w.born = wave[2] /\ w.epoch = epoch
                               /\ w.data = w.total
  <1>1. /\ granted \in Seq(Donor) /\ Len(granted) \in 1 .. K /\ wave[1] \in Iteration /\ wave[2] \in Epoch
        /\ \A i, j \in DOMAIN granted : granted[i] = granted[j] => i = j
        /\ epoch \in Epoch /\ K \in Nat
    <2>1. flush = "stripe" /\ FlushTyped /\ OwnerTyped /\ WaveMoves
      BY TypeParts DEF LandStripe, Inductive
    <2> QED
      BY <2>1, Constants DEF FlushTyped, OwnerTyped, WaveMoves, Wave
  <1> DEFINE f == [d \in GrantedTo |-> IndexOf(d)]
             info == {<<d, IndexOf(d)>> : d \in GrantedTo}
  <1>2. f = [d \in GrantedTo |-> f[d]] /\ info = {<<d, f[d]>> : d \in GrantedTo}
    OBVIOUS
  <1>3. info \subseteq Donor \X Index
    <2>1. \A d \in GrantedTo : d \in Donor /\ IndexOf(d) \in Index
      BY <1>1, IndexOfDonor DEF Index
    <2> QED
      BY <2>1
  <1> HIDE DEF f
  <1>4. IsFiniteSet(info) /\ Cardinality(info) = Len(granted)
    <2> HIDE DEF info
    <2> QED
      BY <1>1, <1>2, PairsOfWave
  <1> HIDE DEF info
  <1>5. started \in Drained(wave[1], wave[2], info, Len(granted))
    BY DEF info
  <1>6. Cardinality(info) <= K
    BY <1>1, <1>4
  <1>7. /\ started \subseteq DrainRecord
        /\ \A w \in started : /\ w.iteration = wave[1] /\ w.born = wave[2] /\ w.epoch = epoch
                              /\ w.total = Cardinality(info) /\ w.data = Len(granted)
    BY <1>1, <1>3, <1>4, <1>5, <1>6, DrainedTyped
  <1> QED
    BY <1>4, <1>7

\* Demotions, chains, drains and the store keep their types.
LEMMA BackgroundTypeStep ==
  ASSUME Inductive, [Next]_vars PROVE BackgroundTyped'
  <1>1. /\ BackgroundTyped /\ OwnerTyped /\ FlushTyped /\ Placements /\ K \in Nat /\ K >= 1
        /\ None \notin Stored /\ lastFlush \in 0 .. MaxIteration /\ epoch \in Epoch
    BY TypeParts, Constants, NoneDistinct DEF Inductive, OwnerTyped
  <1>2. /\ demotions \subseteq Donor \X Piece /\ chains \subseteq SUBSET (Donor \X Piece)
        /\ drains \subseteq DrainRecord
    BY <1>1 DEF BackgroundTyped
  <1>3. ASSUME demotions' \subseteq Donor \X Piece, chains' \subseteq SUBSET (Donor \X Piece),
               drains' \subseteq DrainRecord, l3' = l3
        PROVE  BackgroundTyped'
    BY <1>1, <1>3 DEF BackgroundTyped
  <1>4. ASSUME NEW i \in 0 .. MaxIteration, NEW buffers, NEW copies \in [{"dram", "ssd"} -> 0 .. MaxIteration],
               Discard(i, buffers, copies), UNCHANGED background
        PROVE  BackgroundTyped'
    <2>1. /\ l3' \in [0..(K - 1) -> Stored \cup {None}]
          /\ \A x \in DOMAIN l3 : l3'[x] # None => l3'[x] = l3[x]
      BY <1>1, <1>4, DiscardOwn
    <2> QED
      BY <1>1, <1>4, <2>1 DEF BackgroundTyped, background
  <1> USE DEF background, flushVars
  <1>5. CASE UNCHANGED <<background, l3>>
    BY <1>2, <1>3, <1>5
  <1>6. CASE Train \/ Capture \/ TakeLock \/ Reserve \/ LeaveSlot \/ LandLocally \/ LandParity
    BY <1>5, <1>6 DEF Train, Capture, TakeLock, Reserve, LeaveSlot, LandLocally, LandParity
  <1>7. CASE AbortWave
    <2>1. UNCHANGED background /\ (UNCHANGED l3 \/ \E buffers : Discard(iteration, buffers, local))
      BY <1>7, Zenon DEF AbortWave
    <2>2. iteration \in 0 .. MaxIteration /\ local \in [{"dram", "ssd"} -> 0 .. MaxIteration]
      BY <1>1 DEF OwnerTyped
    <2> QED
      BY <1>4, <1>5, <2>1, <2>2
  <1>8. CASE LandStripe
    <2>1. flush = "stripe" /\ UNCHANGED l3
      BY <1>8 DEF LandStripe
    <2>2. CASE placement = "ssd"
      <3>1. PICK started \in Drained(wave[1], wave[2], {<<d, IndexOf(d)>> : d \in GrantedTo}, Len(granted)) :
              drains' = drains \cup started
        BY <1>8, <2>2, LandStripeDoes
      <3>2. started \subseteq DrainRecord
        BY <1>8, StripeDrains
      <3>3. UNCHANGED <<demotions, chains>>
        BY <1>8, <2>2, LandStripeDoes
      <3> QED
        BY <1>2, <1>3, <2>1, <3>1, <3>2, <3>3
    <2>3. CASE placement # "ssd"
      <3> DEFINE new == {<<d, PieceOf(d)>> : d \in GrantedTo}
      <3>1. /\ UNCHANGED drains /\ demotions' = demotions \cup new
            /\ chains' = chains \/ chains' = chains \cup {new}
        BY <1>8, <2>3, LandStripeDoes, Zenon
      <3>2. new \subseteq Donor \X Piece
        <4>1. \A d \in GrantedTo : d \in Donor /\ PieceOf(d) \in Piece
          BY <2>1, PieceOfWave DEF Inductive
        <4> QED
          BY <4>1
      <3> HIDE DEF new
      <3> QED
        BY <1>2, <1>3, <2>1, <3>1, <3>2
    <2> QED
      BY <2>2, <2>3
  <1>9. CASE SettleStraggler \/ OwnerFails \/ DonorReturns
    BY <1>5, <1>9 DEF SettleStraggler, OwnerFails, DonorReturns
  <1>10. CASE Demote
    <2>1. UNCHANGED <<chains, drains, l3>> /\ demotions' \subseteq demotions
      BY <1>10 DEF Demote
    <2> QED
      BY <1>2, <1>3, <2>1
  <1>11. CASE StartChain
    <2>1. PICK wholeWave \in chains :
            /\ chains' = chains \ {wholeWave} /\ UNCHANGED <<demotions, l3>>
            /\ LET onDisk == {x \in wholeWave : Same(pieces[x[1]], x[2]) /\ ~InDram(x[1])}
                   p == (CHOOSE x \in wholeWave : TRUE)[2]
               IN  \E started \in Drained(p.iteration, p.born, {<<x[1], x[2].index>> : x \in onDisk}, p.data) :
                     drains' = drains \cup started
      BY <1>11, Zenon DEF StartChain
    <2> DEFINE onDisk == {x \in wholeWave : Same(pieces[x[1]], x[2]) /\ ~InDram(x[1])}
               y == CHOOSE x \in wholeWave : TRUE
               info == {<<x[1], x[2].index>> : x \in onDisk}
    <2>2. PICK started \in Drained(y[2].iteration, y[2].born, info, y[2].data) : drains' = drains \cup started
      BY <2>1, Zenon
    <2>3. wholeWave \subseteq Donor \X Piece /\ IsFiniteSet(wholeWave) /\ Cardinality(wholeWave) \in 1 .. K
      BY <1>1, <1>2, <2>1 DEF Placements
    <2>4. y \in wholeWave
      <3>1. wholeWave # {}
        BY <2>3, FS_EmptySet, <1>1
      <3> QED
        BY <3>1
    <2>5. IsFiniteSet(onDisk) /\ Cardinality(onDisk) <= K /\ onDisk \subseteq Donor \X Piece
      <3>1. onDisk \subseteq wholeWave
        OBVIOUS
      <3> HIDE DEF onDisk
      <3>2. IsFiniteSet(onDisk) /\ Cardinality(onDisk) <= Cardinality(wholeWave)
        BY <2>3, <3>1, FS_Subset
      <3>3. Cardinality(onDisk) \in Nat /\ Cardinality(wholeWave) \in Nat
        BY <2>3, <3>2, FS_CardinalityType
      <3> QED
        BY <1>1, <2>3, <3>1, <3>2, <3>3
    <2> HIDE DEF onDisk, y
    <2>6. info \subseteq Donor \X Index
      <3>1. \A x \in onDisk : x[1] \in Donor /\ x[2].index \in Index
        BY <2>5, PieceFields
      <3> QED
        BY <3>1
    <2>7. IsFiniteSet(info) /\ Cardinality(info) <= K
      <3> DEFINE g == [x \in onDisk |-> <<x[1], x[2].index>>]
      <3>1. g \in [onDisk -> info] /\ \A t \in info : \E x \in onDisk : g[x] = t
        OBVIOUS
      <3> HIDE DEF g, info
      <3>2. IsFiniteSet(info) /\ Cardinality(info) <= Cardinality(onDisk)
        BY <2>5, <3>1, ImageOf
      <3>3. Cardinality(info) \in Nat /\ Cardinality(onDisk) \in Nat
        BY <2>5, <3>2, FS_CardinalityType
      <3> QED
        BY <1>1, <2>5, <3>2, <3>3
    <2> HIDE DEF info
    <2>8. y[2].iteration \in Iteration /\ y[2].born \in Epoch /\ y[2].data \in 1 .. K
      BY <2>3, <2>4, PieceFields
    <2>9. started \subseteq DrainRecord
      BY <1>1, <2>6, <2>7, <2>8, DrainedTyped
    <2> QED
      BY <1>2, <1>3, <2>1, <2>2, <2>9
  <1>12. CASE StartDrain
    <2>1. PICK w \in drains : /\ UNCHANGED <<demotions, chains, l3>>
            /\ LET live == {x[1] : x \in w.pieces} \ failed
               IN  drains' = (drains \ {w}) \cup
                     (IF w.epoch # epoch \/ live = {} THEN {} ELSE {[w EXCEPT !.live = live, !.moving = TRUE]})
      BY <1>12, Zenon DEF StartDrain
    <2> DEFINE live == {x[1] : x \in w.pieces} \ failed
    <2>2. drains' \subseteq (drains \ {w}) \cup {[w EXCEPT !.live = live, !.moving = TRUE]}
      <3>1. drains' = (drains \ {w}) \cup
              (IF w.epoch # epoch \/ live = {} THEN {} ELSE {[w EXCEPT !.live = live, !.moving = TRUE]})
        BY <2>1, Zenon
      <3> QED
        BY <3>1
    <2>3. w \in DrainRecord /\ w.pieces \subseteq Donor \X Index
      BY <1>2, <2>1 DEF DrainRecord
    <2>4. live \subseteq Donor
      BY <2>3
    <2> HIDE DEF live
    <2>5. [w EXCEPT !.live = live, !.moving = TRUE] \in DrainRecord
      BY <2>3, <2>4 DEF DrainRecord
    <2> QED
      BY <1>2, <1>3, <2>1, <2>2, <2>5
  <1>13. CASE FinishDrain
    <2>1. PICK w \in drains :
            /\ drains' = drains \ {w} /\ UNCHANGED <<demotions, chains>>
            /\ IF w.aborted \/ w.epoch # epoch
               THEN UNCHANGED l3
               ELSE LET sent == {x[2] : x \in {y \in w.pieces : y[1] \in w.live}}
                    IN  l3' = [x \in DOMAIN l3 |-> IF x \in sent /\ ~After(l3[x], w.iteration)
                                                   THEN StoredPiece(w, x) ELSE l3[x]]
      BY <1>13, Zenon DEF FinishDrain
    <2>2. \/ UNCHANGED l3
          \/ /\ DOMAIN l3' = DOMAIN l3
             /\ \A x \in DOMAIN l3 : l3'[x] = l3[x] \/ l3'[x] = StoredPiece(w, x)
             /\ l3' = [x \in DOMAIN l3 |-> l3'[x]]
      BY <2>1
    <2>3. DOMAIN l3 = 0..(K - 1) /\ \A x \in DOMAIN l3 : StoredPiece(w, x) \in Stored /\ StoredPiece(w, x).index = x
      BY <1>1, <1>2, <2>1 DEF StoredPiece, Stored, DrainRecord, BackgroundTyped
    <2>4. CASE UNCHANGED l3
      BY <1>2, <1>3, <2>1, <2>4
    <2>5. CASE /\ DOMAIN l3' = DOMAIN l3
               /\ \A x \in DOMAIN l3 : l3'[x] = l3[x] \/ l3'[x] = StoredPiece(w, x)
               /\ l3' = [x \in DOMAIN l3 |-> l3'[x]]
      <3>1. \A x \in DOMAIN l3 : /\ l3'[x] \in Stored \cup {None}
                                 /\ l3'[x] # None => l3'[x].index = x
        BY <1>1, <2>3, <2>5 DEF BackgroundTyped
      <3>2. l3' \in [0..(K - 1) -> Stored \cup {None}]
        BY <2>3, <2>5, <3>1
      <3> QED
        BY <1>1, <1>2, <2>1, <2>5, <3>1, <3>2 DEF BackgroundTyped
    <2> QED
      BY <2>2, <2>4, <2>5
  <1>14. CASE RecoveryStep
    <2>1. local \in [{"dram", "ssd"} -> 0 .. MaxIteration] /\ MaxIteration \in Nat
      BY <1>1, Constants DEF OwnerTyped
    <2>2. CASE StartRecovery
      <3>1. iteration \in 0 .. MaxIteration
        BY <1>1 DEF OwnerTyped
      <3>2. Discard(iteration, dramHosted, local) /\ UNCHANGED background
        BY <2>2 DEF StartRecovery
      <3> QED
        BY <1>4, <2>1, <3>1, <3>2
    <2>3. CASE FinishRecovery
      <3> DEFINE resumed == IF restore.aborted THEN 0 ELSE restore.iteration
                 copies == [local EXCEPT !["dram"] = Max({local["dram"], resumed})]
      <3>1. restore \in Fetch
        BY <1>1, <2>3 DEF FinishRecovery, OwnerTyped
      <3>2. resumed \in 0 .. MaxIteration
        BY <2>1, <3>1 DEF Fetch
      <3>3. Discard(resumed, dramHosted, copies) /\ UNCHANGED background
        BY <2>3 DEF FinishRecovery
      <3> HIDE DEF resumed
      <3>4. Max({local["dram"], resumed}) \in 0 .. MaxIteration
        BY <2>1, <3>2, MaxOfTwo
      <3>5. copies \in [{"dram", "ssd"} -> 0 .. MaxIteration]
        BY <2>1, <3>4
      <3> HIDE DEF copies
      <3> QED
        BY <1>4, <3>2, <3>3, <3>5
    <2> QED
      BY <1>14, <2>2, <2>3 DEF RecoveryStep
  <1>15. CASE DonorFails
    <2>1. PICK d : AbortWatching(d)
      BY <1>15 DEF DonorFails
    <2>2. UNCHANGED <<demotions, chains, l3>>
      BY <1>15 DEF DonorFails
    <2>3. drains' = {IF d \in w.live THEN [w EXCEPT !.aborted = TRUE] ELSE w : w \in drains}
      BY <2>1 DEF AbortWatching
    <2>4. \A w \in DrainRecord : [w EXCEPT !.aborted = TRUE] \in DrainRecord
      BY DEF DrainRecord
    <2>5. drains' \subseteq DrainRecord
      BY <1>2, <2>3, <2>4
    <2> QED
      BY <1>2, <1>3, <2>2, <2>5
  <1>16. CASE UNCHANGED vars
    BY <1>5, <1>16 DEF vars
  <1> QED
    BY <1>6, <1>7, <1>8, <1>9, <1>10, <1>11, <1>12, <1>13, <1>14, <1>15, <1>16, Zenon
      DEF Next, FlushStep, BackgroundStep

\* A rollback is to an iteration of the run.
LEMMA RecoveryDiscards ==
  ASSUME Inductive, RecoveryStep
  PROVE  /\ iteration' \in 0 .. MaxIteration /\ owner # "up"
         /\ UNCHANGED <<epoch, stragglers, flush, wave, granted, aborted, drains>>
         /\ \E copies \in [{"dram", "ssd"} -> 0 .. MaxIteration] : Discard(iteration', dramHosted, copies)
         /\ \/ owner' = "fetching" /\ UNCHANGED <<iteration, beganAt>>
            \/ owner' = "up" /\ beganAt' = [beganAt EXCEPT ![epoch] = iteration']
  <1> USE DEF flushVars, background
  <1>1. OwnerTyped /\ MaxIteration \in Nat /\ local \in [{"dram", "ssd"} -> 0 .. MaxIteration]
    BY TypeParts, Constants DEF Inductive, OwnerTyped
  <1>2. CASE StartRecovery
    <2>1. /\ iteration' = iteration /\ iteration \in 0 .. MaxIteration /\ owner # "up" /\ owner' = "fetching"
          /\ UNCHANGED <<epoch, stragglers, flush, wave, granted, aborted, drains, beganAt>>
      BY <1>1, <1>2 DEF StartRecovery, OwnerTyped
    <2>2. Discard(iteration', dramHosted, local)
      BY <1>2, <2>1 DEF StartRecovery
    <2>3. \E copies \in [{"dram", "ssd"} -> 0 .. MaxIteration] : Discard(iteration', dramHosted, copies)
      BY <1>1, <2>2, Zenon
    <2> QED
      BY <2>1, <2>3
  <1>3. CASE FinishRecovery
    <2> DEFINE resumed == IF restore.aborted THEN 0 ELSE restore.iteration
               own == [local EXCEPT !["dram"] = Max({local["dram"], resumed})]
    <2>1. restore \in Fetch
      BY <1>1, <1>3 DEF FinishRecovery, OwnerTyped
    <2>2. resumed \in 0 .. MaxIteration
      BY <1>1, <2>1 DEF Fetch
    <2>3. /\ iteration' = resumed /\ Discard(resumed, dramHosted, own)
          /\ beganAt' = [beganAt EXCEPT ![epoch] = resumed]
          /\ owner # "up" /\ owner' = "up"
          /\ UNCHANGED <<epoch, stragglers, flush, wave, granted, aborted, drains>>
      BY <1>3 DEF FinishRecovery
    <2> HIDE DEF resumed
    <2>4. Max({local["dram"], resumed}) \in 0 .. MaxIteration
      BY <1>1, <2>2, MaxOfTwo
    <2>5. own \in [{"dram", "ssd"} -> 0 .. MaxIteration]
      BY <1>1, <2>4
    <2> HIDE DEF own
    <2>6. Discard(iteration', dramHosted, own)
      BY <2>3
    <2>7. \E copies \in [{"dram", "ssd"} -> 0 .. MaxIteration] : Discard(iteration', dramHosted, copies)
      BY <2>5, <2>6, Zenon
    <2> QED
      BY <2>2, <2>3, <2>7
  <1> QED
    BY <1>2, <1>3 DEF RecoveryStep

\* The same piece but for its tier.
Alike(p, q) ==
  p.iteration = q.iteration /\ p.born = q.born /\ p.index = q.index /\ p.data = q.data /\ p.total = q.total

\* A step tracks no piece that was not tracked, but those of the wave that lands;
\* a rollback leaves none that is newer.
LEMMA TrackedStep ==
  ASSUME Inductive, [Next]_vars
  PROVE  /\ \A x \in Tracked' :
              /\ x[1] \in Donor /\ x[2] \in Piece
              /\ \/ \E y \in Tracked : y[1] = x[1] /\ Alike(x[2], y[2])
                 \/ /\ LandStripe \/ LandParity
                    /\ x[1] \in GrantedTo /\ x[2] = PieceOf(x[1])
         /\ RecoveryStep => \A x \in Tracked' : x[2].iteration <= iteration'
  <1>1. /\ HeldTyped /\ HeldTyped' /\ OwnerTyped /\ ShadowUnderDram /\ Placements /\ TrackedOnTime
        /\ placement \in {"ssd", "dram"} /\ epoch \in Nat /\ demotions \subseteq Donor \X Piece
    BY TypeParts, HeldStep, ParametersTyped DEF Inductive, OwnerTyped, BackgroundTyped, Epoch
  <1>2. /\ \A d \in Donor : /\ pieces[d] # None => <<d, pieces[d]>> \in Tracked
                            /\ shadow[d] # None => <<d, shadow[d]>> \in Tracked
        /\ \A s \in stragglers : ~s.aborted => <<s.donor, s.piece>> \in Tracked
    BY <1>1, TrackedBy
  <1> DEFINE Straggler == [donor : Donor, piece : Piece, watched : SUBSET Donor, aborted : BOOLEAN]
  <1>3. ASSUME NEW x \in Tracked'
        PROVE  \/ x[2] # None /\ \E d \in Donor : x = <<d, pieces'[d]>>
               \/ x[2] # None /\ \E d \in Donor : x = <<d, shadow'[d]>>
               \/ \E s \in stragglers' : ~s.aborted /\ x = <<s.donor, s.piece>>
    BY <1>3, Zenon DEF Tracked
  <1>4. ASSUME NEW x \in Tracked' PROVE x[1] \in Donor /\ x[2] \in Piece
    <2>1. CASE x[2] # None /\ \E d \in Donor : x = <<d, pieces'[d]>>
      BY <1>1, <2>1 DEF HeldTyped
    <2>2. CASE x[2] # None /\ \E d \in Donor : x = <<d, shadow'[d]>>
      BY <1>1, <2>2 DEF HeldTyped
    <2>3. CASE \E s \in stragglers' : ~s.aborted /\ x = <<s.donor, s.piece>>
      BY <1>1, <2>3 DEF HeldTyped
    <2> QED
      BY <1>3, <2>1, <2>2, <2>3
  <1> DEFINE Old(x) == \E y \in Tracked : y[1] = x[1] /\ Alike(x[2], y[2])
             New(x) == (LandStripe \/ LandParity) /\ x[1] \in GrantedTo /\ x[2] = PieceOf(x[1])
  <1>5. \A x \in Tracked : Old(x)
    BY DEF Alike
  <1>6. ASSUME \A d \in Donor : pieces'[d] # None => Old(<<d, pieces'[d]>>) \/ New(<<d, pieces'[d]>>),
               \A d \in Donor : shadow'[d] # None => Old(<<d, shadow'[d]>>),
               \A s \in stragglers' : s.aborted \/ Old(<<s.donor, s.piece>>) \/ New(<<s.donor, s.piece>>)
        PROVE  \A x \in Tracked' : Old(x) \/ New(x)
    <2> HIDE DEF Old, New
    <2> TAKE x \in Tracked'
    <2>1. CASE x[2] # None /\ \E d \in Donor : x = <<d, pieces'[d]>>
      BY <1>6, <2>1
    <2>2. CASE x[2] # None /\ \E d \in Donor : x = <<d, shadow'[d]>>
      BY <1>6, <2>2
    <2>3. CASE \E s \in stragglers' : ~s.aborted /\ x = <<s.donor, s.piece>>
      BY <1>6, <2>3
    <2> QED
      BY <1>3, <2>1, <2>2, <2>3
  <1>7. /\ \A d \in Donor : /\ pieces[d] # None => Old(<<d, pieces[d]>>)
                            /\ shadow[d] # None => Old(<<d, shadow[d]>>)
        /\ \A s \in stragglers : s.aborted \/ Old(<<s.donor, s.piece>>)
    BY <1>2, <1>5
  <1> HIDE DEF Old, New
  <1>8. ASSUME NEW i \in 0 .. MaxIteration, NEW buffers, NEW copies, Discard(i, buffers, copies)
        PROVE  \A d \in Donor :
                 /\ pieces'[d] # None => Old(<<d, pieces'[d]>>) /\ pieces'[d].iteration <= i
                 /\ shadow'[d] # None => Old(<<d, shadow'[d]>>) /\ shadow'[d].iteration <= i
    <2>1. pieces' = PiecesKept(i) /\ shadow' = ShadowKept(i)
      BY <1>8 DEF Discard
    <2> QED
      BY <1>1, <1>7, <2>1, DiscardHeld
  <1> USE DEF held
  <1>9. ASSUME UNCHANGED <<pieces, shadow, stragglers>> PROVE \A x \in Tracked' : Old(x) \/ New(x)
    BY <1>6, <1>7, <1>9
  <1>10. ASSUME Next PROVE \A x \in Tracked' : Old(x) \/ New(x)
    <2>1. CASE Train \/ Capture \/ TakeLock \/ Reserve \/ LeaveSlot \/ LandLocally
      BY <1>9, <2>1 DEF Train, Capture, TakeLock, Reserve, LeaveSlot, LandLocally
    <2>2. CASE AbortWave
      <3>1. UNCHANGED stragglers
            /\ (UNCHANGED <<pieces, shadow>> \/ \E buffers : Discard(iteration, buffers, local))
        BY <2>2, Zenon DEF AbortWave
      <3>2. iteration \in 0 .. MaxIteration
        BY <1>1 DEF OwnerTyped
      <3>3. CASE UNCHANGED <<pieces, shadow>>
        BY <1>9, <3>1, <3>3
      <3>4. CASE \E buffers : Discard(iteration, buffers, local)
        <4>1. \A d \in Donor : /\ pieces'[d] # None => Old(<<d, pieces'[d]>>)
                               /\ shadow'[d] # None => Old(<<d, shadow'[d]>>)
          BY <1>8, <3>2, <3>4
        <4> QED
          BY <1>6, <1>7, <3>1, <4>1
      <3> QED
        BY <3>1, <3>3, <3>4
    <2>3. CASE LandStripe
      <3>1. /\ UNCHANGED stragglers
            /\ pieces' = [d \in Donor |-> IF d \in GrantedTo THEN PieceOf(d) ELSE pieces[d]]
        BY <2>3, LandStripeDoes DEF LandStripe
      <3>2. \A d \in Donor : shadow'[d] # None => shadow'[d] = shadow[d] \/ shadow'[d] = pieces[d]
        <4>1. shadow' = shadow \/ shadow' = [d \in Donor |-> IF d \in GrantedTo /\ pieces[d] # None /\ ~InDram(d)
                                                             THEN pieces[d] ELSE shadow[d]]
          BY <2>3, LandStripeDoes
        <4> QED
          BY <4>1
      <3>3. \A d \in Donor : pieces'[d] # None => Old(<<d, pieces'[d]>>) \/ New(<<d, pieces'[d]>>)
        BY <1>7, <2>3, <3>1 DEF New
      <3>4. \A d \in Donor : shadow'[d] # None => Old(<<d, shadow'[d]>>)
        BY <1>7, <3>2
      <3> QED
        BY <1>6, <1>7, <3>1, <3>3, <3>4
    <2>4. CASE LandParity
      <3>1. PICK late \in SUBSET GrantedTo :
              /\ pieces' = [d \in Donor |-> IF d \in GrantedTo \ late THEN PieceOf(d) ELSE pieces[d]]
              /\ stragglers' = stragglers \cup
                   {[donor |-> d, piece |-> PieceOf(d), watched |-> GrantedTo, aborted |-> FALSE] : d \in late}
        BY <2>4, LandParityDoes
      <3>2. UNCHANGED shadow
        BY <2>4 DEF LandParity
      <3>3. \A d \in Donor : pieces'[d] # None => Old(<<d, pieces'[d]>>) \/ New(<<d, pieces'[d]>>)
        BY <1>7, <2>4, <3>1 DEF New
      <3>4. \A s \in stragglers' : s.aborted \/ Old(<<s.donor, s.piece>>) \/ New(<<s.donor, s.piece>>)
        <4>1. \A d \in late : New(<<d, PieceOf(d)>>)
          BY <2>4, <3>1 DEF New
        <4>2. ASSUME NEW s \in stragglers', s \notin stragglers PROVE New(<<s.donor, s.piece>>)
          <5>1. PICK d \in late : s = [donor |-> d, piece |-> PieceOf(d), watched |-> GrantedTo, aborted |-> FALSE]
            BY <3>1, <4>2
          <5>2. s.donor = d /\ s.piece = PieceOf(d)
            BY <5>1
          <5> QED
            BY <4>1, <5>2
        <4> QED
          BY <1>7, <4>2
      <3> QED
        BY <1>6, <1>7, <3>2, <3>3, <3>4
    <2>5. CASE SettleStraggler
      <3>1. PICK s \in stragglers :
              /\ stragglers' = stragglers \ {s} /\ UNCHANGED shadow
              /\ pieces' = pieces \/ (~s.aborted /\ pieces' = [pieces EXCEPT ![s.donor] = s.piece])
        <4>1. PICK s \in stragglers :
                /\ stragglers' = stragglers \ {s} /\ UNCHANGED shadow
                /\ pieces' = IF \/ s.aborted \/ Superseded(s.piece.iteration)
                                \/ ~Registers(s.piece.iteration, s.donor)
                             THEN pieces
                             ELSE [pieces EXCEPT ![s.donor] = s.piece]
          BY <2>5 DEF SettleStraggler
        <4>2. CASE s.aborted \/ Superseded(s.piece.iteration) \/ ~Registers(s.piece.iteration, s.donor)
          BY <4>1, <4>2
        <4>3. CASE ~(s.aborted \/ Superseded(s.piece.iteration) \/ ~Registers(s.piece.iteration, s.donor))
          BY <4>1, <4>3
        <4> QED
          BY <4>2, <4>3
      <3>2. \A d \in Donor : pieces'[d] = pieces[d] \/ (~s.aborted /\ d = s.donor /\ pieces'[d] = s.piece)
        BY <1>1, <3>1 DEF HeldTyped
      <3>3. \A d \in Donor : pieces'[d] # None => Old(<<d, pieces'[d]>>)
        BY <1>7, <3>1, <3>2
      <3> QED
        BY <1>6, <1>7, <3>1, <3>3
    <2>6. CASE Demote
      <3>1. PICK x \in demotions :
              /\ UNCHANGED stragglers
              /\ \/ UNCHANGED held
                 \/ /\ pieces[x[1]] = x[2] /\ pieces' = [pieces EXCEPT ![x[1]].tier = "ssd"]
                    /\ shadow' = [shadow EXCEPT ![x[1]] = None]
        BY <2>6, Zenon DEF Demote
      <3>2. x[1] \in Donor /\ x[2] \in Piece
        BY <1>1
      <3>3. CASE UNCHANGED held
        BY <1>9, <3>1, <3>3
      <3>4. CASE /\ pieces[x[1]] = x[2] /\ pieces' = [pieces EXCEPT ![x[1]].tier = "ssd"]
                 /\ shadow' = [shadow EXCEPT ![x[1]] = None]
        <4>1. /\ \A d \in Donor : d # x[1] => pieces'[d] = pieces[d]
              /\ pieces'[x[1]] = [x[2] EXCEPT !.tier = "ssd"]
              /\ \A d \in Donor : shadow'[d] # None => shadow'[d] = shadow[d]
          BY <1>1, <3>2, <3>4 DEF HeldTyped
        <4>2. Alike(pieces'[x[1]], x[2])
          BY <3>2, <4>1 DEF Alike, Piece
        <4>3. <<x[1], x[2]>> \in Tracked
          BY <1>1, <1>2, <3>2, <3>4, NoneDistinct
        <4>4. Old(<<x[1], pieces'[x[1]]>>)
          BY <4>2, <4>3 DEF Old
        <4> QED
          BY <1>6, <1>7, <3>1, <4>1, <4>4
      <3> QED
        BY <3>1, <3>3, <3>4
    <2>7. CASE StartChain \/ StartDrain \/ FinishDrain \/ DonorReturns
      BY <1>9, <2>7 DEF StartChain, StartDrain, FinishDrain, DonorReturns
    <2>8. CASE OwnerFails
      <3>1. UNCHANGED <<pieces, shadow>> /\ stragglers' = {[s EXCEPT !.aborted = TRUE] : s \in stragglers}
        BY <2>8 DEF OwnerFails
      <3>2. \A s \in stragglers' : s.aborted
        <4>1. stragglers \subseteq Straggler
          BY <1>1 DEF HeldTyped
        <4> QED
          BY <3>1, <4>1
      <3> QED
        BY <1>6, <1>7, <3>1, <3>2
    <2>9. CASE RecoveryStep
      <3>1. UNCHANGED stragglers /\ iteration' \in 0 .. MaxIteration
            /\ \E copies : Discard(iteration', dramHosted, copies)
        BY <2>9, RecoveryDiscards
      <3>2. \A d \in Donor : /\ pieces'[d] # None => Old(<<d, pieces'[d]>>)
                             /\ shadow'[d] # None => Old(<<d, shadow'[d]>>)
        BY <1>8, <3>1
      <3> QED
        BY <1>6, <1>7, <3>1, <3>2
    <2>10. CASE DonorFails
      <3>1. PICK e \in available \ failed, kind \in {"process", "reboot", "node"} :
              /\ AbortWatching(e)
              /\ \/ UNCHANGED <<pieces, shadow>>
                 \/ /\ pieces' = [pieces EXCEPT ![e] = LeftOn(kind, e)]
                    /\ shadow' = [shadow EXCEPT ![e] = None]
        BY <2>10 DEF DonorFails
      <3>2. \A s \in stragglers' : s.aborted \/ s \in stragglers
        <4>1. stragglers' = {IF e \in s.watched THEN [s EXCEPT !.aborted = TRUE] ELSE s : s \in stragglers}
          BY <3>1 DEF AbortWatching
        <4>2. stragglers \subseteq Straggler
          BY <1>1 DEF HeldTyped
        <4> QED
          BY <4>1, <4>2
      <3>3. \A d \in Donor : /\ pieces'[d] # None => pieces'[d] = pieces[d] \/ pieces'[d] = shadow[d]
                             /\ shadow'[d] # None => shadow'[d] = shadow[d]
        BY <1>1, <3>1 DEF HeldTyped, LeftOn
      <3>4. \A d \in Donor : /\ pieces'[d] # None => Old(<<d, pieces'[d]>>)
                             /\ shadow'[d] # None => Old(<<d, shadow'[d]>>)
        BY <1>7, <3>3
      <3> QED
        BY <1>6, <1>7, <3>2, <3>4
    <2> QED
      BY <1>10, <2>1, <2>2, <2>3, <2>4, <2>5, <2>6, <2>7, <2>8, <2>9, <2>10, Zenon
        DEF Next, FlushStep, BackgroundStep
  <1>11. ASSUME UNCHANGED vars PROVE \A x \in Tracked' : Old(x) \/ New(x)
    BY <1>9, <1>11 DEF vars
  <1>12. ASSUME RecoveryStep PROVE \A x \in Tracked' : x[2].iteration <= iteration'
    <2>1. UNCHANGED stragglers /\ iteration' \in 0 .. MaxIteration /\ owner # "up"
          /\ \E copies : Discard(iteration', dramHosted, copies)
      BY <1>12, RecoveryDiscards
    <2>2. \A d \in Donor : /\ pieces'[d] # None => pieces'[d].iteration <= iteration'
                           /\ shadow'[d] # None => shadow'[d].iteration <= iteration'
      BY <1>8, <2>1
    <2>3. \A s \in stragglers' : s.aborted
      <3>1. SUFFICES ASSUME NEW s \in stragglers, ~s.aborted PROVE FALSE
        BY <2>1
      <3>2. s.piece.born = epoch
        BY <1>1, <3>1 DEF Placements
      <3>3. OfEpoch(s.piece.iteration, s.piece.born)
        BY <1>1, <1>2, <3>1 DEF TrackedOnTime
      <3> QED
        BY <1>1, <2>1, <3>2, <3>3 DEF OfEpoch
    <2> TAKE x \in Tracked'
    <2>4. CASE x[2] # None /\ \E d \in Donor : x = <<d, pieces'[d]>>
      BY <2>2, <2>4
    <2>5. CASE x[2] # None /\ \E d \in Donor : x = <<d, shadow'[d]>>
      BY <2>2, <2>5
    <2> QED
      BY <1>3, <2>3, <2>4, <2>5
  <1> QED
    BY <1>4, <1>10, <1>11, <1>12 DEF Old, New

\* How a step moves the owner's clock, its epoch and its flush.
LEMMA Moves ==
  ASSUME Inductive, [Next]_vars
  PROVE  \/ /\ UNCHANGED <<epoch, owner, beganAt, lastFlush>>
            /\ iteration' = iteration \/ iteration' = iteration + 1
            /\ flush' = "free" \/ (flush # "free" /\ wave' = wave)
         \/ /\ UNCHANGED <<epoch, owner, beganAt, iteration>>
            /\ flush' = "slot" /\ wave' = Head(queue) /\ lastFlush' = Head(queue)[1]
            /\ Head(queue)[2] = epoch /\ Head(queue)[1] > lastFlush /\ Head(queue)[1] \in Nat
         \/ OwnerFails
         \/ RecoveryStep
  <1>1. /\ OwnerTyped /\ FlushTyped /\ BackgroundTyped /\ EpochsBegin /\ WaveMoves
        /\ lastFlush \in 0 .. MaxIteration /\ iteration \in 0 .. MaxIteration
        /\ local \in [{"dram", "ssd"} -> 0 .. MaxIteration] /\ MaxIteration \in Nat
    BY TypeParts, Constants DEF Inductive, OwnerTyped
  <1> USE DEF ownerVars, flushVars
  <1>2. ASSUME UNCHANGED <<epoch, owner, beganAt, iteration, lastFlush, flush, wave>>
        PROVE  flush' = "free" \/ (flush # "free" /\ wave' = wave)
    BY <1>2
  <1>3. CASE Train \/ Capture
    BY <1>3 DEF Train, Capture
  <1>4. CASE TakeLock
    <2>1. UNCHANGED <<epoch, owner, beganAt, iteration>> /\ flush = "free" /\ queue # <<>>
      BY <1>4 DEF TakeLock
    <2>2. CASE Head(queue)[2] # epoch \/ Head(queue)[1] <= lastFlush
      BY <1>4, <2>1, <2>2 DEF TakeLock
    <2>3. CASE ~(Head(queue)[2] # epoch \/ Head(queue)[1] <= lastFlush)
      <3>1. flush' = "slot" /\ wave' = Head(queue) /\ lastFlush' = Head(queue)[1]
        BY <1>4, <2>3 DEF TakeLock
      <3>2. Head(queue) \in Wave
        BY <1>1, <2>1 DEF FlushTyped
      <3>3. Head(queue)[1] \in Nat /\ lastFlush \in Nat
        BY <1>1, <3>2 DEF Wave, Iteration
      <3> QED
        BY <2>1, <2>3, <3>1, <3>3
    <2> QED
      BY <2>2, <2>3
  <1>5. CASE Reserve \/ LeaveSlot \/ LandLocally \/ LandStripe \/ LandParity
    BY <1>5 DEF Reserve, LeaveSlot, LandLocally, LandStripe, LandParity, FreeLock
  <1>6. CASE AbortWave
    <2>1. UNCHANGED <<epoch, owner, beganAt, iteration>> /\ flush' = "free"
      BY <1>6 DEF AbortWave, FreeLock
    <2>2. UNCHANGED <<lastFlush>> \/ \E buffers : Discard(iteration, buffers, local)
      BY <1>6, Zenon DEF AbortWave
    <2>3. lastFlush' = lastFlush
      BY <1>1, <2>2, DiscardOwn DEF EpochsBegin
    <2> QED
      BY <2>1, <2>3
  <1>7. CASE BackgroundStep
    <2>1. UNCHANGED <<epoch, owner, beganAt, iteration, lastFlush, flush, wave>>
      BY <1>7 DEF BackgroundStep, SettleStraggler, Demote, StartChain, StartDrain, FinishDrain
    <2> QED
      BY <1>1, <2>1 DEF FlushTyped
  <1>8. CASE DonorFails \/ DonorReturns \/ UNCHANGED vars
    <2>1. UNCHANGED <<epoch, owner, beganAt, iteration, lastFlush, flush, wave>>
      BY <1>8 DEF DonorFails, DonorReturns, vars
    <2> QED
      BY <1>1, <2>1 DEF FlushTyped
  <1> QED
    BY <1>3, <1>4, <1>5, <1>6, <1>7, <1>8, Zenon DEF Next, FlushStep

\* What is of the present timeline before a step is after it, when it is no newer
\* than what the owner rolls back to.
LEMMA TimeStep ==
  ASSUME Inductive, [Next]_vars, NEW it \in Iteration, NEW born \in Epoch, OfEpoch(it, born)
  PROVE  /\ OfEpoch(it, born)'
         /\ beganAt[born] < it => beganAt'[born] < it
         /\ OnTime(it, born) /\ (RecoveryStep => it <= iteration') => OnTime(it, born)'
  <1>1. /\ OwnerTyped /\ EpochsBegin /\ MaxIteration \in Nat /\ MaxFailures \in Nat
        /\ it \in Nat /\ it <= MaxIteration /\ born \in Nat /\ epoch \in Nat /\ iteration \in Nat
        /\ beganAt \in [Epoch -> 0 .. MaxIteration]
    <2>1. OwnerTyped /\ EpochsBegin
      BY TypeParts, Zenon DEF Inductive
    <2>2. epoch \in Epoch /\ iteration \in 0 .. MaxIteration /\ beganAt \in [Epoch -> 0 .. MaxIteration]
      BY <2>1, Zenon DEF OwnerTyped
    <2>3. MaxIteration \in Nat /\ MaxFailures \in Nat
      BY Constants
    <2> QED
      BY <2>1, <2>2, <2>3 DEF Epoch, Iteration
  <1>2. CASE UNCHANGED <<epoch, owner, beganAt>> /\ iteration' \in {iteration, iteration + 1}
    <2>1. it <= iteration => it <= iteration'
      BY <1>1, <1>2
    <2> QED
      BY <1>2, <2>1 DEF OfEpoch, OnTime
  <1>3. CASE OwnerFails
    <2>1. epoch' = epoch + 1 /\ UNCHANGED <<beganAt, iteration>>
      BY <1>3 DEF OwnerFails
    <2>2. born <= epoch' /\ born < epoch' /\ born # epoch'
      BY <1>1, <2>1 DEF OfEpoch
    <2>3. ASSUME OnTime(it, born) PROVE OnTime(it, born)'
      <3>1. \A e \in Epoch : e <= epoch' => e <= epoch \/ e > epoch
        BY <1>1, <2>1 DEF Epoch
      <3>2. \A e \in Epoch : e > epoch => beganAt[e] = MaxIteration
        BY <1>1 DEF EpochsBegin
      <3> QED
        BY <1>1, <2>1, <2>3, <3>1, <3>2 DEF OnTime
    <2> QED
      BY <2>1, <2>2, <2>3 DEF OfEpoch
  <1>4. CASE RecoveryStep
    <2>1. /\ iteration' \in 0 .. MaxIteration /\ owner # "up" /\ epoch' = epoch
          /\ UNCHANGED beganAt \/ beganAt' = [beganAt EXCEPT ![epoch] = iteration']
      BY <1>4, RecoveryDiscards
    <2>2. born < epoch /\ born # epoch
      BY <1>1, <2>1 DEF OfEpoch
    <2>3. \A e \in Epoch : beganAt'[e] = beganAt[e] \/ (e = epoch /\ beganAt'[e] = iteration')
      BY <1>1, <2>1
    <2>4. ASSUME OnTime(it, born), it <= iteration' PROVE OnTime(it, born)'
      <3>1. beganAt'[born] = beganAt[born]
        BY <2>2, <2>3
      <3>2. \A e \in Epoch : born < e /\ e <= epoch => it <= beganAt'[e]
        BY <2>3, <2>4 DEF OnTime
      <3> QED
        BY <2>1, <2>4, <3>1, <3>2 DEF OnTime
    <2> QED
      BY <1>4, <2>1, <2>2, <2>3, <2>4 DEF OfEpoch
  <1> QED
    BY <1>2, <1>3, <1>4, Moves

\* Every step leaves the pieces that are tracked on the present timeline.
LEMMA TrackedOnTimeStep ==
  ASSUME Inductive, [Next]_vars PROVE TrackedOnTime'
  <1>1. /\ OwnerTyped /\ HeldTyped /\ FlushTyped /\ TrackedOnTime /\ epoch \in Nat /\ lastFlush \in Nat
        /\ epoch \in Epoch
    BY TypeParts DEF Inductive, OwnerTyped, Epoch
  <1> DEFINE Fits(it, born) ==
        born = epoch' => /\ it <= lastFlush'
                         /\ flush' # "free" /\ wave'[2] = epoch' => it < wave'[1]
  <1>2. ASSUME NEW x \in Tracked'
        PROVE  /\ OfEpoch(x[2].iteration, x[2].born)' /\ OnTime(x[2].iteration, x[2].born)'
               /\ x[2].data <= x[2].total
               /\ Fits(x[2].iteration, x[2].born)
    <2> DEFINE it == x[2].iteration
               born == x[2].born
    <2>1. /\ x[2] \in Piece
          /\ \/ \E y \in Tracked : y[1] = x[1] /\ Alike(x[2], y[2])
             \/ (LandStripe \/ LandParity) /\ x[1] \in GrantedTo /\ x[2] = PieceOf(x[1])
          /\ RecoveryStep => it <= iteration'
      BY <1>2, TrackedStep
    <2>2. it \in Iteration /\ born \in Epoch /\ it \in Nat /\ born \in Nat
      BY <2>1, PieceFields DEF Epoch, Iteration
    <2>3. CASE \E y \in Tracked : y[1] = x[1] /\ Alike(x[2], y[2])
      <3>1. /\ OfEpoch(it, born) /\ OnTime(it, born) /\ x[2].data <= x[2].total
            /\ born = epoch => /\ it <= lastFlush
                               /\ flush # "free" /\ wave[2] = epoch => it < wave[1]
        <4>1. PICK y \in Tracked : y[1] = x[1] /\ Alike(x[2], y[2])
          BY <2>3
        <4>2. /\ OfEpoch(y[2].iteration, y[2].born) /\ OnTime(y[2].iteration, y[2].born)
              /\ y[2].data <= y[2].total
              /\ y[2].born = epoch => /\ y[2].iteration <= lastFlush
                                      /\ flush # "free" /\ wave[2] = epoch => y[2].iteration < wave[1]
          BY <1>1, <4>1, Zenon DEF TrackedOnTime
        <4> QED
          BY <4>1, <4>2 DEF Alike
      <3> HIDE DEF it, born
      <3>2. OfEpoch(it, born)' /\ OnTime(it, born)'
        BY <2>1, <2>2, <3>1, TimeStep
      <3>3. Fits(it, born)
        <4>1. CASE /\ UNCHANGED <<epoch, owner, beganAt, lastFlush>>
                   /\ flush' = "free" \/ (flush # "free" /\ wave' = wave)
          BY <3>1, <4>1
        <4>2. CASE /\ UNCHANGED <<epoch, owner, beganAt, iteration>>
                   /\ flush' = "slot" /\ wave' = Head(queue) /\ lastFlush' = Head(queue)[1]
                   /\ Head(queue)[2] = epoch /\ Head(queue)[1] > lastFlush /\ Head(queue)[1] \in Nat
          BY <1>1, <2>2, <3>1, <4>2
        <4>3. CASE OwnerFails
          <5>1. epoch' = epoch + 1 /\ born <= epoch
            BY <3>1, <4>3 DEF OwnerFails, OfEpoch
          <5> QED
            BY <1>1, <2>2, <5>1
        <4>4. CASE RecoveryStep
          <5>1. epoch' = epoch /\ born < epoch
            BY <3>1, <4>4, RecoveryDiscards DEF OfEpoch
          <5> QED
            BY <1>1, <2>2, <5>1
        <4> QED
          BY <4>1, <4>2, <4>3, <4>4, Moves
      <3> QED
        BY <3>1, <3>2, <3>3 DEF it, born
    <2>4. CASE (LandStripe \/ LandParity) /\ x[1] \in GrantedTo /\ x[2] = PieceOf(x[1])
      <3>1. flush \in {"stripe", "parity"} /\ ~aborted /\ flush' = "free"
            /\ UNCHANGED <<epoch, owner, beganAt, lastFlush, iteration>>
        BY <2>4 DEF LandStripe, LandParity, FreeLock, ownerVars
      <3>2. /\ it = wave[1] /\ born = wave[2] /\ x[2].data <= x[2].total
        BY <2>4, <3>1, PieceOfWave DEF Inductive
      <3>3. /\ wave[2] = epoch /\ OfEpoch(wave[1], epoch) /\ beganAt[epoch] < wave[1] /\ wave[1] = lastFlush
        BY <3>1, LandingRegisters
      <3> HIDE DEF it, born
      <3>4. OnTime(it, born)'
        BY <1>1, <3>1, <3>2, <3>3 DEF OnTime, Epoch
      <3>5. OfEpoch(it, born)'
        BY <3>1, <3>2, <3>3 DEF OfEpoch
      <3>6. Fits(it, born)
        BY <1>1, <2>2, <3>1, <3>2, <3>3
      <3> QED
        BY <3>2, <3>4, <3>5, <3>6 DEF it, born
    <2> QED
      BY <2>1, <2>3, <2>4
  <1> QED
    BY <1>2 DEF TrackedOnTime

\* Every step leaves the pieces of a wave of one size, and numbered by donor.
LEMMA OneWaveStep ==
  ASSUME Inductive, [Next]_vars PROVE OneWave'
  <1>1. /\ OneWave /\ HeldTyped /\ FlushTyped /\ TrackedOnTime /\ WaveMoves
    BY TypeParts DEF Inductive
  <1> DEFINE Agree(d, p, e, q) ==
        p.iteration = q.iteration /\ p.born = q.born =>
          p.data = q.data /\ (p.index = q.index <=> d = e)
  <1>2. ASSUME NEW x \in Tracked', NEW y \in Tracked' PROVE Agree(x[1], x[2], y[1], y[2])
    <2> DEFINE Old(z) == \E w \in Tracked : w[1] = z[1] /\ Alike(z[2], w[2])
               New(z) == (LandStripe \/ LandParity) /\ z[1] \in GrantedTo /\ z[2] = PieceOf(z[1])
    <2>1. Old(x) \/ New(x)
      BY <1>2, TrackedStep
    <2>2. Old(y) \/ New(y)
      BY <1>2, TrackedStep
    <2>3. CASE Old(x) /\ Old(y)
      <3>1. PICK v \in Tracked : v[1] = x[1] /\ Alike(x[2], v[2])
        BY <2>3
      <3>2. PICK w \in Tracked : w[1] = y[1] /\ Alike(y[2], w[2])
        BY <2>3
      <3>3. Agree(v[1], v[2], w[1], w[2])
        BY <1>1, Zenon DEF OneWave
      <3> QED
        BY <3>1, <3>2, <3>3 DEF Alike
    <2>4. ASSUME NEW z, New(z)
          PROVE  /\ flush # "free" /\ wave[2] = epoch /\ wave[1] \in Int
                 /\ z[2].iteration = wave[1] /\ z[2].born = wave[2] /\ z[2].index = IndexOf(z[1])
                 /\ z[2].data = IF flush = "parity" THEN K ELSE Len(granted)
      <3>1. flush \in {"stripe", "parity"} /\ ~aborted
        BY <2>4 DEF LandStripe, LandParity
      <3>2. wave \in Wave /\ wave[2] = epoch
        BY <3>1, LandingRegisters
      <3>3. /\ PieceOf(z[1]).iteration = wave[1] /\ PieceOf(z[1]).born = wave[2]
            /\ PieceOf(z[1]).index = IndexOf(z[1])
            /\ PieceOf(z[1]).data = IF flush = "parity" THEN K ELSE Len(granted)
        BY <2>4, <3>1, PieceOfWave DEF Inductive
      <3> QED
        BY <2>4, <3>1, <3>2, <3>3 DEF Wave, Iteration
    <2>5. ASSUME NEW z, NEW w \in Tracked, New(z), Alike(z[2], w[2]) PROVE FALSE
      <3>1. w[2].born = epoch /\ w[2].iteration = wave[1] /\ flush # "free" /\ wave[2] = epoch
            /\ wave[1] \in Int
        BY <2>4, <2>5 DEF Alike
      <3>2. w[2].iteration < wave[1]
        BY <1>1, <3>1 DEF TrackedOnTime
      <3> QED
        BY <3>1, <3>2
    <2>6. ASSUME NEW z, NEW w, New(z), Old(w), z[2].iteration = w[2].iteration, z[2].born = w[2].born
          PROVE  FALSE
      <3>1. PICK v \in Tracked : v[1] = w[1] /\ Alike(w[2], v[2])
        BY <2>6
      <3>2. v[2].born = epoch /\ v[2].iteration = wave[1] /\ flush # "free" /\ wave[2] = epoch
            /\ wave[1] \in Int
        BY <2>4, <2>6, <3>1 DEF Alike
      <3>3. v[2].iteration < wave[1]
        BY <1>1, <3>2 DEF TrackedOnTime
      <3> QED
        BY <3>2, <3>3
    <2>7. CASE New(x) /\ New(y)
      <3>1. \A d, e \in GrantedTo : IndexOf(d) = IndexOf(e) => d = e
        BY <1>1, IndexOfDonor DEF FlushTyped, WaveMoves
      <3>2. x[1] \in GrantedTo /\ y[1] \in GrantedTo
        BY <2>7
      <3>3. /\ x[2].index = IndexOf(x[1]) /\ y[2].index = IndexOf(y[1]) /\ x[2].data = y[2].data
        BY <2>4, <2>7
      <3> QED
        BY <3>1, <3>2, <3>3
    <2> HIDE DEF Old, New
    <2>8. CASE New(x) /\ Old(y)
      BY <2>6, <2>8
    <2>9. CASE Old(x) /\ New(y)
      BY <2>6, <2>9
    <2> QED
      BY <2>1, <2>2, <2>3, <2>7, <2>8, <2>9
  <1> QED
    BY <1>2 DEF OneWave

\* Every step leaves what drains to the store, and what the store holds, on the
\* present timeline.
LEMMA StoreOnTimeStep ==
  ASSUME Inductive, [Next]_vars PROVE StoreOnTime'
  <1>1. /\ OwnerTyped /\ FlushTyped /\ BackgroundTyped /\ Placements /\ StoreOnTime
        /\ epoch \in Epoch /\ epoch \in Nat /\ drains \subseteq DrainRecord
        /\ DOMAIN l3 = 0 .. (K - 1) /\ \A i \in DOMAIN l3 : l3[i] # None => l3[i] \in Stored
        /\ lastFlush \in 0 .. MaxIteration /\ iteration \in 0 .. MaxIteration
        /\ local \in [{"dram", "ssd"} -> 0 .. MaxIteration] /\ iteration \in Nat
    <2>1. /\ OwnerTyped /\ FlushTyped /\ BackgroundTyped /\ Placements /\ StoreOnTime
          /\ MaxIteration \in Nat /\ MaxFailures \in Nat
      BY TypeParts, Constants DEF Inductive
    <2>2. /\ drains \subseteq DrainRecord /\ l3 \in [0 .. (K - 1) -> Stored \cup {None}]
      BY <2>1 DEF BackgroundTyped
    <2>3. DOMAIN l3 = 0 .. (K - 1) /\ \A i \in DOMAIN l3 : l3[i] # None => l3[i] \in Stored
      BY <2>2
    <2> QED
      BY <2>1, <2>2, <2>3 DEF OwnerTyped, Epoch
  <1>2. UNCHANGED <<placement, backstop, available>>
    BY ParametersStep
  <1>3. SUFFICES ASSUME placement = "ssd" PROVE StoreOnTime'
    BY <1>2 DEF StoreOnTime
  <1> DEFINE Going(w) == /\ w.iteration \in Iteration /\ w.born \in Epoch
                         /\ w.born = w.epoch /\ OfEpoch(w.iteration, w.born)
                         /\ beganAt[w.born] < w.iteration /\ w.data <= w.total
             Kept(p) == /\ p.iteration \in Iteration /\ p.born \in Epoch
                        /\ OfEpoch(p.iteration, p.born) /\ OnTime(p.iteration, p.born) /\ p.data <= p.total
  <1>4. /\ \A w \in drains : Going(w)
        /\ \A i \in DOMAIN l3 : l3[i] # None => Kept(l3[i])
    <2>1. \A w \in drains : w.iteration \in Iteration /\ w.born \in Epoch
      BY <1>1 DEF DrainRecord
    <2>2. \A i \in DOMAIN l3 : l3[i] # None => l3[i].iteration \in Iteration /\ l3[i].born \in Epoch
      BY <1>1 DEF Stored
    <2> QED
      BY <1>1, <1>3, <2>1, <2>2 DEF StoreOnTime
  <1>5. ASSUME \A w \in drains' : \E v : Going(v) /\ w.iteration = v.iteration /\ w.born = v.born
                                         /\ w.epoch = v.epoch /\ w.data = v.data /\ w.total = v.total,
               \A i \in DOMAIN l3' : l3'[i] # None =>
                  Kept(l3'[i]) /\ (RecoveryStep => l3'[i].iteration <= iteration')
        PROVE  StoreOnTime'
    <2>1. ASSUME NEW w \in drains'
          PROVE  /\ w.born = w.epoch /\ OfEpoch(w.iteration, w.born)'
                 /\ beganAt'[w.born] < w.iteration /\ w.data <= w.total
      <3>1. PICK v : Going(v) /\ w.iteration = v.iteration /\ w.born = v.born
                     /\ w.epoch = v.epoch /\ w.data = v.data /\ w.total = v.total
        BY <1>5, <2>1
      <3>2. Going(w)
        BY <3>1
      <3> DEFINE it == w.iteration
                 born == w.born
      <3>3. it \in Iteration /\ born \in Epoch /\ OfEpoch(it, born) /\ beganAt[born] < it
        BY <3>2
      <3> HIDE DEF it, born
      <3>4. OfEpoch(it, born)' /\ beganAt'[born] < it
        BY <3>3, TimeStep
      <3> QED
        BY <3>2, <3>4 DEF it, born
    <2>2. ASSUME NEW i \in DOMAIN l3', NEW p, p = l3'[i], p # None
          PROVE  /\ OfEpoch(p.iteration, p.born)' /\ OnTime(p.iteration, p.born)' /\ p.data <= p.total
      <3> DEFINE it == p.iteration
                 born == p.born
      <3>1. it \in Iteration /\ born \in Epoch /\ OfEpoch(it, born) /\ OnTime(it, born)
            /\ (RecoveryStep => it <= iteration') /\ p.data <= p.total
        BY <1>5, <2>2
      <3> HIDE DEF it, born
      <3>2. OfEpoch(it, born)' /\ OnTime(it, born)'
        BY <3>1, TimeStep
      <3> QED
        BY <3>1, <3>2 DEF it, born
    <2>3. \A i \in DOMAIN l3' : l3'[i] # None =>
            /\ OfEpoch(l3[i].iteration, l3[i].born)' /\ OnTime(l3[i].iteration, l3[i].born)'
            /\ l3'[i].data <= l3'[i].total
      BY <2>2 DEF OfEpoch, OnTime
    <2>4. \A w \in drains' : /\ w.born = w.epoch /\ OfEpoch(w.iteration, w.born)'
                             /\ beganAt'[w.born] < w.iteration /\ w.data <= w.total
      BY <2>1
    <2> QED
      BY <2>3, <2>4, Zenon DEF StoreOnTime
  <1> HIDE DEF Going, Kept
  <1> USE DEF background
  <1>6. ASSUME UNCHANGED <<drains, l3>>, ~RecoveryStep PROVE StoreOnTime'
    BY <1>4, <1>5, <1>6
  <1>7. ASSUME Next PROVE StoreOnTime'
    <2>1. CASE RecoveryStep
      <3>1. UNCHANGED drains /\ iteration' \in 0 .. MaxIteration
            /\ \E copies \in [{"dram", "ssd"} -> 0 .. MaxIteration] : Discard(iteration', dramHosted, copies)
        BY <2>1, RecoveryDiscards
      <3>2. /\ l3' \in [0..(K - 1) -> Stored \cup {None}]
            /\ \A x \in DOMAIN l3 : l3'[x] # None => l3'[x] = l3[x] /\ l3[x].iteration <= iteration'
        BY <1>1, <3>1, DiscardOwn
      <3>3. \A x \in DOMAIN l3' : l3'[x] # None => Kept(l3'[x]) /\ l3'[x].iteration <= iteration'
        BY <1>1, <1>4, <3>2
      <3> QED
        BY <1>4, <1>5, <3>1, <3>3
    <2>2. CASE Train \/ Capture \/ TakeLock \/ Reserve \/ LeaveSlot \/ LandLocally \/ LandParity
      <3>1. UNCHANGED <<drains, l3>>
        BY <2>2 DEF Train, Capture, TakeLock, Reserve, LeaveSlot, LandLocally, LandParity
      <3> QED
        BY <1>6, <2>1, <3>1
    <2>3. CASE SettleStraggler \/ Demote \/ OwnerFails \/ DonorReturns
      <3>1. UNCHANGED <<drains, l3>>
        BY <2>3 DEF SettleStraggler, Demote, OwnerFails, DonorReturns
      <3> QED
        BY <1>6, <2>1, <3>1
    <2>4. CASE AbortWave /\ ~RecoveryStep
      <3>1. UNCHANGED drains /\ (UNCHANGED l3 \/ \E buffers : Discard(iteration, buffers, local))
        BY <2>4, Zenon DEF AbortWave, background
      <3>2. CASE UNCHANGED l3
        BY <1>6, <2>4, <3>1, <3>2
      <3>3. CASE \E buffers : Discard(iteration, buffers, local)
        <4>1. /\ l3' \in [0..(K - 1) -> Stored \cup {None}]
              /\ \A x \in DOMAIN l3 : l3'[x] # None => l3'[x] = l3[x]
          BY <1>1, <3>3, DiscardOwn
        <4>2. \A x \in DOMAIN l3' : l3'[x] # None => Kept(l3'[x])
          BY <1>1, <1>4, <4>1
        <4> QED
          BY <1>4, <1>5, <2>4, <3>1, <4>2
      <3> QED
        BY <3>1, <3>2, <3>3
    <2>5. CASE LandStripe /\ ~RecoveryStep
      <3>1. PICK started \in Drained(wave[1], wave[2], {<<d, IndexOf(d)>> : d \in GrantedTo}, Len(granted)) :
              drains' = drains \cup started
        BY <1>3, <2>5, LandStripeDoes
      <3>2. UNCHANGED l3 /\ flush = "stripe" /\ ~aborted
        BY <2>5 DEF LandStripe
      <3>3. /\ started \subseteq DrainRecord
            /\ \A w \in started : /\ w.iteration = wave[1] /\ w.born = wave[2] /\ w.epoch = epoch
                                  /\ w.data = w.total
        BY <2>5, StripeDrains
      <3>4. /\ wave \in Wave /\ wave[2] = epoch /\ OfEpoch(wave[1], epoch) /\ beganAt[epoch] < wave[1]
        BY <3>2, LandingRegisters
      <3>5. \A w \in started : Going(w)
        <4>1. \A w \in started : w.total \in Nat
          BY <1>1, <3>3, Constants DEF DrainRecord
        <4> QED
          BY <1>1, <3>3, <3>4, <4>1 DEF Going, Wave
      <3> QED
        BY <1>4, <1>5, <2>5, <3>1, <3>2, <3>5
    <2>6. CASE StartChain
      <3>1. chains # {}
        BY <2>6 DEF StartChain
      <3> QED
        BY <1>1, <1>3, <3>1 DEF Placements
    <2>7. CASE StartDrain /\ ~RecoveryStep
      <3>1. PICK w \in drains : /\ UNCHANGED l3
              /\ LET live == {x[1] : x \in w.pieces} \ failed
                 IN  drains' = (drains \ {w}) \cup
                       (IF w.epoch # epoch \/ live = {} THEN {}
                        ELSE {[w EXCEPT !.live = live, !.moving = TRUE]})
        BY <2>7, Zenon DEF StartDrain
      <3> DEFINE live == {x[1] : x \in w.pieces} \ failed
                 u == [w EXCEPT !.live = live, !.moving = TRUE]
      <3>2. drains' \subseteq (drains \ {w}) \cup {u}
        <4>1. drains' = (drains \ {w}) \cup (IF w.epoch # epoch \/ live = {} THEN {} ELSE {u})
          BY <3>1, Zenon
        <4> QED
          BY <4>1
      <3>3. u.iteration = w.iteration /\ u.born = w.born /\ u.epoch = w.epoch /\ u.data = w.data
            /\ u.total = w.total
        <4>1. w \in DrainRecord
          BY <1>1, <3>1
        <4> HIDE DEF live
        <4> QED
          BY <4>1 DEF DrainRecord
      <3> HIDE DEF u
      <3> QED
        BY <1>4, <1>5, <2>7, <3>1, <3>2, <3>3
    <2>8. CASE FinishDrain /\ ~RecoveryStep
      <3>1. PICK w \in drains :
              /\ drains' = drains \ {w}
              /\ IF w.aborted \/ w.epoch # epoch
                 THEN UNCHANGED l3
                 ELSE LET sent == {x[2] : x \in {y \in w.pieces : y[1] \in w.live}}
                      IN  l3' = [x \in DOMAIN l3 |-> IF x \in sent /\ ~After(l3[x], w.iteration)
                                                     THEN StoredPiece(w, x) ELSE l3[x]]
        BY <2>8, Zenon DEF FinishDrain
      <3>2. \/ UNCHANGED l3
            \/ /\ w.epoch = epoch /\ DOMAIN l3' = DOMAIN l3
               /\ \A x \in DOMAIN l3 : l3'[x] = l3[x] \/ l3'[x] = StoredPiece(w, x)
        BY <3>1
      <3>3. CASE UNCHANGED l3
        BY <1>4, <1>5, <2>8, <3>1, <3>3
      <3>4. CASE /\ w.epoch = epoch /\ DOMAIN l3' = DOMAIN l3
                 /\ \A x \in DOMAIN l3 : l3'[x] = l3[x] \/ l3'[x] = StoredPiece(w, x)
        <4>1. Going(w) /\ w.born = epoch
          BY <1>4, <3>1, <3>4 DEF Going
        <4>2. \A x : Kept(StoredPiece(w, x))
          <5>1. OnTime(w.iteration, w.born)
            BY <1>1, <4>1 DEF OnTime, Going, Epoch
          <5> QED
            BY <4>1, <5>1 DEF Going, Kept, StoredPiece
        <4>3. \A x \in DOMAIN l3' : l3'[x] # None => Kept(l3'[x])
          BY <1>4, <3>4, <4>2
        <4> QED
          BY <1>4, <1>5, <2>8, <3>1, <4>3
      <3> QED
        BY <3>2, <3>3, <3>4
    <2>9. CASE DonorFails /\ ~RecoveryStep
      <3>1. PICK d : AbortWatching(d)
        BY <2>9 DEF DonorFails
      <3>2. UNCHANGED l3
        BY <2>9 DEF DonorFails
      <3>3. drains' = {IF d \in w.live THEN [w EXCEPT !.aborted = TRUE] ELSE w : w \in drains}
        BY <3>1 DEF AbortWatching
      <3>4. \A u \in drains' : \E w \in drains :
              u.iteration = w.iteration /\ u.born = w.born /\ u.epoch = w.epoch /\ u.data = w.data
              /\ u.total = w.total
        BY <1>1, <3>3 DEF DrainRecord
      <3> QED
        BY <1>4, <1>5, <2>9, <3>2, <3>4
    <2> QED
      BY <1>7, <2>1, <2>2, <2>3, <2>4, <2>5, <2>6, <2>7, <2>8, <2>9, Zenon
        DEF Next, FlushStep, BackgroundStep
  <1>8. ASSUME UNCHANGED vars, ~RecoveryStep PROVE StoreOnTime'
    BY <1>6, <1>8 DEF vars
  <1>9. RecoveryStep => Next
    BY DEF Next
  <1> QED
    BY <1>7, <1>8, <1>9

-----------------------------------------------------------------------------
(***************************************************************************)
(* The invariant, and what follows from it.                                *)
(***************************************************************************)

\* The invariant holds initially.
LEMMA InductiveInit ==
  ASSUME Init PROVE Inductive
  <1>1. /\ K \in Nat /\ K >= 1 /\ DramSlots \in Nat /\ MaxIteration \in Nat /\ MaxFailures \in Nat
    BY Constants
  <1>2. <<placement, backstop, Cardinality(available)>> \in Settings /\ available \subseteq Donor
    <2>1. PICK s \in Settings : placement = s[1] /\ backstop = s[2] /\ available \in kSubset(s[3], Donor)
      BY DEF Init
    <2>2. available \subseteq Donor /\ Cardinality(available) = s[3]
      BY <2>1 DEF kSubset
    <2>3. s = <<s[1], s[2], s[3]>>
      BY <2>1, CrossJobAssumption DEF CrossJobAssumption
    <2> QED
      BY <2>1, <2>2, <2>3
  <1>3. OwnerTyped
    <2>1. 0 \in Epoch /\ 0 \in 0 .. MaxIteration /\ MaxIteration \in 0 .. MaxIteration
      BY <1>1 DEF Epoch
    <2>2. beganAt \in [Epoch -> 0 .. MaxIteration]
      BY <2>1 DEF Init
    <2>3. local \in [{"dram", "ssd"} -> 0 .. MaxIteration]
      BY <2>1 DEF Init
    <2>4. failures \in 0 .. MaxFailures
      BY <1>1 DEF Init
    <2> QED
      BY <2>1, <2>2, <2>3, <2>4 DEF Init, OwnerTyped
  <1>4. FlushTyped
    <2>1. <<>> \in Seq(Wave) /\ <<>> \in Seq(Donor) /\ FALSE \in BOOLEAN
      OBVIOUS
    <2>2. /\ captures = <<>> /\ queue = <<>> /\ granted = <<>>
          /\ flush = "free" /\ wave = None /\ aborted = FALSE
      BY Zenon DEF Init
    <2> QED
      BY <2>1, <2>2 DEF FlushTyped
  <1>5. HeldTyped
    BY <1>1 DEF Init, HeldTyped
  <1>6. BackgroundTyped
    BY DEF Init, BackgroundTyped
  <1>7. EpochsBegin
    <2>1. beganAt[0] = 0 /\ \A e \in Epoch : e > 0 => beganAt[e] = MaxIteration
      BY <1>1 DEF Init, Epoch
    <2> QED
      BY <1>1, <2>1 DEF Init, EpochsBegin
  <1>8. InOrder
    BY DEF Init, InOrder, Ascending
  <1>9. WaveMoves
    BY DEF Init, WaveMoves, Moving
  <1>10. Tracked = {}
    BY DEF Init, Tracked
  <1>11. TrackedOnTime /\ OneWave
    BY <1>10 DEF TrackedOnTime, OneWave
  <1>12. Placements /\ ShadowUnderDram /\ DramLedgerExact
    BY DEF Init, Placements, ShadowUnderDram, DramLedgerExact, InDram, GrantedTo
  <1>13. StoreOnTime
    BY DEF Init, StoreOnTime
  <1> QED
    BY <1>2, <1>3, <1>4, <1>5, <1>6, <1>7, <1>8, <1>9, <1>11, <1>12, <1>13, TypeParts DEF Inductive

\* The invariant that the theorems below rest on.
THEOREM Invariance == Spec => []Inductive
  <1>1. Init => Inductive
    BY InductiveInit
  <1>2. Inductive /\ [Next]_vars => Inductive'
    <2> SUFFICES ASSUME Inductive, [Next]_vars PROVE Inductive'
      OBVIOUS
    <2>1. TypeOK'
      <3>1. OwnerTyped' /\ FlushTyped' /\ HeldTyped' /\ BackgroundTyped'
        BY OwnerTypeStep, FlushTypeStep, HeldStep, BackgroundTypeStep
      <3>2. UNCHANGED <<placement, backstop, available>>
        BY ParametersStep
      <3>3. <<placement, backstop, Cardinality(available)>> \in Settings /\ available \subseteq Donor
        BY DEF Inductive, TypeOK
      <3> QED
        BY <3>1, <3>2, <3>3 DEF TypeOK, OwnerTyped, FlushTyped, HeldTyped, BackgroundTyped, DrainRecord
    <2> QED
      BY <2>1, EpochsBeginStep, InOrderStep, WaveMovesStep, TrackedOnTimeStep, OneWaveStep,
         PlacementsStep, HeldStep, StoreOnTimeStep DEF Inductive
  <1> QED
    BY <1>1, <1>2, PTL DEF Spec

\* The records that the owner keeps of its donors, and the DRAM ledger of each
\* donor, are exact whatever is lost, replaced, demoted, aborted or rolled back.
THEOREM RecordsCorrect == Spec => []RecordsExact
  <1>1. Inductive => RecordsExact
    BY DEF Inductive, RecordsExact
  <1> QED
    BY <1>1, Invariance, PTL

\* After a rollback no step brings back a piece of the abandoned timeline.
THEOREM TimelineCorrect == Spec => []NothingAbandoned
  <1>1. Inductive => NothingAbandoned
    <2> SUFFICES ASSUME Inductive PROVE NothingAbandoned
      OBVIOUS
    <2>1. HeldTyped /\ TrackedOnTime /\ StoreOnTime
      BY TypeParts DEF Inductive
    <2>2. ASSUME NEW p \in HeldForOwner PROVE OnTimeline(p)
      <3>1. \E d \in Donor : p # None /\ (p = pieces[d] \/ p = shadow[d])
        BY DEF HeldForOwner
      <3>2. PICK d \in Donor : <<d, p>> \in Tracked
        BY <2>1, <3>1, TrackedBy
      <3>3. OnTime(p.iteration, p.born)
        BY <2>1, <3>2 DEF TrackedOnTime
      <3> QED
        BY <3>3 DEF OnTime, OnTimeline
    <2>3. ASSUME placement = "ssd", NEW p \in Restored PROVE OnTimeline(p)
      <3>1. PICK i \in DOMAIN l3 : p = l3[i] /\ p # None
        BY DEF Restored
      <3>2. OnTime(p.iteration, p.born)
        BY <2>1, <2>3, <3>1 DEF StoreOnTime
      <3> QED
        BY <3>2 DEF OnTime, OnTimeline
    <2> QED
      BY <2>2, <2>3, Zenon DEF NothingAbandoned
  <1> QED
    BY <1>1, Invariance, PTL

\* No checkpoint of the current timeline is taken for one that was flushed.
THEOREM FlushCorrect == Spec => []FreshFlushStarts
  <1>1. Inductive => FreshFlushStarts
    BY DEF Inductive, InOrder, Ascending, FreshFlushStarts
  <1> QED
    BY <1>1, Invariance, PTL

\* Pieces of one iteration on the present timeline are of one epoch.
LEMMA SameEpoch ==
  ASSUME Inductive, NEW it \in Iteration, NEW b, NEW c,
         OfEpoch(it, b), OnTime(it, b), OfEpoch(it, c), OnTime(it, c)
  PROVE  b = c
  <1>1. /\ b \in Epoch /\ c \in Epoch /\ b \in Nat /\ c \in Nat /\ epoch \in Nat /\ it \in Nat
        /\ b <= epoch /\ c <= epoch
        /\ \A e \in Epoch : beganAt[e] \in Nat
    <2>1. OwnerTyped /\ MaxIteration \in Nat /\ MaxFailures \in Nat
      BY TypeParts, Constants DEF Inductive
    <2>2. b \in Epoch /\ c \in Epoch /\ b <= epoch /\ c <= epoch
      BY DEF OnTime, OfEpoch
    <2> QED
      BY <2>1, <2>2 DEF OwnerTyped, Epoch, Iteration
  <1>2. \A u, v \in {b, c} : ~(u < v)
    <2> SUFFICES ASSUME NEW u \in {b, c}, NEW v \in {b, c}, u < v PROVE FALSE
      OBVIOUS
    <2>1. it <= beganAt[v] /\ beganAt[v] < it /\ beganAt[v] \in Nat
      BY <1>1 DEF OnTime
    <2> QED
      BY <1>1, <2>1
  <1> QED
    BY <1>1, <1>2

\* The pieces that donors hold of an iteration are of one wave.
LEMMA SameWave ==
  ASSUME Inductive, NEW x \in Iteration, NEW d \in On(x)
  PROVE  /\ d \in Donor /\ pieces[d] \in Piece /\ pieces[d].iteration = x
         /\ pieces[d].data <= pieces[d].total
         /\ OfEpoch(x, pieces[d].born) /\ OnTime(x, pieces[d].born)
         /\ \A e \in On(x) : /\ pieces[e].born = pieces[d].born /\ pieces[e].data = pieces[d].data
                             /\ pieces[e].index = pieces[d].index => e = d
  <1>1. HeldTyped /\ TrackedOnTime /\ OneWave
    BY TypeParts DEF Inductive
  <1>2. \A e \in On(x) : /\ e \in Donor /\ pieces[e] # None /\ pieces[e].iteration = x
                         /\ pieces[e] \in Piece /\ <<e, pieces[e]>> \in Tracked
    BY <1>1, HeldFields, TrackedBy DEF On
  <1>3. \A e \in On(x) : /\ OfEpoch(x, pieces[e].born) /\ OnTime(x, pieces[e].born)
                         /\ pieces[e].data <= pieces[e].total
    <2> TAKE e \in On(x)
    <2> DEFINE y == <<e, pieces[e]>>
    <2>1. y \in Tracked /\ y[2] = pieces[e] /\ y[2].iteration = x
      BY <1>2
    <2>2. /\ OfEpoch(y[2].iteration, y[2].born) /\ OnTime(y[2].iteration, y[2].born)
          /\ y[2].data <= y[2].total
      BY <1>1, <2>1, Zenon DEF TrackedOnTime
    <2> QED
      BY <2>1, <2>2
  <1>4. ASSUME NEW e \in On(x)
        PROVE  /\ pieces[e].born = pieces[d].born /\ pieces[e].data = pieces[d].data
               /\ pieces[e].index = pieces[d].index => e = d
    <2>1. pieces[e].born = pieces[d].born
      BY <1>3, SameEpoch
    <2> DEFINE y == <<e, pieces[e]>>
               z == <<d, pieces[d]>>
    <2>2. y \in Tracked /\ z \in Tracked /\ y[1] = e /\ z[1] = d /\ y[2] = pieces[e] /\ z[2] = pieces[d]
      BY <1>2
    <2>3. y[2].iteration = z[2].iteration /\ y[2].born = z[2].born
      BY <1>2, <2>1
    <2>4. y[2].data = z[2].data /\ (y[2].index = z[2].index <=> y[1] = z[1])
      BY <1>1, <2>2, <2>3, Zenon DEF OneWave
    <2> QED
      BY <2>1, <2>2, <2>4
  <1> QED
    BY <1>2, <1>3, <1>4

\* Enough donors that are up hold a whole checkpoint among them.
LEMMA AliveIsWhole ==
  ASSUME Inductive, NEW x \in Iteration, NEW d \in On(x), Cardinality(Alive(x)) >= pieces[d].data
  PROVE  Whole(PiecesAt(x))
  <1>1. IsFiniteSet(Alive(x)) /\ Alive(x) \subseteq Donor /\ Alive(x) \subseteq On(x)
    <2>1. Alive(x) \subseteq Donor /\ Alive(x) \subseteq On(x)
      BY DEF Alive, On
    <2> QED
      BY <2>1, Constants, FS_Subset
  <1>2. pieces[d].data \in 1 .. K /\ K \in Nat
    BY SameWave, PieceFields, Constants
  <1>3. PICK e \in Alive(x) : TRUE
    <2>1. Cardinality(Alive(x)) # 0
      BY <1>2
    <2> QED
      BY <2>1, FS_EmptySet
  <1> DEFINE p == pieces[e]
             S == {q.index : q \in {r \in PiecesAt(x) : r.born = p.born}}
             f == [a \in Alive(x) |-> pieces[a].index]
  <1>4. \A a \in Alive(x) : /\ pieces[a].born = p.born /\ p.data = pieces[d].data
                            /\ pieces[a] \in PiecesAt(x)
                            /\ \A b \in Alive(x) : pieces[a].index = pieces[b].index => a = b
    BY <1>1, <1>3, SameWave DEF PiecesAt
  <1>5. \A q : q \in PiecesAt(x) <=> \E a \in Alive(x) : q = pieces[a]
    BY DEF PiecesAt
  <1>6. \A i : i \in S <=> \E a \in Alive(x) : i = pieces[a].index
    <2> TAKE i
    <2>1. i \in S <=> \E q \in PiecesAt(x) : q.born = p.born /\ i = q.index
      BY Zenon
    <2> QED
      BY <1>4, <1>5, <2>1
  <1>7. f \in [Alive(x) -> S] /\ (\A t \in S : \E a \in Alive(x) : f[a] = t)
        /\ \A a, b \in Alive(x) : f[a] = f[b] => a = b
    <2> HIDE DEF S
    <2> QED
      BY <1>4, <1>6
  <1> HIDE DEF S, f
  <1>8. Cardinality(S) = Cardinality(Alive(x))
    BY <1>1, <1>7, ImageOf
  <1>9. Cardinality(S) >= p.data /\ p \in PiecesAt(x)
    BY <1>3, <1>4, <1>8
  <1> QED
    BY <1>9 DEF Whole, S

\* Pieces on the donors and in the store that are all there are a whole
\* checkpoint, where they are of the present timeline.
LEMMA StitchedIsWhole ==
  ASSUME Inductive, placement = "ssd", NEW x \in Iteration, Stitchable(x)
  PROVE  Whole(StitchedAt(x))
  <1>1. /\ StoreOnTime /\ BackgroundTyped /\ K \in Nat /\ K >= 1
        /\ DOMAIN l3 = 0 .. (K - 1) /\ \A i \in DOMAIN l3 : l3[i] # None => l3[i] \in Stored /\ l3[i].index = i
    <2>1. BackgroundTyped /\ StoreOnTime
      BY TypeParts DEF Inductive
    <2> QED
      BY <2>1, Constants DEF BackgroundTyped
  <1>2. \A i : InL3(x, i) =>
          /\ i \in DOMAIN l3 /\ l3[i] \in Stored /\ l3[i].index = i /\ l3[i].iteration = x
          /\ OfEpoch(x, l3[i].born) /\ OnTime(x, l3[i].born) /\ l3[i].data <= l3[i].total
          /\ l3[i].total \in 1 .. K /\ l3[i].data \in 1 .. K
    <2> SUFFICES ASSUME NEW i, InL3(x, i)
                 PROVE  /\ i \in DOMAIN l3 /\ l3[i] \in Stored /\ l3[i].index = i /\ l3[i].iteration = x
                        /\ OfEpoch(x, l3[i].born) /\ OnTime(x, l3[i].born) /\ l3[i].data <= l3[i].total
                        /\ l3[i].total \in 1 .. K /\ l3[i].data \in 1 .. K
      OBVIOUS
    <2>1. i \in DOMAIN l3 /\ l3[i] # None /\ l3[i].iteration = x /\ l3[i] \in Stored /\ l3[i].index = i
      BY <1>1 DEF InL3
    <2>2. OfEpoch(l3[i].iteration, l3[i].born) /\ OnTime(l3[i].iteration, l3[i].born)
          /\ l3[i].data <= l3[i].total
      BY <1>1, <2>1 DEF StoreOnTime
    <2> QED
      BY <2>1, <2>2 DEF Stored
  <1>3. \A d \in On(x) : /\ pieces[d] \in Piece /\ pieces[d].data <= pieces[d].total
                         /\ pieces[d].total \in 1 .. (K + 1) /\ pieces[d].data \in 1 .. K
                         /\ OfEpoch(x, pieces[d].born) /\ OnTime(x, pieces[d].born)
    BY SameWave, PieceFields
  <1> DEFINE totals == {pieces[d].total : d \in On(x)}
                       \cup {l3[i].total : i \in {j \in DOMAIN l3 : l3[j] # None /\ l3[j].iteration = x}}
             m == Max(totals)
  <1>4. /\ \A d \in On(x) : pieces[d].total \in totals
        /\ \A i : InL3(x, i) => l3[i].total \in totals
    BY DEF InL3
  <1>5. \A t \in totals : t \in 1 .. (K + 1)
    <2>1. \A t \in totals : (\E d \in On(x) : t = pieces[d].total) \/ (\E i : InL3(x, i) /\ t = l3[i].total)
      BY Zenon DEF InL3
    <2> HIDE DEF totals
    <2> QED
      BY <1>1, <1>2, <1>3, <2>1
  <1>6. Wanted(x) = 0 .. (m - 1)
    BY DEF Wanted
  <1>7. totals # {}
    BY <1>4 DEF Stitchable, Known
  <1> HIDE DEF totals
  <1>8. m \in totals /\ (\A t \in totals : m >= t) /\ m \in 1 .. (K + 1)
    <2>1. totals \subseteq Int /\ K + 1 \in Int /\ \A t \in totals : t <= K + 1
      BY <1>1, <1>5
    <2> QED
      BY <1>5, <1>7, <2>1, MaxOfBounded
  <1> HIDE DEF m
  <1>9. \A q \in StitchedAt(x) :
          /\ q.index \in Wanted(x) /\ OfEpoch(x, q.born) /\ OnTime(x, q.born) /\ q.data <= m
    <2> TAKE q \in StitchedAt(x)
    <2>1. \/ q.index \in Wanted(x) /\ \E d \in Alive(x) : q = pieces[d]
          \/ \E i \in Wanted(x) : InL3(x, i) /\ q = l3[i]
      BY Zenon DEF StitchedAt, PiecesAt
    <2>2. CASE q.index \in Wanted(x) /\ \E d \in Alive(x) : q = pieces[d]
      <3>1. PICK d \in On(x) : q = pieces[d]
        BY <2>2 DEF Alive
      <3>2. q.total <= m /\ q.total \in Int /\ q.data \in Int
        BY <1>1, <1>3, <1>4, <1>8, <3>1
      <3> QED
        BY <1>3, <1>8, <2>2, <3>1, <3>2
    <2>3. CASE \E i \in Wanted(x) : InL3(x, i) /\ q = l3[i]
      <3>1. PICK i \in Wanted(x) : InL3(x, i) /\ q = l3[i]
        BY <2>3
      <3>2. q.total <= m /\ q.total \in Int /\ q.data \in Int /\ q.data <= q.total
        BY <1>1, <1>2, <1>4, <1>8, <3>1
      <3> QED
        BY <1>2, <1>8, <3>1, <3>2
    <2> QED
      BY <2>1, <2>2, <2>3
  <1>10. \A i \in Wanted(x) : \E q \in StitchedAt(x) : q.index = i
    <2> TAKE i \in Wanted(x)
    <2>1. CASE AtPeer(x, i) # {}
      <3>1. PICK d \in Alive(x) : pieces[d].index = i
        BY <2>1 DEF AtPeer
      <3>2. pieces[d] \in StitchedAt(x)
        BY <3>1 DEF StitchedAt, PiecesAt
      <3> QED
        BY <3>1, <3>2
    <2>2. CASE AtPeer(x, i) = {}
      <3>1. InL3(x, i)
        BY <2>2 DEF Stitchable
      <3>2. l3[i] \in StitchedAt(x)
        BY <2>2, <3>1 DEF StitchedAt
      <3> QED
        BY <1>2, <3>1, <3>2
    <2> QED
      BY <2>1, <2>2
  <1>11. PICK p \in StitchedAt(x) : p.index = 0
    <2>1. 0 \in Wanted(x)
      BY <1>1, <1>6, <1>8
    <2> QED
      BY <1>10, <2>1
  <1>12. \A q \in StitchedAt(x) : q.born = p.born
    BY <1>9, <1>11, SameEpoch
  <1> DEFINE S == {q.index : q \in {r \in StitchedAt(x) : r.born = p.born}}
  <1>13. S = Wanted(x)
    <2>1. \A i : i \in S <=> \E q \in StitchedAt(x) : q.born = p.born /\ i = q.index
      BY Zenon
    <2> HIDE DEF S
    <2> QED
      BY <1>9, <1>10, <1>12, <2>1
  <1>14. Cardinality(0 .. (m - 1)) = m
    <2>1. m \in Int /\ m >= 1 /\ 0 \in Int /\ m - 1 \in Int
      BY <1>1, <1>8
    <2>2. Cardinality(0 .. (m - 1)) = IF 0 > m - 1 THEN 0 ELSE (m - 1) - 0 + 1
      BY <2>1, FS_Interval
    <2> QED
      BY <2>1, <2>2
  <1>15. Cardinality(S) >= p.data
    <2>1. Cardinality(S) = m
      BY <1>6, <1>13, <1>14
    <2>2. p.data <= m /\ m \in Int
      BY <1>1, <1>8, <1>9, <1>11
    <2>3. p.data \in Int
      <3>1. \/ \E d \in On(x) : p = pieces[d]
            \/ \E i : InL3(x, i) /\ p = l3[i]
        BY <1>11, Zenon DEF StitchedAt, PiecesAt, Alive
      <3> QED
        BY <1>1, <1>2, <1>3, <3>1
    <2> QED
      BY <2>1, <2>2, <2>3
  <1> QED
    BY <1>11, <1>15 DEF Whole

\* The newest checkpoint that recover() finds on the donors, by parity or, where
\* pieces go to their disks, by stitching them with the store, is a whole one of
\* a single wave.
THEOREM RestorableCorrect == Spec => []RestorableIsWhole
  <1>1. Inductive => RestorableIsWhole
    <2> SUFFICES ASSUME Inductive PROVE RestorableIsWhole
      OBVIOUS
    <2>1. Iteration \subseteq 0 .. MaxIteration /\ MaxIteration \in Nat
      BY Constants DEF Iteration
    <2>2. ASSUME PeerSet # 0 PROVE Whole(PiecesAt(PeerSet))
      <3> DEFINE its == {x \in Iteration : Restorable(x) /\ \E d \in On(x) :
                           Cardinality(Alive(x)) >= pieces[d].total}
      <3>1. PeerSet = Newest(its) /\ its \subseteq 0 .. MaxIteration
        BY <2>1, Zenon DEF PeerSet
      <3>2. PeerSet \in its
        <4> HIDE DEF its
        <4> QED
          BY <2>2, <3>1, NewestOf
      <3>3. PICK d \in On(PeerSet) : Cardinality(Alive(PeerSet)) >= pieces[d].total
        BY <3>2
      <3>4. PeerSet \in Iteration
        BY <3>2
      <3> HIDE DEF its
      <3>5. /\ pieces[d].data <= pieces[d].total /\ pieces[d].data \in Int /\ pieces[d].total \in Int
        BY <3>3, <3>4, SameWave, PieceFields, Constants
      <3>6. Cardinality(Alive(PeerSet)) \in Nat
        <4>1. Alive(PeerSet) \subseteq Donor
          BY DEF Alive, On
        <4> QED
          BY <4>1, Constants, FS_Subset, FS_CardinalityType
      <3>7. Cardinality(Alive(PeerSet)) >= pieces[d].data
        BY <3>3, <3>5, <3>6
      <3> QED
        BY <3>3, <3>4, <3>7, AliveIsWhole
    <2>3. ASSUME ParitySet # 0 PROVE Whole(PiecesAt(ParitySet))
      <3> DEFINE its == {x \in Iteration : Restorable(x) /\ \E d \in On(x) :
                           /\ pieces[d].data < pieces[d].total
                           /\ Cardinality(Alive(x)) = pieces[d].data}
      <3>1. ParitySet = Newest(its) /\ its \subseteq 0 .. MaxIteration
        BY <2>1, Zenon DEF ParitySet
      <3>2. ParitySet \in its
        <4> HIDE DEF its
        <4> QED
          BY <2>3, <3>1, NewestOf
      <3>3. PICK d \in On(ParitySet) : Cardinality(Alive(ParitySet)) = pieces[d].data
        BY <3>2
      <3>4. ParitySet \in Iteration
        BY <3>2
      <3> HIDE DEF its
      <3>5. pieces[d].data \in Int
        BY <3>3, <3>4, SameWave, PieceFields, Constants
      <3>6. Cardinality(Alive(ParitySet)) >= pieces[d].data
        BY <3>3, <3>5
      <3> QED
        BY <3>3, <3>4, <3>6, AliveIsWhole
    <2>4. ASSUME placement = "ssd", StitchSet # 0 PROVE Whole(StitchedAt(StitchSet))
      <3> DEFINE its == {x \in Iteration : Stitchable(x)}
      <3>1. StitchSet = Newest(its) /\ its \subseteq 0 .. MaxIteration
        BY <2>1, Zenon DEF StitchSet
      <3>2. StitchSet \in its
        <4> HIDE DEF its
        <4> QED
          BY <2>4, <3>1, NewestOf
      <3>3. StitchSet \in Iteration /\ Stitchable(StitchSet)
        BY <3>2
      <3> QED
        BY <2>4, <3>3, StitchedIsWhole
    <2> QED
      BY <2>2, <2>3, <2>4 DEF RestorableIsWhole
  <1> QED
    BY <1>1, Invariance, PTL

-----------------------------------------------------------------------------
(***************************************************************************)
(* The board (DonorRegistry): sums.                                        *)
(***************************************************************************)

\* One unit for each.
Units(f) == UNION {{x} \X (1 .. f[x]) : x \in DOMAIN f}

\* One unit for each, for an element.
LEMMA UnitsOf ==
  ASSUME NEW x, NEW n \in Nat
  PROVE  IsFiniteSet({x} \X (1 .. n)) /\ Cardinality({x} \X (1 .. n)) = n
  <1>1. IsFiniteSet(1 .. n) /\ Cardinality(1 .. n) = n
    BY FS_Interval
  <1>2. IsFiniteSet({x}) /\ Cardinality({x}) = 1
    BY FS_Singleton
  <1>3. IsFiniteSet({x} \X (1 .. n)) /\ Cardinality({x} \X (1 .. n)) = Cardinality({x}) * Cardinality(1 .. n)
    BY <1>1, <1>2, FS_Product
  <1> QED
    BY <1>1, <1>2, <1>3

\* There are finitely many units.
LEMMA UnitsFinite ==
  ASSUME NEW S, IsFiniteSet(S), NEW f \in [S -> Nat]
  PROVE  IsFiniteSet(Units(f)) /\ Total(f) = Cardinality(Units(f)) /\ Total(f) \in Nat
  <1> DEFINE T == {{x} \X (1 .. f[x]) : x \in S}
             h == [x \in S |-> {x} \X (1 .. f[x])]
  <1>0. h \in Surjection(S, T)
    BY DEF Surjection
  <1> HIDE DEF h
  <1>1. IsFiniteSet(T)
    BY <1>0, FS_Surjection
  <1> HIDE DEF T
  <1>2. ASSUME NEW x \in S PROVE IsFiniteSet({x} \X (1 .. f[x]))
    BY UnitsOf
  <1>3. \A U \in T : IsFiniteSet(U)
    BY <1>2 DEF T
  <1>4. IsFiniteSet(UNION T)
    BY <1>1, <1>3, FS_UNION
  <1>5. Units(f) = UNION T
    BY DEF Units, T
  <1> QED
    BY <1>4, <1>5, FS_CardinalityType DEF Total, Units

\* What the sum of two functions that differ in one place is.
LEMMA TotalChange ==
  ASSUME NEW S, IsFiniteSet(S), NEW f \in [S -> Nat], NEW g \in [S -> Nat], NEW s \in S,
         \A x \in S : x # s => g[x] = f[x]
  PROVE  Total(g) = Total(f) - f[s] + g[s] /\ f[s] <= Total(f)
  <1> DEFINE R == {u \in Units(f) : u[1] # s}
             F == {s} \X (1 .. f[s])
             G == {s} \X (1 .. g[s])
  <1>1. IsFiniteSet(Units(f)) /\ R \subseteq Units(f)
    BY UnitsFinite
  <1>2. IsFiniteSet(R) /\ Cardinality(R) \in Nat
    BY <1>1, FS_Subset, FS_CardinalityType
  <1>3. /\ IsFiniteSet(F) /\ Cardinality(F) = f[s]
        /\ IsFiniteSet(G) /\ Cardinality(G) = g[s]
    BY UnitsOf
  <1>4. Units(f) = R \cup F /\ Units(g) = R \cup G
    BY DEF Units
  <1>5. R \cap F = {} /\ R \cap G = {}
    OBVIOUS
  <1> HIDE DEF R, F, G
  <1>6. Cardinality(Units(f)) = Cardinality(R) + f[s]
    BY <1>2, <1>3, <1>4, <1>5, FS_Union, FS_EmptySet, f[s] \in Nat
  <1>7. Cardinality(Units(g)) = Cardinality(R) + g[s]
    BY <1>2, <1>3, <1>4, <1>5, FS_Union, FS_EmptySet, g[s] \in Nat
  <1> QED
    BY <1>2, <1>6, <1>7, UnitsFinite

\* A sum of zeros.
LEMMA TotalZero ==
  ASSUME NEW S, NEW f \in [S -> Nat], \A x \in S : f[x] = 0
  PROVE  Total(f) = 0
  <1>1. Units(f) = {}
    BY DEF Units
  <1> QED
    BY <1>1, FS_EmptySet DEF Total, Units

\* Zeros do not change a sum.
LEMMA TotalExtended ==
  ASSUME NEW S, NEW T, S \subseteq T, NEW f \in [S -> Nat], NEW g \in [T -> Nat],
         \A x \in T : g[x] = IF x \in S THEN f[x] ELSE 0
  PROVE  Total(g) = Total(f)
  <1>1. \A u : u \in Units(f) <=> u \in Units(g)
    BY DEF Units
  <1>2. Units(f) = Units(g)
    BY <1>1
  <1> QED
    BY <1>2 DEF Total, Units

\* The assumption on the constants, in the form that the proofs use.
LEMMA RegistryConstants ==
  /\ IsFiniteSet(Slot)
  /\ DramHostSlots \in Nat /\ DramHostGb \in Nat /\ ShardGb \in Nat \ {0} /\ MaxEvents \in Nat
  /\ \A s \in Slot : Represents[s] \in Nat \ {0}
  /\ \A board \in RegistrySettings :
       /\ board.matching \in {"least", "spread", "rack", "probe"} /\ board.tier \in {"ssd", "dram"}
       /\ board.parity \in BOOLEAN /\ board.k \in Nat \ {0} /\ board.k <= ShardGb
  <1>1. Registered \in Seq(Range(Registered))
    BY RegistryAssumption DEF RegistryAssumption
  <1>2. /\ DOMAIN Registered = 1 .. Len(Registered) /\ Len(Registered) \in Nat
    BY <1>1
  <1>3. Registered \in Surjection(1 .. Len(Registered), Slot)
    <2>1. \A i \in 1 .. Len(Registered) : Registered[i] \in Slot
      BY <1>2 DEF Slot, Range
    <2>2. Registered \in [1 .. Len(Registered) -> Slot]
      BY <1>1, <1>2, <2>1
    <2>3. \A s \in Slot : \E i \in 1 .. Len(Registered) : Registered[i] = s
      BY <1>2 DEF Slot, Range
    <2> QED
      BY <2>2, <2>3 DEF Surjection
  <1>4. IsFiniteSet(1 .. Len(Registered))
    BY <1>2, FS_Interval
  <1>5. IsFiniteSet(Slot)
    BY <1>3, <1>4, FS_Surjection
  <1>6. \A s \in Slot : Represents[s] \in Nat \ {0}
    BY RegistryAssumption DEF RegistryAssumption, Slot
  <1>7. \A board \in RegistrySettings :
       /\ board.matching \in {"least", "spread", "rack", "probe"} /\ board.tier \in {"ssd", "dram"}
       /\ board.parity \in BOOLEAN /\ board.k \in Nat \ {0} /\ board.k <= ShardGb
    BY RegistryAssumption DEF RegistryAssumption
  <1> QED
    BY <1>5, <1>6, <1>7, RegistryAssumption DEF RegistryAssumption

\* The shapes of a wave, of the pieces in DRAM and of a stream.
WaveRecord == [take : [Slot -> Nat], parity : BOOLEAN, flagged : BOOLEAN, gb : Nat]
WaveShape == [Slot -> WaveRecord]
HeldShape == [Slot \X Slot -> [pieces : Nat, gb : Nat]]
StreamShape == [donor : Slot, pieces : Nat, id : Nat]

\* The shape of the state.
RegistryTypes ==
  /\ setting \in RegistrySettings
  /\ hosted \in [Slot -> Nat] /\ dram \in [Slot -> Nat] /\ dramGb \in [Slot -> Nat]
  /\ flushing \subseteq Slot
  /\ waves \in WaveShape /\ resident \in HeldShape
  /\ IsFiniteSet(streams) /\ streams \subseteq StreamShape

\* Only a slot that flushes has a wave.
WavesFlush == \A s \in Slot \ flushing : waves[s] = NoWave

\* The tier that is not in use is empty.
OneTier ==
  IF setting.tier = "ssd"
  THEN dram = NoTake /\ dramGb = NoTake /\ \A x \in Slot \X Slot : resident[x] = NoPiece
  ELSE hosted = NoTake /\ streams = {}

RegistryInductive == RegistryTypes /\ WavesFlush /\ OneTier /\ LedgerExact

\* What is never below zero.
LEMMA NotNegative ==
  ASSUME NEW x \in Int
  PROVE  Max({0, x}) = IF x > 0 THEN x ELSE 0
  <1> DEFINE b == IF x > 0 THEN x ELSE 0
  <1>1. Max({0, x}) \in {0, x} /\ \A y \in {0, x} : Max({0, x}) >= y
    BY MaxOfBounded, b \in Int, \A y \in {0, x} : y <= b
  <1> QED
    BY <1>1

\* The smaller of two integers.
LEMMA SmallerOfTwo ==
  ASSUME NEW x \in Int, NEW y \in Int
  PROVE  Min({x, y}) = IF x < y THEN x ELSE y
  BY DEF Min

\* The room of a donor is a number of pieces.
LEMMA RoomIsNat ==
  ASSUME RegistryInductive, NEW s \in Slot, NEW tr \in {"ssd", "dram"}, NEW gb \in Nat \ {0}
  PROVE  /\ Room(s, tr, gb) \in Nat
         /\ tr = "ssd" => hosted[s] + Room(s, tr, gb) <= Capacity(s)
         /\ tr = "dram" => dram[s] + Room(s, tr, gb) <= DramHostSlots * Represents[s]
  <1>1. /\ hosted[s] \in Nat /\ dram[s] \in Nat /\ dramGb[s] \in Nat
        /\ hosted[s] <= Capacity(s) /\ dram[s] <= DramHostSlots * Represents[s]
    BY DEF RegistryInductive, RegistryTypes, LedgerExact
  <1>2. Represents[s] \in Nat \ {0} /\ DramHostSlots \in Nat /\ DramHostGb \in Nat
    BY RegistryConstants
  <1>3. CASE tr = "ssd"
    BY <1>1, <1>2, <1>3 DEF Room, Capacity
  <1>4. CASE tr = "dram"
    <2> DEFINE a == DramHostSlots * Represents[s] - dram[s]
               g == DramHostGb * Represents[s] - dramGb[s]
               b == g \div gb
    <2>1. a \in Int /\ g \in Int /\ a >= 0
      BY <1>1, <1>2
    <2>2. b \in Int
      BY <2>1
    <2>3. Room(s, tr, gb) = Max({0, Min({a, b})})
      BY <1>4 DEF Room
    <2> HIDE DEF b
    <2>4. Min({a, b}) \in Int /\ Min({a, b}) <= a
      BY <2>1, <2>2, SmallerOfTwo
    <2>5. Room(s, tr, gb) \in Nat /\ Room(s, tr, gb) <= a
      BY <2>1, <2>3, <2>4, NotNegative
    <2> QED
      BY <1>1, <1>2, <1>4, <2>1, <2>5
  <1> QED
    BY <1>3, <1>4

\* What is taken of the donors on offer is within their limits.
LEMMA TakenFits ==
  ASSUME NEW E \in SUBSET Slot, NEW tr, NEW gb, NEW cohort,
         \A s \in E : Limit(s, tr, gb, cohort) \in Nat,
         NEW n, NEW ahead
  PROVE  LET take == Taken(Offers(E, tr, gb, cohort), n, ahead)
         IN  /\ take \in [Slot -> Nat]
             /\ \A s \in E : take[s] <= Limit(s, tr, gb, cohort)
             /\ \A s \in Slot \ E : take[s] = 0
  <1> DEFINE offers == Offers(E, tr, gb, cohort)
             of(s) == {p \in {p \in offers : Cardinality(ahead[p]) < n} : p[1] = s}
  <1>1. \A s \in Slot : Taken(offers, n, ahead)[s] = Cardinality(of(s))
    BY DEF Taken
  <1>2. ASSUME NEW s \in E
        PROVE  Cardinality(of(s)) \in Nat /\ Cardinality(of(s)) <= Limit(s, tr, gb, cohort)
    <2> DEFINE U == {s} \X (1 .. Limit(s, tr, gb, cohort))
    <2>1. of(s) \subseteq U
      BY DEF Offers
    <2>2. IsFiniteSet(U) /\ Cardinality(U) = Limit(s, tr, gb, cohort)
      BY UnitsOf
    <2> HIDE DEF U, of
    <2> QED
      BY <2>1, <2>2, FS_Subset, FS_CardinalityType
  <1>3. ASSUME NEW s \in Slot \ E PROVE Cardinality(of(s)) = 0
    <2>1. of(s) = {}
      BY DEF Offers
    <2> QED
      BY <2>1, FS_EmptySet
  <1>4. \A s \in Slot : Cardinality(of(s)) \in Nat
    BY <1>2, <1>3
  <1>5. Taken(offers, n, ahead) = [s \in Slot |-> Cardinality(of(s))]
    BY DEF Taken
  <1> HIDE DEF of, offers
  <1>6. Taken(offers, n, ahead) \in [Slot -> Nat]
    BY <1>4, <1>5
  <1> QED
    BY <1>1, <1>2, <1>3, <1>6 DEF offers

\* The room that a wave of the owner finds, in the form in which its pieces use it.
LEMMA LimitIsNat ==
  ASSUME RegistryInductive, NEW tr \in {"ssd", "dram"}, NEW gb \in Nat \ {0}, NEW job, NEW cohort
  PROVE  /\ Eligible(job, tr, gb) \subseteq Available(job, tr, gb)
         /\ Available(job, tr, gb) \subseteq Slot
         /\ \A s \in Eligible(job, tr, gb) :
              /\ Limit(s, tr, gb, cohort) \in Nat
              /\ Limit(s, tr, gb, cohort) <= Room(s, tr, gb)
  <1>1. Eligible(job, tr, gb) \subseteq Available(job, tr, gb) /\ Available(job, tr, gb) \subseteq Slot
    BY DEF Eligible, Available
  <1>2. ASSUME NEW s \in Eligible(job, tr, gb)
        PROVE  Limit(s, tr, gb, cohort) \in Nat /\ Limit(s, tr, gb, cohort) <= Room(s, tr, gb)
    <2>1. Room(s, tr, gb) >= 1
      BY DEF Eligible, Available
    <2>2. Room(s, tr, gb) \in Nat
      BY <1>1, RoomIsNat
    <2> QED
      BY <2>1, <2>2 DEF Limit
  <1> QED
    BY <1>1, <1>2

\* What is matched is within the room of every donor.
LEMMA MatchFits ==
  ASSUME RegistryInductive, NEW flusher \in Slot, NEW n \in Nat, NEW tr \in {"ssd", "dram"},
         NEW gb \in Nat \ {0}, NEW match \in Matched(flusher, n, tr, gb)
  PROVE  /\ match.take \in [Slot -> Nat] /\ match.flagged \in BOOLEAN
         /\ \A s \in Slot : match.take[s] = 0 \/ match.take[s] <= Room(s, tr, gb)
  <1> DEFINE cohort == Represents[flusher] > 1
             E == Eligible(HomeJob[flusher], tr, gb)
             offers(D) == Offers(D, tr, gb, cohort)
  <1>1. E \subseteq Slot
        /\ \A s \in E : Limit(s, tr, gb, cohort) \in Nat /\ Limit(s, tr, gb, cohort) <= Room(s, tr, gb)
    BY LimitIsNat
  <1>2. setting \in RegistrySettings /\ setting.matching \in {"least", "spread", "rack", "probe"}
    BY RegistryConstants DEF RegistryInductive, RegistryTypes
  <1>3. PICK D \in SUBSET E : \E ahead : /\ match.take = Taken(offers(D), n, ahead)
                                        /\ match.flagged \in BOOLEAN
    <2>1. CASE setting.matching = "least"
      <3>1. match = [take |-> Taken(offers(E), n,
                         DonorByDonor(offers(E), LightestFirst(E, tr, cohort))),
                     flagged |-> FALSE]
        BY <2>1, Zenon DEF Matched
      <3> QED
        BY <3>1
    <2>2. CASE setting.matching = "spread"
      <3>1. match = [take |-> Taken(offers(E), n, JobByJob(E, offers(E), tr, cohort)),
                     flagged |-> FALSE]
        BY <2>2, Zenon DEF Matched
      <3> QED
        BY <3>1
    <2>3. CASE setting.matching = "rack"
      <3>1. match = [take |-> Taken(offers(E), n,
                         DonorByDonor(offers(E), RackDisjointFirst(flusher, E, tr, cohort))),
                     flagged |-> RackFallback(flusher, E, n, tr, gb, cohort)]
        BY <2>3, Zenon DEF Matched
      <3>2. RackFallback(flusher, E, n, tr, gb, cohort) \in BOOLEAN
        BY DEF RackFallback
      <3> QED
        BY <3>1, <3>2
    <2>4. CASE setting.matching = "probe"
      <3> DEFINE D(order) == E \cap Range(order)
      <3>1. PICK order \in Probes(HomeJob[flusher], n, cohort) :
              match = [take |-> Taken(offers(D(order)), n,
                           DonorByDonor(offers(D(order)), InProbedOrder(order, E))),
                       flagged |-> FALSE]
        BY <2>4, Zenon DEF Matched
      <3> QED
        BY <3>1
    <2> QED
      BY <1>2, <2>1, <2>2, <2>3, <2>4
  <1>30. PICK ahead : match.take = Taken(offers(D), n, ahead) /\ match.flagged \in BOOLEAN
    BY <1>3
  <1> HIDE DEF E, cohort
  <1>4. /\ match.take \in [Slot -> Nat]
        /\ \A s \in D : match.take[s] <= Limit(s, tr, gb, cohort)
        /\ \A s \in Slot \ D : match.take[s] = 0
    BY <1>1, <1>30, TakenFits
  <1>5. ASSUME NEW s \in Slot PROVE match.take[s] = 0 \/ match.take[s] <= Room(s, tr, gb)
    <2>1. CASE s \in D
      <3>1. /\ match.take[s] \in Nat /\ match.take[s] <= Limit(s, tr, gb, cohort)
            /\ Limit(s, tr, gb, cohort) \in Nat /\ Limit(s, tr, gb, cohort) <= Room(s, tr, gb)
        BY <1>1, <1>4, <2>1
      <3>2. Room(s, tr, gb) \in Nat
        BY RoomIsNat
      <3> QED
        BY <3>1, <3>2
    <2> QED
      BY <1>4, <2>1
  <1> QED
    BY <1>30, <1>4, <1>5

-----------------------------------------------------------------------------
(***************************************************************************)
(* The board: what the waves, the streams and the pieces in DRAM hold.     *)
(***************************************************************************)

\* Products of naturals.
LEMMA ProductIsNat ==
  ASSUME NEW a \in Nat, NEW b \in Nat
  PROVE  a * b \in Nat
  OBVIOUS

\* Products with zero.
LEMMA TimesZero ==
  ASSUME NEW a \in Nat
  PROVE  a * 0 = 0 /\ 0 * a = 0
  OBVIOUS

\* The sum over a set with one more element.
LEMMA TotalAdded ==
  ASSUME NEW S, IsFiniteSet(S), NEW x, x \notin S, NEW f \in [S -> Nat],
         NEW g \in [S \cup {x} -> Nat], \A y \in S : g[y] = f[y]
  PROVE  Total(g) = Total(f) + g[x] /\ Total(f) \in Nat
  <1> DEFINE T == S \cup {x}
             h == [y \in T |-> IF y \in S THEN f[y] ELSE 0]
  <1>1. IsFiniteSet(T)
    BY FS_AddElement
  <1>2. h \in [T -> Nat] /\ h[x] = 0 /\ \A y \in T : h[y] = IF y \in S THEN f[y] ELSE 0
    OBVIOUS
  <1>3. g \in [T -> Nat] /\ x \in T /\ \A y \in T : y # x => g[y] = h[y]
    OBVIOUS
  <1>4. S \subseteq T
    OBVIOUS
  <1> HIDE DEF T, h
  <1>5. Total(h) = Total(f)
    BY <1>2, <1>4, TotalExtended
  <1>6. Total(g) = Total(h) - h[x] + g[x]
    BY <1>1, <1>2, <1>3, TotalChange
  <1>7. Total(h) \in Nat /\ g[x] \in Nat
    BY <1>1, <1>2, <1>3, UnitsFinite
  <1> QED
    BY <1>2, <1>5, <1>6, <1>7

\* The pieces of all waves at a donor, when one wave changes.
LEMMA WavesChange ==
  ASSUME NEW s \in Slot, waves \in WaveShape, waves' \in WaveShape,
         \A u \in Slot : u # s => waves'[u] = waves[u], NEW d \in Slot
  PROVE  /\ InWaves(d)' = InWaves(d) - waves[s].take[d] + waves'[s].take[d]
         /\ waves[s].take[d] <= InWaves(d)
         /\ InWaves(d) \in Nat /\ waves[s].take[d] \in Nat /\ waves'[s].take[d] \in Nat
  <1> DEFINE f == [u \in Slot |-> waves[u].take[d]]
             g == [u \in Slot |-> waves'[u].take[d]]
  <1>1. f \in [Slot -> Nat] /\ g \in [Slot -> Nat]
    BY DEF WaveShape, WaveRecord
  <1>2. f[s] = waves[s].take[d] /\ g[s] = waves'[s].take[d] /\ \A u \in Slot : u # s => g[u] = f[u]
    OBVIOUS
  <1>3. InWaves(d) = Total(f) /\ InWaves(d)' = Total(g)
    BY DEF InWaves
  <1> HIDE DEF f, g
  <1>4. IsFiniteSet(Slot)
    BY RegistryConstants
  <1>5. Total(g) = Total(f) - f[s] + g[s] /\ f[s] <= Total(f)
    BY <1>1, <1>2, <1>4, TotalChange
  <1>6. Total(f) \in Nat
    BY <1>1, <1>4, UnitsFinite
  <1> QED
    BY <1>1, <1>2, <1>3, <1>5, <1>6

\* Their bytes.
LEMMA GbChange ==
  ASSUME NEW s \in Slot, waves \in WaveShape, waves' \in WaveShape,
         \A u \in Slot : u # s => waves'[u] = waves[u], NEW d \in Slot
  PROVE  /\ GbInWaves(d)' = GbInWaves(d) - (waves[s].take[d] * waves[s].gb)
                                         + (waves'[s].take[d] * waves'[s].gb)
         /\ waves[s].take[d] * waves[s].gb <= GbInWaves(d)
         /\ GbInWaves(d) \in Nat
         /\ waves[s].take[d] * waves[s].gb \in Nat /\ waves'[s].take[d] * waves'[s].gb \in Nat
  <1> DEFINE f == [u \in Slot |-> waves[u].take[d] * waves[u].gb]
             g == [u \in Slot |-> waves'[u].take[d] * waves'[u].gb]
  <1>1. f \in [Slot -> Nat] /\ g \in [Slot -> Nat]
    <2>1. ASSUME NEW u \in Slot
          PROVE  /\ waves[u].take[d] \in Nat /\ waves[u].gb \in Nat
                 /\ waves'[u].take[d] \in Nat /\ waves'[u].gb \in Nat
      BY DEF WaveShape, WaveRecord
    <2>2. \A u \in Slot : waves[u].take[d] * waves[u].gb \in Nat
                          /\ waves'[u].take[d] * waves'[u].gb \in Nat
      BY <2>1, ProductIsNat
    <2> QED
      BY <2>2, Zenon
  <1>2. /\ f[s] = waves[s].take[d] * waves[s].gb /\ g[s] = waves'[s].take[d] * waves'[s].gb
        /\ \A u \in Slot : u # s => g[u] = f[u]
    BY Zenon
  <1>3. GbInWaves(d) = Total(f) /\ GbInWaves(d)' = Total(g)
    BY Zenon DEF GbInWaves
  <1> HIDE DEF f, g
  <1>4. IsFiniteSet(Slot)
    BY RegistryConstants
  <1>5. Total(g) = Total(f) - f[s] + g[s] /\ f[s] <= Total(f)
    BY <1>1, <1>2, <1>4, TotalChange
  <1>6. Total(f) \in Nat
    BY <1>1, <1>4, UnitsFinite
  <1>7. f[s] \in Nat /\ g[s] \in Nat
    BY <1>1
  <1> QED
    BY <1>2, <1>3, <1>5, <1>6, <1>7, Zenon

\* The pieces in a donor's DRAM, when those of one owner change.
LEMMA HeldChange ==
  ASSUME NEW s \in Slot, NEW d \in Slot, resident \in HeldShape, resident' \in HeldShape,
         \A u \in Slot : u # s => resident'[<<u, d>>] = resident[<<u, d>>]
  PROVE  /\ HeldBy(d)' = HeldBy(d) - Held(s, d) + Held(s, d)'
         /\ Held(s, d) <= HeldBy(d)
         /\ HeldBy(d) \in Nat /\ Held(s, d) \in Nat /\ Held(s, d)' \in Nat
  <1> DEFINE f == [u \in Slot |-> Held(u, d)]
             g == [u \in Slot |-> Held(u, d)']
  <1>1. f \in [Slot -> Nat] /\ g \in [Slot -> Nat]
    BY DEF HeldShape, Held
  <1>2. f[s] = Held(s, d) /\ g[s] = Held(s, d)' /\ \A u \in Slot : u # s => g[u] = f[u]
    BY DEF Held
  <1>3. HeldBy(d) = Total(f) /\ HeldBy(d)' = Total(g)
    BY DEF HeldBy, Held
  <1> HIDE DEF f, g
  <1>4. IsFiniteSet(Slot)
    BY RegistryConstants
  <1>5. Total(g) = Total(f) - f[s] + g[s] /\ f[s] <= Total(f)
    BY <1>1, <1>2, <1>4, TotalChange
  <1>6. Total(f) \in Nat
    BY <1>1, <1>4, UnitsFinite
  <1>7. f[s] \in Nat /\ g[s] \in Nat
    BY <1>1
  <1> QED
    BY <1>2, <1>3, <1>5, <1>6, <1>7, Zenon

\* Their bytes.
LEMMA BytesChange ==
  ASSUME NEW s \in Slot, NEW d \in Slot, resident \in HeldShape, resident' \in HeldShape,
         \A u \in Slot : u # s => resident'[<<u, d>>] = resident[<<u, d>>]
  PROVE  /\ BytesBy(d)' = BytesBy(d) - Bytes(s, d) + Bytes(s, d)'
         /\ Bytes(s, d) <= BytesBy(d)
         /\ BytesBy(d) \in Nat /\ Bytes(s, d) \in Nat /\ Bytes(s, d)' \in Nat
  <1> DEFINE f == [u \in Slot |-> Bytes(u, d)]
             g == [u \in Slot |-> Bytes(u, d)']
  <1>1. f \in [Slot -> Nat] /\ g \in [Slot -> Nat]
    <2>1. ASSUME NEW u \in Slot
          PROVE  Bytes(u, d) \in Nat /\ Bytes(u, d)' \in Nat
      <3>1. /\ resident[<<u, d>>].pieces \in Nat /\ resident[<<u, d>>].gb \in Nat
            /\ resident'[<<u, d>>].pieces \in Nat /\ resident'[<<u, d>>].gb \in Nat
        BY DEF HeldShape
      <3> QED
        BY <3>1, ProductIsNat DEF Bytes
    <2> QED
      BY <2>1, Zenon
  <1>2. f[s] = Bytes(s, d) /\ g[s] = Bytes(s, d)' /\ \A u \in Slot : u # s => g[u] = f[u]
    BY Zenon DEF Bytes
  <1>3. BytesBy(d) = Total(f) /\ BytesBy(d)' = Total(g)
    BY Zenon DEF BytesBy, Bytes
  <1> HIDE DEF f, g
  <1>4. IsFiniteSet(Slot)
    BY RegistryConstants
  <1>5. Total(g) = Total(f) - f[s] + g[s] /\ f[s] <= Total(f)
    BY <1>1, <1>2, <1>4, TotalChange
  <1>6. Total(f) \in Nat
    BY <1>1, <1>4, UnitsFinite
  <1>7. f[s] \in Nat /\ g[s] \in Nat
    BY <1>1
  <1> QED
    BY <1>2, <1>3, <1>5, <1>6, <1>7, Zenon

\* All of them are numbers.
LEMMA SumsAreNat ==
  ASSUME waves \in WaveShape, resident \in HeldShape, NEW d \in Slot
  PROVE  InWaves(d) \in Nat /\ GbInWaves(d) \in Nat /\ HeldBy(d) \in Nat /\ BytesBy(d) \in Nat
  <1>1. \A u \in Slot : /\ waves[u].take[d] \in Nat /\ waves[u].gb \in Nat
                        /\ resident[<<u, d>>].pieces \in Nat /\ resident[<<u, d>>].gb \in Nat
    BY DEF WaveShape, WaveRecord, HeldShape
  <1>2. \A u \in Slot : /\ waves[u].take[d] * waves[u].gb \in Nat
                        /\ Held(u, d) \in Nat /\ Bytes(u, d) \in Nat
    BY <1>1, ProductIsNat DEF Held, Bytes
  <1>3. /\ [u \in Slot |-> waves[u].take[d]] \in [Slot -> Nat]
        /\ [u \in Slot |-> waves[u].take[d] * waves[u].gb] \in [Slot -> Nat]
        /\ [u \in Slot |-> Held(u, d)] \in [Slot -> Nat]
        /\ [u \in Slot |-> Bytes(u, d)] \in [Slot -> Nat]
    BY <1>1, <1>2, Zenon
  <1> QED
    BY <1>3, RegistryConstants, UnitsFinite DEF InWaves, GbInWaves, HeldBy, BytesBy

\* The pieces of the streams at a donor, when there is one stream more.
LEMMA OneStreamMore ==
  ASSUME NEW S, NEW T, IsFiniteSet(S), T \subseteq StreamShape, NEW x, x \notin S,
         T = S \cup {x}, NEW d \in Slot
  PROVE  LET in(R) == Total([y \in R |-> IF y.donor = d THEN y.pieces ELSE 0])
         IN  in(T) = in(S) + (IF x.donor = d THEN x.pieces ELSE 0) /\ in(S) \in Nat
  <1> DEFINE f == [y \in S |-> IF y.donor = d THEN y.pieces ELSE 0]
             g == [y \in T |-> IF y.donor = d THEN y.pieces ELSE 0]
  <1>1. f \in [S -> Nat] /\ g \in [S \cup {x} -> Nat] /\ \A y \in S : g[y] = f[y]
    BY DEF StreamShape
  <1>2. g[x] = IF x.donor = d THEN x.pieces ELSE 0
    OBVIOUS
  <1> HIDE DEF f, g
  <1>3. Total(g) = Total(f) + g[x] /\ Total(f) \in Nat
    BY <1>1, TotalAdded
  <1> QED
    BY <1>2, <1>3 DEF f, g

\* A stream that begins is not one of those that go on.
LEMMA StreamIsNew ==
  ASSUME IsFiniteSet(streams), NEW d \in Slot, NEW n \in Nat
  PROVE  /\ Stream(d, n) \in StreamShape /\ Stream(d, n) \notin streams
         /\ Stream(d, n).donor = d /\ Stream(d, n).pieces = n
  <1> DEFINE c == Cardinality(streams)
             stream(i) == [donor |-> d, pieces |-> n, id |-> i]
             f == [i \in 0 .. c |-> stream(i)]
  <1>1. c \in Nat
    BY FS_CardinalityType
  <1>2. \E i \in 0 .. c : stream(i) \notin streams
    <2> SUFFICES ASSUME \A i \in 0 .. c : stream(i) \in streams PROVE FALSE
      OBVIOUS
    <2>1. f \in [0 .. c -> streams]
      OBVIOUS
    <2>2. \A i, j \in 0 .. c : f[i] = f[j] => i = j
      <3> TAKE i, j \in 0 .. c
      <3>1. f[i].id = i /\ f[j].id = j
        OBVIOUS
      <3> QED
        BY <3>1
    <2>3. IsFiniteSet(0 .. c) /\ Cardinality(0 .. c) = c + 1
      BY <1>1, FS_Interval
    <2>4. Cardinality(streams) < Cardinality(0 .. c)
      BY <1>1, <2>3
    <2> HIDE DEF f, c
    <2> QED
      BY <2>1, <2>2, <2>3, <2>4, FS_PigeonHole
  <1>3. PICK i \in 0 .. c : Stream(d, n) = stream(i) /\ stream(i) \notin streams
    BY <1>2 DEF Stream
  <1> QED
    BY <1>1, <1>3 DEF StreamShape

-----------------------------------------------------------------------------
(***************************************************************************)
(* The board: the steps.                                                   *)
(***************************************************************************)

\* Taking back what is there.
LEMMA TakenBack ==
  ASSUME NEW x \in Nat, NEW y \in Nat, y <= x
  PROVE  Max({0, x - y}) = x - y /\ x - y \in Nat
  <1>1. x - y \in Int /\ x - y >= 0
    OBVIOUS
  <1>2. Max({0, x - y}) = IF x - y > 0 THEN x - y ELSE 0
    BY <1>1, NotNegative
  <1> QED
    BY <1>1, <1>2

\* What the board and its clients hold, as numbers.
LEMMA Numbers ==
  ASSUME RegistryInductive, NEW d \in Slot
  PROVE  /\ hosted[d] \in Nat /\ dram[d] \in Nat /\ dramGb[d] \in Nat
         /\ hosted[d] <= Capacity(d) /\ dram[d] <= DramHostSlots * Represents[d]
         /\ Capacity(d) \in Nat /\ DramHostSlots * Represents[d] \in Nat
         /\ setting.tier \in {"ssd", "dram"}
         /\ setting.tier = "ssd" => /\ hosted[d] = InWaves(d) + InStreams(d)
                                    /\ dram = NoTake /\ dramGb = NoTake
                                    /\ \A x \in Slot \X Slot : resident[x] = NoPiece
         /\ setting.tier = "dram" => /\ dram[d] = InWaves(d) + HeldBy(d)
                                     /\ dramGb[d] = GbInWaves(d) + BytesBy(d)
                                     /\ hosted = NoTake /\ streams = {}
  <1>1. /\ hosted[d] \in Nat /\ dram[d] \in Nat /\ dramGb[d] \in Nat
        /\ hosted[d] <= Capacity(d) /\ dram[d] <= DramHostSlots * Represents[d]
    BY DEF RegistryInductive, RegistryTypes, LedgerExact
  <1>2. Represents[d] \in Nat /\ DramHostSlots \in Nat
    BY RegistryConstants
  <1>3. Capacity(d) \in Nat /\ DramHostSlots * Represents[d] \in Nat
    BY <1>2, ProductIsNat DEF Capacity
  <1>4. setting.tier \in {"ssd", "dram"}
    BY RegistryConstants DEF RegistryInductive, RegistryTypes
  <1>5. setting.tier = "ssd" => hosted[d] = InWaves(d) + InStreams(d)
    BY DEF RegistryInductive, LedgerExact
  <1>6. setting.tier = "dram" => dram[d] = InWaves(d) + HeldBy(d) /\ dramGb[d] = GbInWaves(d) + BytesBy(d)
    BY DEF RegistryInductive, LedgerExact
  <1>7. setting.tier = "ssd" => /\ dram = NoTake /\ dramGb = NoTake
                                /\ \A x \in Slot \X Slot : resident[x] = NoPiece
    BY DEF RegistryInductive, OneTier
  <1>8. setting.tier = "dram" => hosted = NoTake /\ streams = {}
    BY DEF RegistryInductive, OneTier
  <1> QED
    BY <1>1, <1>3, <1>4, <1>5, <1>6, <1>7, <1>8

\* A wave that starts.
LEMMA WaveStarts ==
  ASSUME RegistryInductive, NEW s \in Slot, s \notin flushing, NEW w \in WaveRecord,
         waves' = [waves EXCEPT ![s] = w], flushing' = flushing \cup {s}
  PROVE  /\ waves' \in WaveShape /\ flushing' \subseteq Slot /\ WavesFlush'
         /\ \A d \in Slot : /\ InWaves(d)' = InWaves(d) + w.take[d]
                            /\ GbInWaves(d)' = GbInWaves(d) + (w.take[d] * w.gb)
                            /\ InWaves(d) \in Nat /\ GbInWaves(d) \in Nat
                            /\ w.take[d] \in Nat /\ w.take[d] * w.gb \in Nat
  <1>1. waves \in WaveShape /\ flushing \subseteq Slot /\ WavesFlush
    BY DEF RegistryInductive, RegistryTypes
  <1>2. /\ waves' \in WaveShape /\ waves'[s] = w
        /\ \A u \in Slot : u # s => waves'[u] = waves[u]
    BY <1>1 DEF WaveShape
  <1>3. flushing' \subseteq Slot
    BY <1>1
  <1>4. WavesFlush'
    BY <1>1, <1>2 DEF WavesFlush
  <1>5. waves[s] = NoWave
    BY <1>1 DEF WavesFlush
  <1>6. waves[s].gb = 0 /\ \A d \in Slot : waves[s].take[d] = 0
    BY <1>5 DEF NoWave, NoTake
  <1>7. ASSUME NEW d \in Slot
        PROVE  /\ InWaves(d)' = InWaves(d) + w.take[d]
               /\ GbInWaves(d)' = GbInWaves(d) + (w.take[d] * w.gb)
               /\ InWaves(d) \in Nat /\ GbInWaves(d) \in Nat
               /\ w.take[d] \in Nat /\ w.take[d] * w.gb \in Nat
    <2>1. /\ InWaves(d)' = InWaves(d) - waves[s].take[d] + waves'[s].take[d]
          /\ InWaves(d) \in Nat /\ waves'[s].take[d] \in Nat
      BY <1>1, <1>2, WavesChange
    <2>2. /\ GbInWaves(d)' = GbInWaves(d) - (waves[s].take[d] * waves[s].gb)
                                          + (waves'[s].take[d] * waves'[s].gb)
          /\ GbInWaves(d) \in Nat /\ waves'[s].take[d] * waves'[s].gb \in Nat
      BY <1>1, <1>2, GbChange
    <2>3. waves[s].take[d] * waves[s].gb = 0
      BY <1>6
    <2>4. /\ GbInWaves(d)' = GbInWaves(d) - 0 + (w.take[d] * w.gb)
          /\ w.take[d] * w.gb \in Nat
      BY <1>2, <2>2, <2>3, Zenon
    <2> DEFINE p == w.take[d] * w.gb
    <2> HIDE DEF p
    <2>5. GbInWaves(d)' = GbInWaves(d) + p
      BY <2>2, <2>4 DEF p
    <2> QED
      BY <1>2, <1>6, <2>1, <2>2, <2>4, <2>5 DEF p
  <1> QED
    BY <1>2, <1>3, <1>4, <1>7

\* A wave that ends.
LEMMA WaveEnds ==
  ASSUME RegistryInductive, NEW s \in Slot, WaveOver(s)
  PROVE  /\ waves' \in WaveShape /\ flushing' \subseteq Slot /\ WavesFlush' /\ setting' = setting
         /\ waves[s] \in WaveRecord
         /\ \A d \in Slot : /\ InWaves(d)' = InWaves(d) - waves[s].take[d]
                            /\ GbInWaves(d)' = GbInWaves(d) - (waves[s].take[d] * waves[s].gb)
                            /\ waves[s].take[d] <= InWaves(d)
                            /\ waves[s].take[d] * waves[s].gb <= GbInWaves(d)
                            /\ InWaves(d) \in Nat /\ GbInWaves(d) \in Nat
                            /\ waves[s].take[d] \in Nat /\ waves[s].take[d] * waves[s].gb \in Nat
  <1>1. waves \in WaveShape /\ flushing \subseteq Slot /\ WavesFlush
    BY DEF RegistryInductive, RegistryTypes
  <1>2. waves' = [waves EXCEPT ![s] = NoWave] /\ flushing' = flushing \ {s} /\ setting' = setting
    BY DEF WaveOver
  <1>3. NoWave \in WaveRecord
    BY DEF NoWave, NoTake, WaveRecord
  <1>4. /\ waves' \in WaveShape /\ waves'[s] = NoWave /\ waves[s] \in WaveRecord
        /\ \A u \in Slot : u # s => waves'[u] = waves[u]
    BY <1>1, <1>2, <1>3 DEF WaveShape
  <1>5. flushing' \subseteq Slot /\ WavesFlush'
    BY <1>1, <1>2, <1>4 DEF WavesFlush
  <1>6. waves'[s].gb = 0 /\ \A d \in Slot : waves'[s].take[d] = 0
    BY <1>4 DEF NoWave, NoTake
  <1>7. ASSUME NEW d \in Slot
        PROVE  /\ InWaves(d)' = InWaves(d) - waves[s].take[d]
               /\ GbInWaves(d)' = GbInWaves(d) - (waves[s].take[d] * waves[s].gb)
               /\ waves[s].take[d] <= InWaves(d)
               /\ waves[s].take[d] * waves[s].gb <= GbInWaves(d)
               /\ InWaves(d) \in Nat /\ GbInWaves(d) \in Nat
               /\ waves[s].take[d] \in Nat /\ waves[s].take[d] * waves[s].gb \in Nat
    <2>1. /\ InWaves(d)' = InWaves(d) - waves[s].take[d] + waves'[s].take[d]
          /\ waves[s].take[d] <= InWaves(d)
          /\ InWaves(d) \in Nat /\ waves[s].take[d] \in Nat
      BY <1>1, <1>4, WavesChange
    <2>2. /\ GbInWaves(d)' = GbInWaves(d) - (waves[s].take[d] * waves[s].gb)
                                          + (waves'[s].take[d] * waves'[s].gb)
          /\ waves[s].take[d] * waves[s].gb <= GbInWaves(d)
          /\ GbInWaves(d) \in Nat /\ waves[s].take[d] * waves[s].gb \in Nat
      BY <1>1, <1>4, GbChange
    <2>3. waves'[s].take[d] * waves'[s].gb = 0
      BY <1>6
    <2> QED
      BY <1>6, <2>1, <2>2, <2>3
  <1> QED
    BY <1>2, <1>4, <1>5, <1>7

\* What a step on the disks has to keep.
LEMMA DiskKept ==
  ASSUME RegistryInductive, setting.tier = "ssd", UNCHANGED <<setting, dram, dramGb, resident>>,
         waves' \in WaveShape, flushing' \subseteq Slot, WavesFlush',
         IsFiniteSet(streams'), streams' \subseteq StreamShape, hosted' \in [Slot -> Nat],
         \A d \in Slot : hosted'[d] <= Capacity(d) /\ hosted'[d] = InWaves(d)' + InStreams(d)'
  PROVE  RegistryInductive'
  <1>1. RegistryTypes'
    BY DEF RegistryInductive, RegistryTypes
  <1>2. OneTier'
    BY DEF RegistryInductive, OneTier
  <1>3. LedgerExact'
    <2>1. \A d \in Slot : dram'[d] <= DramHostSlots * Represents[d]
      BY Numbers
    <2> QED
      BY <2>1 DEF LedgerExact, Capacity
  <1> QED
    BY <1>1, <1>2, <1>3 DEF RegistryInductive

\* What one in DRAM has to keep.
LEMMA DramKept ==
  ASSUME RegistryInductive, setting.tier = "dram", UNCHANGED <<setting, hosted, streams>>,
         waves' \in WaveShape, flushing' \subseteq Slot, WavesFlush',
         resident' \in HeldShape, dram' \in [Slot -> Nat], dramGb' \in [Slot -> Nat],
         \A d \in Slot : /\ dram'[d] <= DramHostSlots * Represents[d]
                         /\ dram'[d] = InWaves(d)' + HeldBy(d)'
                         /\ dramGb'[d] = GbInWaves(d)' + BytesBy(d)'
  PROVE  RegistryInductive'
  <1>1. RegistryTypes'
    BY DEF RegistryInductive, RegistryTypes
  <1>2. OneTier'
    BY DEF RegistryInductive, OneTier
  <1>3. LedgerExact'
    <2>1. \A d \in Slot : hosted'[d] <= Capacity(d)
      BY Numbers
    <2>2. setting'.tier = "dram" /\ setting'.tier # "ssd"
      OBVIOUS
    <2> QED
      BY <2>1, <2>2 DEF LedgerExact, Capacity
  <1> QED
    BY <1>1, <1>2, <1>3 DEF RegistryInductive

\* A step that reserves nothing and gives nothing back.
LEMMA NothingReserved ==
  ASSUME RegistryInductive,
         UNCHANGED <<setting, hosted, dram, dramGb, flushing, waves, streams, resident>>
  PROVE  RegistryInductive'
  BY DEF RegistryInductive, RegistryTypes, WavesFlush, OneTier, LedgerExact, InWaves, GbInWaves,
         InStreams, HeldBy, BytesBy, Held, Bytes, Capacity

\* A wave to DRAM is aborted.
LEMMA AbortKept ==
  ASSUME RegistryInductive, NEW s \in Slot, AbortInDram(s)
  PROVE  RegistryInductive'
  <1>1. /\ setting.tier = "dram" /\ WaveOver(s)
        /\ dram' = Minus(dram, waves[s].take)
        /\ dramGb' = Minus(dramGb, Times(waves[s].take, waves[s].gb))
        /\ UNCHANGED <<setting, hosted, streams, resident>>
    BY DEF AbortInDram, WaveOver
  <1>2. resident' \in HeldShape /\ waves' \in WaveShape /\ flushing' \subseteq Slot /\ WavesFlush'
    BY <1>1, WaveEnds DEF RegistryInductive, RegistryTypes
  <1>3. \A d \in Slot : HeldBy(d)' = HeldBy(d) /\ BytesBy(d)' = BytesBy(d)
    BY <1>1 DEF HeldBy, BytesBy, Held, Bytes
  <1>4. ASSUME NEW d \in Slot
        PROVE  /\ dram'[d] \in Nat /\ dramGb'[d] \in Nat
               /\ dram'[d] <= DramHostSlots * Represents[d]
               /\ dram'[d] = InWaves(d)' + HeldBy(d)'
               /\ dramGb'[d] = GbInWaves(d)' + BytesBy(d)'
    <2> DEFINE x == waves[s].take[d]
               g == waves[s].take[d] * waves[s].gb
               m == DramHostSlots * Represents[d]
    <2>1. /\ dram'[d] = Max({0, dram[d] - x}) /\ dramGb'[d] = Max({0, dramGb[d] - g})
      BY <1>1 DEF Minus, Times
    <2>2. /\ InWaves(d)' = InWaves(d) - x /\ GbInWaves(d)' = GbInWaves(d) - g
          /\ x <= InWaves(d) /\ g <= GbInWaves(d)
          /\ InWaves(d) \in Nat /\ GbInWaves(d) \in Nat /\ x \in Nat /\ g \in Nat
      BY <1>1, WaveEnds
    <2>3. /\ dram[d] = InWaves(d) + HeldBy(d) /\ dramGb[d] = GbInWaves(d) + BytesBy(d)
          /\ dram[d] <= m /\ dram[d] \in Nat /\ dramGb[d] \in Nat /\ m \in Nat
      BY <1>1, Numbers
    <2>4. HeldBy(d) \in Nat
      BY <1>2, HeldChange, <1>1 DEF RegistryInductive, RegistryTypes
    <2>5. BytesBy(d) \in Nat
      BY <1>2, BytesChange, <1>1 DEF RegistryInductive, RegistryTypes
    <2> HIDE DEF x, g, m
    <2>6. dram'[d] = dram[d] - x /\ dram'[d] \in Nat
      <3>1. x <= dram[d] /\ x \in Nat /\ dram[d] \in Nat
        BY <2>2, <2>3, <2>4
      <3> QED
        BY <2>1, <3>1, TakenBack
    <2>7. dramGb'[d] = dramGb[d] - g /\ dramGb'[d] \in Nat
      <3>1. g <= dramGb[d] /\ g \in Nat /\ dramGb[d] \in Nat
        BY <2>2, <2>3, <2>5
      <3> QED
        BY <2>1, <3>1, TakenBack
    <2>8. dram'[d] <= m
      BY <2>2, <2>3, <2>6
    <2> QED
      BY <1>3, <2>2, <2>3, <2>4, <2>5, <2>6, <2>7, <2>8 DEF m
  <1>5. dram' \in [Slot -> Nat] /\ dramGb' \in [Slot -> Nat]
    BY <1>1, <1>4 DEF Minus
  <1> QED
    BY <1>1, <1>2, <1>4, <1>5, DramKept

\* A piece leaves DRAM.
LEMMA LeaveKept ==
  ASSUME RegistryInductive, NEW s \in Slot, NEW e \in Slot, LeaveDram(s, e)
  PROVE  RegistryInductive'
  <1>1. /\ resident[<<s, e>>] # NoPiece
        /\ resident' = [resident EXCEPT ![<<s, e>>] = NoPiece]
        /\ dram' = Minus(dram, HeldAt(s, {e}))
        /\ dramGb' = Minus(dramGb, BytesAt(s, {e}))
        /\ UNCHANGED <<setting, hosted, streams, flushing, waves>>
    BY DEF LeaveDram
  <1>2. resident \in HeldShape /\ waves' \in WaveShape /\ flushing' \subseteq Slot /\ WavesFlush'
    BY <1>1 DEF RegistryInductive, RegistryTypes, WavesFlush
  <1>3. setting.tier = "dram"
    BY <1>1, Numbers
  <1>4. NoPiece \in [pieces : Nat, gb : Nat] /\ NoPiece.pieces = 0 /\ NoPiece.gb = 0
    BY DEF NoPiece
  <1>5. /\ resident' \in HeldShape /\ resident'[<<s, e>>] = NoPiece
        /\ \A u, d \in Slot : u # s \/ d # e => resident'[<<u, d>>] = resident[<<u, d>>]
    BY <1>1, <1>2, <1>4 DEF HeldShape
  <1>6. Held(s, e)' = 0 /\ Bytes(s, e)' = 0
    BY <1>4, <1>5 DEF Held, Bytes
  <1>7. ASSUME NEW d \in Slot
        PROVE  /\ dram'[d] \in Nat /\ dramGb'[d] \in Nat
               /\ dram'[d] <= DramHostSlots * Represents[d]
               /\ dram'[d] = InWaves(d)' + HeldBy(d)'
               /\ dramGb'[d] = GbInWaves(d)' + BytesBy(d)'
    <2> DEFINE x == IF d = e THEN Held(s, d) ELSE 0
               g == IF d = e THEN Bytes(s, d) ELSE 0
               m == DramHostSlots * Represents[d]
    <2>1. /\ dram'[d] = Max({0, dram[d] - x}) /\ dramGb'[d] = Max({0, dramGb[d] - g})
      BY <1>1 DEF Minus, HeldAt, BytesAt
    <2>2. /\ HeldBy(d)' = HeldBy(d) - Held(s, d) + Held(s, d)'
          /\ Held(s, d) <= HeldBy(d)
          /\ HeldBy(d) \in Nat /\ Held(s, d) \in Nat /\ Held(s, d)' \in Nat
      BY <1>2, <1>5, HeldChange
    <2>3. /\ BytesBy(d)' = BytesBy(d) - Bytes(s, d) + Bytes(s, d)'
          /\ Bytes(s, d) <= BytesBy(d)
          /\ BytesBy(d) \in Nat /\ Bytes(s, d) \in Nat /\ Bytes(s, d)' \in Nat
      BY <1>2, <1>5, BytesChange
    <2>4. d # e => Held(s, d)' = Held(s, d) /\ Bytes(s, d)' = Bytes(s, d)
      BY <1>5 DEF Held, Bytes
    <2>5. /\ HeldBy(d)' = HeldBy(d) - x /\ BytesBy(d)' = BytesBy(d) - g
          /\ x <= HeldBy(d) /\ g <= BytesBy(d) /\ x \in Nat /\ g \in Nat
      BY <1>6, <2>2, <2>3, <2>4
    <2>6. InWaves(d)' = InWaves(d) /\ GbInWaves(d)' = GbInWaves(d)
      BY <1>1 DEF InWaves, GbInWaves
    <2>7. InWaves(d) \in Nat /\ waves \in WaveShape
      BY <1>1, <1>2, WavesChange
    <2>8. GbInWaves(d) \in Nat
      BY <1>1, <1>2, <2>7, GbChange
    <2>9. /\ dram[d] = InWaves(d) + HeldBy(d) /\ dramGb[d] = GbInWaves(d) + BytesBy(d)
          /\ dram[d] <= m /\ dram[d] \in Nat /\ dramGb[d] \in Nat /\ m \in Nat
      BY <1>3, Numbers
    <2> HIDE DEF x, g, m
    <2>10. dram'[d] = dram[d] - x /\ dram'[d] \in Nat
      <3>1. x <= dram[d] /\ x \in Nat /\ dram[d] \in Nat
        BY <2>2, <2>5, <2>7, <2>9
      <3> QED
        BY <2>1, <3>1, TakenBack
    <2>11. dramGb'[d] = dramGb[d] - g /\ dramGb'[d] \in Nat
      <3>1. g <= dramGb[d] /\ g \in Nat /\ dramGb[d] \in Nat
        BY <2>3, <2>5, <2>8, <2>9
      <3> QED
        BY <2>1, <3>1, TakenBack
    <2>12. dram'[d] <= m
      BY <2>5, <2>9, <2>10
    <2> QED
      BY <2>2, <2>3, <2>5, <2>6, <2>7, <2>8, <2>9, <2>10, <2>11, <2>12 DEF m
  <1>8. dram' \in [Slot -> Nat] /\ dramGb' \in [Slot -> Nat]
    BY <1>1, <1>7 DEF Minus
  <1> QED
    BY <1>1, <1>2, <1>3, <1>5, <1>7, <1>8, DramKept

\* A donor fails, and what is in its DRAM is lost.
LEMMA FailKept ==
  ASSUME RegistryInductive, NEW e \in Slot, Fail(e)
  PROVE  RegistryInductive'
  <1>1. /\ resident' = [x \in Slot \X Slot |-> IF x[2] = e THEN NoPiece ELSE resident[x]]
        /\ dram' = [dram EXCEPT ![e] = Max({0, dram[e] - HeldBy(e)})]
        /\ dramGb' = [dramGb EXCEPT ![e] = Max({0, dramGb[e] - BytesBy(e)})]
        /\ UNCHANGED <<setting, hosted, streams, flushing, waves>>
    BY DEF Fail
  <1>2. /\ resident \in HeldShape /\ waves' \in WaveShape /\ flushing' \subseteq Slot /\ WavesFlush'
        /\ waves \in WaveShape /\ dram \in [Slot -> Nat] /\ dramGb \in [Slot -> Nat]
    BY <1>1 DEF RegistryInductive, RegistryTypes, WavesFlush
  <1>3. NoPiece \in [pieces : Nat, gb : Nat] /\ NoPiece.pieces = 0 /\ NoPiece.gb = 0
    BY DEF NoPiece
  <1>4. /\ resident' \in HeldShape
        /\ \A u, d \in Slot : resident'[<<u, d>>] = IF d = e THEN NoPiece ELSE resident[<<u, d>>]
    BY <1>1, <1>2, <1>3 DEF HeldShape
  <1>5. ASSUME NEW d \in Slot, d # e
        PROVE  HeldBy(d)' = HeldBy(d) /\ BytesBy(d)' = BytesBy(d)
    <2>1. \A u \in Slot : Held(u, d)' = Held(u, d) /\ Bytes(u, d)' = Bytes(u, d)
      BY <1>4, <1>5 DEF Held, Bytes
    <2>2. [u \in Slot |-> Held(u, d)'] = [u \in Slot |-> Held(u, d)]
      BY <2>1, Zenon
    <2>3. [u \in Slot |-> Bytes(u, d)'] = [u \in Slot |-> Bytes(u, d)]
      BY <2>1, Zenon
    <2> QED
      BY <2>2, <2>3, Zenon DEF HeldBy, BytesBy, Held, Bytes
  <1>6. HeldBy(e)' = 0 /\ BytesBy(e)' = 0
    <2>1. \A u \in Slot : Held(u, e)' = 0 /\ Bytes(u, e)' = 0
      BY <1>3, <1>4 DEF Held, Bytes
    <2> DEFINE f == [u \in Slot |-> Held(u, e)']
               g == [u \in Slot |-> Bytes(u, e)']
    <2>2. /\ f \in [Slot -> Nat] /\ g \in [Slot -> Nat]
          /\ \A u \in Slot : f[u] = 0 /\ g[u] = 0
      BY <2>1
    <2>3. HeldBy(e)' = Total(f) /\ BytesBy(e)' = Total(g)
      BY Zenon DEF HeldBy, BytesBy, Held, Bytes
    <2> HIDE DEF f, g
    <2> QED
      BY <2>2, <2>3, TotalZero
  <1>7. \A d \in Slot : HeldBy(d) \in Nat
    BY <1>2, <1>4, SumsAreNat
  <1>8. \A d \in Slot : BytesBy(d) \in Nat /\ InWaves(d) \in Nat /\ GbInWaves(d) \in Nat
    BY <1>2, SumsAreNat
  <1>9. CASE setting.tier = "dram"
    <2>1. ASSUME NEW d \in Slot
          PROVE  /\ dram'[d] \in Nat /\ dramGb'[d] \in Nat
                 /\ dram'[d] <= DramHostSlots * Represents[d]
                 /\ dram'[d] = InWaves(d)' + HeldBy(d)'
                 /\ dramGb'[d] = GbInWaves(d)' + BytesBy(d)'
      <3> DEFINE m == DramHostSlots * Represents[d]
      <3>1. InWaves(d)' = InWaves(d) /\ GbInWaves(d)' = GbInWaves(d)
        BY <1>1 DEF InWaves, GbInWaves
      <3>2. /\ dram[d] = InWaves(d) + HeldBy(d) /\ dramGb[d] = GbInWaves(d) + BytesBy(d)
            /\ dram[d] <= m /\ dram[d] \in Nat /\ dramGb[d] \in Nat /\ m \in Nat
        BY <1>9, Numbers
      <3> HIDE DEF m
      <3>3. CASE d # e
        <4>1. dram'[d] = dram[d] /\ dramGb'[d] = dramGb[d]
          BY <1>1, <1>2, <3>3
        <4> QED
          BY <1>5, <3>1, <3>2, <3>3, <4>1 DEF m
      <3>4. CASE d = e
        <4>1. dram'[d] = Max({0, dram[d] - HeldBy(d)}) /\ dramGb'[d] = Max({0, dramGb[d] - BytesBy(d)})
          BY <1>1, <1>2, <3>4
        <4>2. HeldBy(d) <= dram[d] /\ BytesBy(d) <= dramGb[d]
          BY <1>7, <1>8, <3>2
        <4> DEFINE x == HeldBy(d)
                   g == BytesBy(d)
        <4>5. /\ x \in Nat /\ dram[d] \in Nat /\ x <= dram[d] /\ dram'[d] = Max({0, dram[d] - x})
              /\ g \in Nat /\ dramGb[d] \in Nat /\ g <= dramGb[d]
              /\ dramGb'[d] = Max({0, dramGb[d] - g})
          BY <1>7, <1>8, <3>2, <4>1, <4>2
        <4> HIDE DEF x, g
        <4>3. dram'[d] = dram[d] - x /\ dram'[d] \in Nat
          BY <4>5, TakenBack
        <4>4. dramGb'[d] = dramGb[d] - g /\ dramGb'[d] \in Nat
          BY <4>5, TakenBack
        <4> QED
          BY <1>6, <1>7, <1>8, <3>1, <3>2, <3>4, <4>3, <4>4 DEF m, x, g
      <3> QED
        BY <3>3, <3>4
    <2>2. dram' \in [Slot -> Nat] /\ dramGb' \in [Slot -> Nat]
      BY <1>1, <1>2, <2>1
    <2> QED
      BY <1>1, <1>2, <1>4, <1>9, <2>1, <2>2, DramKept
  <1>10. CASE setting.tier = "ssd"
    <2>1. /\ dram = NoTake /\ dramGb = NoTake /\ \A x \in Slot \X Slot : resident[x] = NoPiece
      BY <1>10, Numbers
    <2>2. resident' = resident
      BY <1>1, <1>2, <2>1 DEF HeldShape
    <2>3. dram[e] = 0 /\ dramGb[e] = 0
      BY <2>1 DEF NoTake
    <2>4. HeldBy(e) = 0 /\ BytesBy(e) = 0
      <3>1. HeldBy(e)' = HeldBy(e) /\ BytesBy(e)' = BytesBy(e)
        BY <2>2 DEF HeldBy, BytesBy, Held, Bytes
      <3> QED
        BY <1>6, <3>1
    <2>5. Max({0, dram[e] - HeldBy(e)}) = 0 /\ Max({0, dramGb[e] - BytesBy(e)}) = 0
      BY <2>3, <2>4, TakenBack
    <2>6. dram' = dram /\ dramGb' = dramGb
      BY <1>1, <1>2, <2>3, <2>5
    <2> QED
      BY <1>1, <2>2, <2>6, NothingReserved
  <1> QED
    BY <1>9, <1>10, Numbers

\* The pieces of all streams at a donor are a number.
LEMMA StreamsAreNat ==
  ASSUME IsFiniteSet(streams), streams \subseteq StreamShape, NEW d \in Slot
  PROVE  InStreams(d) \in Nat
  <1>1. [x \in streams |-> IF x.donor = d THEN x.pieces ELSE 0] \in [streams -> Nat]
    BY DEF StreamShape
  <1> QED
    BY <1>1, UnitsFinite DEF InStreams

\* A wave to the disks ends.
LEMMA EndKept ==
  ASSUME RegistryInductive, NEW s \in Slot, EndOnDisk(s)
  PROVE  RegistryInductive'
  <1> DEFINE take == waves[s].take
  <1>1. setting.tier = "ssd" /\ WaveOver(s) /\ UNCHANGED <<setting, dram, dramGb, resident>>
    BY DEF EndOnDisk, WaveOver
  <1>2. /\ hosted \in [Slot -> Nat] /\ IsFiniteSet(streams) /\ streams \subseteq StreamShape
    BY DEF RegistryInductive, RegistryTypes
  <1>3. /\ waves' \in WaveShape /\ flushing' \subseteq Slot /\ WavesFlush' /\ take \in [Slot -> Nat]
    BY <1>1, WaveEnds DEF WaveRecord
  <1>4. \A d \in Slot : /\ InWaves(d)' = InWaves(d) - take[d] /\ take[d] <= InWaves(d)
                        /\ InWaves(d) \in Nat /\ take[d] \in Nat
    BY <1>1, WaveEnds
  <1>5. \A d \in Slot : /\ hosted[d] = InWaves(d) + InStreams(d) /\ hosted[d] <= Capacity(d)
                        /\ hosted[d] \in Nat /\ Capacity(d) \in Nat /\ InStreams(d) \in Nat
    BY <1>1, <1>2, Numbers, StreamsAreNat
  <1> HIDE DEF take
  <1>6. CASE hosted' = Minus(hosted, take) /\ streams' = streams
    <2>1. \A d \in Slot : InStreams(d)' = InStreams(d)
      BY <1>6 DEF InStreams
    <2>2. ASSUME NEW d \in Slot
          PROVE  /\ hosted'[d] \in Nat
                 /\ hosted'[d] <= Capacity(d) /\ hosted'[d] = InWaves(d)' + InStreams(d)'
      <3>1. hosted'[d] = Max({0, hosted[d] - take[d]})
        BY <1>6 DEF Minus
      <3>2. take[d] <= hosted[d] /\ take[d] \in Nat /\ hosted[d] \in Nat
        BY <1>4, <1>5
      <3>3. hosted'[d] = hosted[d] - take[d] /\ hosted'[d] \in Nat
        BY <3>1, <3>2, TakenBack
      <3> QED
        BY <1>4, <1>5, <2>1, <3>2, <3>3
    <2>3. hosted' \in [Slot -> Nat]
      BY <1>6, <2>2 DEF Minus
    <2> QED
      BY <1>1, <1>2, <1>3, <1>6, <2>2, <2>3, DiskKept
  <1>7. ASSUME NEW e \in Donors(take), hosted' = Minus(hosted, [take EXCEPT ![e] = 0]),
               streams' = streams \cup {Stream(e, take[e])}
        PROVE  RegistryInductive'
    <2> DEFINE left == [take EXCEPT ![e] = 0]
    <2>x. PICK x : x = Stream(e, take[e])
      OBVIOUS
    <2>1. e \in Slot /\ take[e] \in Nat
      BY <1>3 DEF Donors
    <2>2. x \in StreamShape /\ x \notin streams /\ x.donor = e /\ x.pieces = take[e]
      BY <1>2, <2>1, <2>x, StreamIsNew
    <2>3. \A d \in Slot : left[d] = IF d = e THEN 0 ELSE take[d]
      BY <1>3
    <2>a. streams' = streams \cup {x} /\ hosted' = Minus(hosted, left)
      BY <1>7, <2>x
    <2> HIDE DEF left
    <2>4. IsFiniteSet(streams') /\ streams' \subseteq StreamShape
      BY <1>2, <2>2, <2>a, FS_AddElement
    <2>5. ASSUME NEW d \in Slot
          PROVE  InStreams(d)' = InStreams(d) + (IF d = e THEN take[d] ELSE 0)
      <3>1. /\ streams' = streams \cup {x} /\ x \notin streams
            /\ IsFiniteSet(streams) /\ streams' \subseteq StreamShape
        BY <1>2, <2>2, <2>4, <2>a
      <3>2. Total([y \in streams' |-> IF y.donor = d THEN y.pieces ELSE 0])
            = Total([y \in streams |-> IF y.donor = d THEN y.pieces ELSE 0])
              + (IF x.donor = d THEN x.pieces ELSE 0)
        BY <3>1, OneStreamMore
      <3>3. InStreams(d)' = InStreams(d) + (IF x.donor = d THEN x.pieces ELSE 0)
        BY <3>2, Zenon DEF InStreams
      <3> QED
        BY <2>2, <3>3
    <2>6. ASSUME NEW d \in Slot
          PROVE  /\ hosted'[d] \in Nat
                 /\ hosted'[d] <= Capacity(d) /\ hosted'[d] = InWaves(d)' + InStreams(d)'
      <3>1. hosted'[d] = Max({0, hosted[d] - left[d]})
        BY <2>a DEF Minus
      <3>2. left[d] <= hosted[d] /\ left[d] \in Nat /\ hosted[d] \in Nat
        BY <1>4, <1>5, <2>3
      <3>3. hosted'[d] = hosted[d] - left[d] /\ hosted'[d] \in Nat
        BY <3>1, <3>2, TakenBack
      <3> QED
        BY <1>4, <1>5, <2>3, <2>5, <3>2, <3>3
    <2>7. hosted' \in [Slot -> Nat]
      BY <2>a, <2>6 DEF Minus
    <2> QED
      BY <1>1, <1>3, <2>4, <2>6, <2>7, DiskKept
  <1>8. \/ hosted' = Minus(hosted, take) /\ streams' = streams
        \/ \E e \in Donors(take) : /\ hosted' = Minus(hosted, [take EXCEPT ![e] = 0])
                                   /\ streams' = streams \cup {Stream(e, take[e])}
    BY DEF EndOnDisk, take
  <1> QED
    BY <1>6, <1>7, <1>8

\* A stream that outlived its wave ends.
LEMMA StreamKept ==
  ASSUME RegistryInductive, StreamEnds
  PROVE  RegistryInductive'
  <1>1. PICK x \in streams :
          /\ streams' = streams \ {x}
          /\ hosted' = Minus(hosted, [NoTake EXCEPT ![x.donor] = x.pieces])
          /\ UNCHANGED <<setting, dram, dramGb, flushing, waves, resident>>
    BY DEF StreamEnds
  <1>2. /\ hosted \in [Slot -> Nat] /\ IsFiniteSet(streams) /\ streams \subseteq StreamShape
        /\ waves \in WaveShape /\ resident \in HeldShape
        /\ flushing' \subseteq Slot /\ WavesFlush' /\ waves' \in WaveShape
    BY <1>1 DEF RegistryInductive, RegistryTypes, WavesFlush
  <1>3. setting.tier = "ssd"
    BY <1>1, Numbers, <1>2, x.donor \in Slot DEF StreamShape
  <1>4. IsFiniteSet(streams') /\ streams' \subseteq StreamShape
    BY <1>1, <1>2, FS_Subset
  <1>5. x.donor \in Slot /\ x.pieces \in Nat
    BY <1>2 DEF StreamShape
  <1> DEFINE left == [NoTake EXCEPT ![x.donor] = x.pieces]
  <1>6. \A d \in Slot : left[d] = IF d = x.donor THEN x.pieces ELSE 0
    BY <1>5 DEF NoTake
  <1>7. \A d \in Slot : /\ hosted[d] = InWaves(d) + InStreams(d) /\ hosted[d] <= Capacity(d)
                        /\ hosted[d] \in Nat /\ Capacity(d) \in Nat
    BY <1>3, Numbers
  <1>8. \A d \in Slot : InWaves(d) \in Nat /\ InWaves(d)' = InWaves(d)
    BY <1>1, <1>2, SumsAreNat DEF InWaves
  <1>9. hosted' = Minus(hosted, left)
    BY <1>1
  <1> HIDE DEF left
  <1>10. ASSUME NEW d \in Slot
         PROVE  InStreams(d) = InStreams(d)' + left[d] /\ InStreams(d)' \in Nat /\ left[d] \in Nat
    <2>1. streams = streams' \cup {x} /\ x \notin streams'
      BY <1>1
    <2>2. InStreams(d) = InStreams(d)' + (IF x.donor = d THEN x.pieces ELSE 0) /\ InStreams(d)' \in Nat
      BY <1>2, <1>4, <2>1, OneStreamMore DEF InStreams
    <2> QED
      BY <1>5, <1>6, <2>2
  <1>11. ASSUME NEW d \in Slot
         PROVE  /\ hosted'[d] \in Nat
                /\ hosted'[d] <= Capacity(d) /\ hosted'[d] = InWaves(d)' + InStreams(d)'
    <2>1. hosted'[d] = Max({0, hosted[d] - left[d]})
      BY <1>9 DEF Minus
    <2>2. left[d] <= hosted[d] /\ left[d] \in Nat /\ hosted[d] \in Nat
      BY <1>7, <1>8, <1>10
    <2>3. hosted'[d] = hosted[d] - left[d] /\ hosted'[d] \in Nat
      BY <2>1, <2>2, TakenBack
    <2> QED
      BY <1>7, <1>8, <1>10, <2>2, <2>3
  <1>12. hosted' \in [Slot -> Nat]
    BY <1>9, <1>11 DEF Minus
  <1> QED
    BY <1>1, <1>2, <1>3, <1>4, <1>11, <1>12, DiskKept

\* A wave to DRAM lands: what is stale is dropped, what is superseded is released.
LEMMA LandKept ==
  ASSUME RegistryInductive, NEW s \in Slot, NEW stale \in SUBSET Donors(waves[s].take),
         LandInDram(s, stale)
  PROVE  RegistryInductive'
  <1> DEFINE take == waves[s].take
             gb == waves[s].gb
             new == Donors(take) \ stale
             dropped == [d \in Slot |-> IF d \in stale THEN take[d] ELSE 0]
             piece(d) == [pieces |-> take[d], gb |-> gb]
  <1>1. /\ setting.tier = "dram" /\ WaveOver(s) /\ UNCHANGED <<setting, hosted, streams>>
        /\ resident' = [x \in Slot \X Slot |->
                          IF x[1] = s /\ x[2] \in new THEN piece(x[2]) ELSE resident[x]]
        /\ dram' = Minus(Minus(dram, dropped), HeldAt(s, new))
        /\ dramGb' = Minus(Minus(dramGb, Times(dropped, gb)), BytesAt(s, new))
    BY DEF LandInDram, WaveOver
  <1>2. /\ resident \in HeldShape /\ waves \in WaveShape /\ waves[s] \in WaveRecord
        /\ waves' \in WaveShape /\ flushing' \subseteq Slot /\ WavesFlush'
    BY <1>1, WaveEnds DEF RegistryInductive, RegistryTypes
  <1>3. take \in [Slot -> Nat] /\ gb \in Nat
    BY <1>2 DEF WaveRecord
  <1>4. /\ new \subseteq Slot /\ stale \subseteq Slot /\ new \cap stale = {}
        /\ \A d \in Slot \ (new \cup stale) : take[d] = 0
    BY <1>3 DEF Donors
  <1>5. \A d \in Slot : piece(d) \in [pieces : Nat, gb : Nat]
                        /\ piece(d).pieces = take[d] /\ piece(d).gb = gb
    BY <1>3
  <1> HIDE DEF take, gb, new, piece
  <1>6. /\ resident' \in HeldShape
        /\ \A u, d \in Slot : resident'[<<u, d>>] = IF u = s /\ d \in new THEN piece(d)
                                                    ELSE resident[<<u, d>>]
    BY <1>1, <1>2, <1>4, <1>5 DEF HeldShape
  <1>7. ASSUME NEW d \in Slot
        PROVE  /\ dram'[d] \in Nat /\ dramGb'[d] \in Nat
               /\ dram'[d] <= DramHostSlots * Represents[d]
               /\ dram'[d] = InWaves(d)' + HeldBy(d)'
               /\ dramGb'[d] = GbInWaves(d)' + BytesBy(d)'
    <2> DEFINE g == take[d] * gb
               m == DramHostSlots * Represents[d]
               x == IF d \in stale THEN take[d] ELSE 0
               y == IF d \in new THEN Held(s, d) ELSE 0
               a == IF d \in stale THEN g ELSE 0
               b == IF d \in new THEN Bytes(s, d) ELSE 0
    <2>1. dram'[d] = Max({0, Max({0, dram[d] - x}) - y})
      BY <1>1 DEF Minus, HeldAt
    <2>2. Times(dropped, gb)[d] = a
      <3>1. Times(dropped, gb)[d] = dropped[d] * gb
        BY DEF Times
      <3>2. 0 * gb = 0
        BY <1>3
      <3> QED
        BY <3>1, <3>2
    <2>3. dramGb'[d] = Max({0, Max({0, dramGb[d] - a}) - b})
      BY <1>1, <2>2 DEF Minus, BytesAt
    <2>4. /\ InWaves(d)' = InWaves(d) - take[d] /\ GbInWaves(d)' = GbInWaves(d) - g
          /\ take[d] <= InWaves(d) /\ g <= GbInWaves(d)
          /\ InWaves(d) \in Nat /\ GbInWaves(d) \in Nat /\ take[d] \in Nat /\ g \in Nat
      BY <1>1, WaveEnds DEF take, gb
    <2>5. /\ HeldBy(d)' = HeldBy(d) - Held(s, d) + Held(s, d)'
          /\ Held(s, d) <= HeldBy(d)
          /\ HeldBy(d) \in Nat /\ Held(s, d) \in Nat /\ Held(s, d)' \in Nat
      BY <1>2, <1>6, HeldChange
    <2>6. /\ BytesBy(d)' = BytesBy(d) - Bytes(s, d) + Bytes(s, d)'
          /\ Bytes(s, d) <= BytesBy(d)
          /\ BytesBy(d) \in Nat /\ Bytes(s, d) \in Nat /\ Bytes(s, d)' \in Nat
      BY <1>2, <1>6, BytesChange
    <2>7. Held(s, d)' = IF d \in new THEN take[d] ELSE Held(s, d)
      BY <1>5, <1>6 DEF Held
    <2>8. Bytes(s, d)' = IF d \in new THEN g ELSE Bytes(s, d)
      <3>1. CASE d \in new
        <4>1. resident'[<<s, d>>] = piece(d)
          BY <1>6, <3>1
        <4> QED
          BY <1>5, <3>1, <4>1 DEF Bytes
      <3>2. CASE d \notin new
        <4>1. resident'[<<s, d>>] = resident[<<s, d>>]
          BY <1>6, <3>2
        <4> QED
          BY <3>2, <4>1 DEF Bytes
      <3> QED
        BY <3>1, <3>2
    <2>9. /\ dram[d] = InWaves(d) + HeldBy(d) /\ dramGb[d] = GbInWaves(d) + BytesBy(d)
          /\ dram[d] <= m /\ dram[d] \in Nat /\ dramGb[d] \in Nat /\ m \in Nat
      BY <1>1, Numbers
    <2>10. d \in new \/ d \in stale \/ (take[d] = 0 /\ g = 0)
      BY <1>3, <1>4, TimesZero
    <2> HIDE DEF g, m
    <2>11. /\ x \in Nat /\ x <= dram[d] /\ y \in Nat /\ y <= dram[d] - x
           /\ a \in Nat /\ a <= dramGb[d] /\ b \in Nat /\ b <= dramGb[d] - a
      BY <1>4, <2>4, <2>5, <2>6, <2>9
    <2>12. /\ HeldBy(d)' = HeldBy(d) - y + (IF d \in new THEN take[d] ELSE 0)
           /\ BytesBy(d)' = BytesBy(d) - b + (IF d \in new THEN g ELSE 0)
      BY <2>4, <2>5, <2>6, <2>7, <2>8
    <2>13. /\ take[d] = x + (IF d \in new THEN take[d] ELSE 0)
           /\ g = a + (IF d \in new THEN g ELSE 0)
      BY <1>4, <2>4, <2>10
    <2> HIDE DEF x, y, a, b
    <2>14. dram'[d] = dram[d] - x - y /\ dram'[d] \in Nat
      <3>1. Max({0, dram[d] - x}) = dram[d] - x /\ dram[d] - x \in Nat
        BY <2>9, <2>11, TakenBack
      <3>2. Max({0, (dram[d] - x) - y}) = (dram[d] - x) - y /\ (dram[d] - x) - y \in Nat
        BY <2>11, <3>1, TakenBack
      <3> QED
        BY <2>1, <3>1, <3>2
    <2>15. dramGb'[d] = dramGb[d] - a - b /\ dramGb'[d] \in Nat
      <3>1. Max({0, dramGb[d] - a}) = dramGb[d] - a /\ dramGb[d] - a \in Nat
        BY <2>9, <2>11, TakenBack
      <3>2. Max({0, (dramGb[d] - a) - b}) = (dramGb[d] - a) - b /\ (dramGb[d] - a) - b \in Nat
        BY <2>11, <3>1, TakenBack
      <3> QED
        BY <2>3, <3>1, <3>2
    <2>16. dram'[d] <= m
      BY <2>9, <2>11, <2>14
    <2>17. dram'[d] = InWaves(d)' + HeldBy(d)'
      BY <2>4, <2>5, <2>9, <2>11, <2>12, <2>13, <2>14
    <2>18. dramGb'[d] = GbInWaves(d)' + BytesBy(d)'
      BY <2>4, <2>6, <2>9, <2>11, <2>12, <2>13, <2>15
    <2> QED
      BY <2>14, <2>15, <2>16, <2>17, <2>18 DEF m
  <1>8. dram' \in [Slot -> Nat] /\ dramGb' \in [Slot -> Nat]
    BY <1>1, <1>7 DEF Minus
  <1> QED
    BY <1>1, <1>2, <1>6, <1>7, <1>8, DramKept

\* The bytes of a piece are estimated to be some.
LEMMA EstimateIsPositive ==
  ASSUME setting \in RegistrySettings
  PROVE  PieceEstimate \in Nat \ {0}
  <1> DEFINE e == setting.k
             q == ShardGb \div e
             r == ShardGb % e
  <1>1. e \in Nat \ {0} /\ e <= ShardGb /\ ShardGb \in Nat
    BY RegistryConstants
  <1>2. ShardGb = (e * q) + r /\ q \in Nat /\ r \in 0 .. (e - 1)
    BY <1>1, Divided
  <1>3. PieceEstimate = q
    BY DEF PieceEstimate
  <1> HIDE DEF e, q, r
  <1>4. q # 0
    <2>1. SUFFICES ASSUME q = 0 PROVE FALSE
      OBVIOUS
    <2>2. ShardGb = (e * 0) + r
      BY <1>2, <2>1
    <2>3. e * 0 = 0
      BY <1>1, TimesZero
    <2> QED
      BY <1>1, <1>2, <2>2, <2>3
  <1> QED
    BY <1>2, <1>3, <1>4

\* A grant that is not empty has pieces, and as many of one donor as there are in all or fewer.
LEMMA SomeTaken ==
  ASSUME NEW take \in [Slot -> Nat], take # NoTake
  PROVE  /\ Total(take) \in Nat \ {0}
         /\ Max(Range(take)) \in Nat
  <1>1. PICK d \in Slot : take[d] # 0
    BY DEF NoTake
  <1>2. IsFiniteSet(Slot)
    BY RegistryConstants
  <1>3. Total(take) \in Nat
    BY <1>2, UnitsFinite
  <1>4. \A u \in Slot : take[u] <= Total(take)
    BY <1>2, TotalChange
  <1>5. Range(take) \subseteq Nat /\ take[d] \in Range(take) /\ \A y \in Range(take) : y <= Total(take)
    <2>1. \A y \in Range(take) : \E u \in Slot : y = take[u]
      BY DEF Range
    <2>2. take[d] \in Range(take)
      BY DEF Range
    <2> QED
      BY <1>4, <2>1, <2>2
  <1>6. Max(Range(take)) \in Range(take)
    BY <1>3, <1>5, MaxOfBounded
  <1> QED
    BY <1>1, <1>3, <1>4, <1>5, <1>6

\* The wave that Start begins.
LEMMA StartsWith ==
  ASSUME setting \in RegistrySettings, NEW s \in Slot, NEW take \in [Slot -> Nat]
  PROVE  (IF take = NoTake THEN 0 ELSE (ShardGb * Represents[s]) \div Total(take)) \in Nat
  <1>1. CASE take = NoTake
    BY <1>1
  <1>2. CASE take # NoTake
    <2> DEFINE b == ShardGb * Represents[s]
               n == Total(take)
    <2>1. b \in Nat
      BY RegistryConstants, ProductIsNat
    <2>2. n \in Nat \ {0}
      BY <1>2, SomeTaken
    <2> HIDE DEF b, n
    <2>3. b \div n \in Nat
      BY <2>1, <2>2, Divided
    <2> QED
      BY <1>2, <2>3 DEF b, n
  <1> QED
    BY <1>1, <1>2

\* A product with a difference.
LEMMA TimesDifference ==
  ASSUME NEW a \in Nat, NEW x \in Nat, NEW y \in Nat
  PROVE  (a * y) + (a * (x - y)) = a * x /\ a * (x - y) \in Int
  OBVIOUS

\* The number of pieces of a wave.
LEMMA WaveSize ==
  ASSUME setting \in RegistrySettings, NEW s \in Slot
  PROVE  setting.k * Represents[s] \in Nat
  BY RegistryConstants, ProductIsNat

\* A grant that may be partial is returned as it is.
LEMMA PartialGrant ==
  ASSUME NEW take \in [Slot -> Nat], NEW n
  PROVE  Returned(take, n, TRUE) = take /\ OnBoard(take, n, TRUE) = take
  <1>1. \A d \in Slot : take[d] - 0 = take[d]
    OBVIOUS
  <1>2. OnBoard(take, n, TRUE) = [d \in Slot |-> take[d] - 0]
    BY DEF OnBoard
  <1> QED
    BY <1>1, <1>2 DEF Returned

\* One that must be whole leaves nothing when it is refused.
LEMMA WholeGrant ==
  ASSUME NEW take \in [Slot -> Nat], NEW n
  PROVE  /\ Returned(take, n, FALSE) = OnBoard(take, n, FALSE)
         /\ Returned(take, n, FALSE) \in {take, NoTake}
  <1>1. \A d \in Slot : take[d] - 0 = take[d] /\ take[d] - take[d] = 0
    OBVIOUS
  <1>2. CASE Total(take) < n
    <2>1. OnBoard(take, n, FALSE) = [d \in Slot |-> take[d] - take[d]]
      BY <1>2 DEF OnBoard
    <2> QED
      BY <1>1, <1>2, <2>1 DEF Returned, NoTake
  <1>3. CASE ~(Total(take) < n)
    <2>1. OnBoard(take, n, FALSE) = [d \in Slot |-> take[d] - 0]
      BY <1>3 DEF OnBoard
    <2> QED
      BY <1>1, <1>3, <2>1 DEF Returned
  <1> QED
    BY <1>2, <1>3

\* A wave to DRAM starts.
LEMMA DramStartKept ==
  ASSUME RegistryInductive, NEW s \in Slot, FlushToDram(s)
  PROVE  RegistryInductive'
  <1> DEFINE n == setting.k * Represents[s]
             e == PieceEstimate
             share(t) == IF t = NoTake THEN 0 ELSE (ShardGb * Represents[s]) \div Total(t)
             first(t, f) == [take |-> t, parity |-> FALSE, flagged |-> f, gb |-> share(t)]
  <1>0. /\ setting \in RegistrySettings /\ waves \in WaveShape /\ resident \in HeldShape
        /\ dram \in [Slot -> Nat] /\ dramGb \in [Slot -> Nat]
    BY DEF RegistryInductive, RegistryTypes
  <1>1. n \in Nat /\ e \in Nat \ {0}
    BY <1>0, WaveSize, EstimateIsPositive
  <1>2. PICK match \in Matched(s, n, "dram", e) :
          LET take == Returned(match.take, n, TRUE)
          IN  /\ Start(s, take, FALSE, match.flagged)
              /\ dram' = Plus(dram, OnBoard(match.take, n, TRUE))
              /\ dramGb' = TrueUp(Plus(dramGb, Times(OnBoard(match.take, n, TRUE), e)), take, share(take))
    BY DEF FlushToDram
  <1> DEFINE take == match.take
             gb == share(take)
             w == first(take, match.flagged)
  <1>3. /\ setting.tier = "dram" /\ s \notin flushing /\ UNCHANGED hosted
    BY DEF FlushToDram, MayFlush
  <1>4. /\ take \in [Slot -> Nat] /\ match.flagged \in BOOLEAN
        /\ \A d \in Slot : take[d] = 0 \/ take[d] <= Room(d, "dram", e)
    BY <1>1, MatchFits
  <1>5. Returned(take, n, TRUE) = take /\ OnBoard(take, n, TRUE) = take
    BY <1>4, PartialGrant
  <1>6. gb \in Nat
    BY <1>0, <1>4, StartsWith
  <1>7. /\ waves' = [waves EXCEPT ![s] = w] /\ flushing' = flushing \cup {s}
        /\ UNCHANGED <<setting, streams, resident>>
    BY <1>2, <1>5 DEF Start
  <1>8. /\ dram' = Plus(dram, take)
        /\ dramGb' = TrueUp(Plus(dramGb, Times(take, e)), take, gb)
    BY <1>2, <1>5
  <1>9. w \in WaveRecord /\ w.take = take /\ w.gb = gb
    BY <1>4, <1>6 DEF WaveRecord
  <1> HIDE DEF n, e, share, first, take, gb, w
  <1>10. /\ waves' \in WaveShape /\ flushing' \subseteq Slot /\ WavesFlush'
         /\ \A d \in Slot : /\ InWaves(d)' = InWaves(d) + take[d]
                            /\ GbInWaves(d)' = GbInWaves(d) + (take[d] * gb)
                            /\ InWaves(d) \in Nat /\ GbInWaves(d) \in Nat
                            /\ take[d] \in Nat /\ take[d] * gb \in Nat
    BY <1>3, <1>7, <1>9, WaveStarts
  <1>11. \A d \in Slot : HeldBy(d)' = HeldBy(d) /\ BytesBy(d)' = BytesBy(d)
    BY <1>7 DEF HeldBy, BytesBy, Held, Bytes
  <1>12. ASSUME NEW d \in Slot
         PROVE  /\ dram'[d] \in Nat /\ dramGb'[d] \in Nat
                /\ dram'[d] <= DramHostSlots * Represents[d]
                /\ dram'[d] = InWaves(d)' + HeldBy(d)'
                /\ dramGb'[d] = GbInWaves(d)' + BytesBy(d)'
    <2> DEFINE m == DramHostSlots * Represents[d]
               g == take[d] * gb
    <2>1. dram'[d] = dram[d] + take[d]
      BY <1>8 DEF Plus
    <2>2. /\ dram[d] = InWaves(d) + HeldBy(d) /\ dramGb[d] = GbInWaves(d) + BytesBy(d)
          /\ dram[d] <= m /\ dram[d] \in Nat /\ dramGb[d] \in Nat /\ m \in Nat
      BY <1>3, Numbers
    <2>3. HeldBy(d) \in Nat /\ BytesBy(d) \in Nat
      BY <1>0, SumsAreNat
    <2>4. dram[d] + take[d] <= m
      <3>1. Room(d, "dram", e) \in Nat /\ dram[d] + Room(d, "dram", e) <= m
        BY <1>1, RoomIsNat
      <3> HIDE DEF m
      <3> QED
        BY <1>4, <2>2, <3>1
    <2>5. dramGb'[d] = Max({0, (dramGb[d] + (take[d] * e)) + (take[d] * (gb - e))})
      BY <1>8 DEF TrueUp, Plus, Times, e
    <2>6. (take[d] * e) + (take[d] * (gb - e)) = g /\ take[d] * (gb - e) \in Int /\ take[d] * e \in Nat
      BY <1>1, <1>6, <1>10, TimesDifference, ProductIsNat
    <2>7. g \in Nat
      BY <1>10
    <2> HIDE DEF m, g
    <2>8. (dramGb[d] + (take[d] * e)) + (take[d] * (gb - e)) = dramGb[d] + g
      <3> DEFINE x == take[d] * e
                 y == take[d] * (gb - e)
      <3>1. x + y = g /\ x \in Int /\ y \in Int
        BY <2>6
      <3> HIDE DEF x, y
      <3>2. (dramGb[d] + x) + y = dramGb[d] + g
        BY <2>2, <2>7, <3>1
      <3> QED
        BY <3>2 DEF x, y
    <2>9. dramGb'[d] = dramGb[d] + g
      <3>1. dramGb'[d] = Max({0, dramGb[d] + g})
        BY <2>5, <2>8
      <3>2. dramGb[d] + g \in Nat
        BY <2>2, <2>7
      <3>3. Max({0, dramGb[d] + g}) = IF dramGb[d] + g > 0 THEN dramGb[d] + g ELSE 0
        BY <3>2, NotNegative
      <3> QED
        BY <3>1, <3>2, <3>3
    <2>10. GbInWaves(d)' = GbInWaves(d) + g /\ GbInWaves(d) \in Nat
      BY <1>10 DEF g
    <2>11. dram'[d] <= m /\ dram'[d] \in Nat /\ dramGb'[d] \in Nat
      BY <1>10, <2>1, <2>2, <2>4, <2>7, <2>9
    <2>12. dram'[d] = InWaves(d)' + HeldBy(d)'
      BY <1>10, <1>11, <2>1, <2>2, <2>3
    <2>13. dramGb'[d] = GbInWaves(d)' + BytesBy(d)'
      BY <1>11, <2>2, <2>3, <2>7, <2>9, <2>10
    <2> QED
      BY <2>11, <2>12, <2>13 DEF m
  <1>13. dram' \in [Slot -> Nat] /\ dramGb' \in [Slot -> Nat]
    BY <1>8, <1>12 DEF Plus, TrueUp
  <1>14. resident' \in HeldShape
    BY <1>0, <1>7
  <1> QED
    BY <1>3, <1>7, <1>10, <1>12, <1>13, <1>14, DramKept

\* A wave to the disks starts with a grant for which its donors have room.
LEMMA GrantKept ==
  ASSUME RegistryInductive, setting.tier = "ssd", NEW s \in Slot, s \notin flushing,
         NEW w \in WaveRecord, waves' = [waves EXCEPT ![s] = w], flushing' = flushing \cup {s},
         UNCHANGED <<setting, dram, dramGb, streams, resident>>, hosted' = Plus(hosted, w.take),
         \A d \in Slot : w.take[d] = 0 \/ hosted[d] + w.take[d] <= Capacity(d)
  PROVE  RegistryInductive'
  <1>1. /\ waves' \in WaveShape /\ flushing' \subseteq Slot /\ WavesFlush'
        /\ \A d \in Slot : /\ InWaves(d)' = InWaves(d) + w.take[d]
                           /\ InWaves(d) \in Nat /\ w.take[d] \in Nat
    BY WaveStarts
  <1>2. IsFiniteSet(streams) /\ streams \subseteq StreamShape
    BY DEF RegistryInductive, RegistryTypes
  <1>3. ASSUME NEW d \in Slot
        PROVE  /\ hosted'[d] \in Nat
               /\ hosted'[d] <= Capacity(d) /\ hosted'[d] = InWaves(d)' + InStreams(d)'
    <2>1. hosted'[d] = hosted[d] + w.take[d]
      BY DEF Plus
    <2>2. InStreams(d)' = InStreams(d) /\ InStreams(d) \in Nat
      BY <1>2, StreamsAreNat DEF InStreams
    <2>3. /\ hosted[d] = InWaves(d) + InStreams(d) /\ hosted[d] <= Capacity(d)
          /\ hosted[d] \in Nat /\ Capacity(d) \in Nat
      BY Numbers
    <2> QED
      BY <1>1, <2>1, <2>2, <2>3
  <1>4. hosted' \in [Slot -> Nat]
    BY <1>3 DEF Plus
  <1>5. IsFiniteSet(streams') /\ streams' \subseteq StreamShape
    BY <1>2
  <1> QED
    BY <1>1, <1>3, <1>4, <1>5, DiskKept

\* A match on the disks is within what is left of them.
LEMMA DiskMatchFits ==
  ASSUME RegistryInductive, NEW s \in Slot, NEW n \in Nat, NEW match \in Matched(s, n, "ssd", 1)
  PROVE  /\ match.take \in [Slot -> Nat] /\ match.flagged \in BOOLEAN
         /\ \A d \in Slot : match.take[d] = 0 \/ hosted[d] + match.take[d] <= Capacity(d)
  <1>1. /\ match.take \in [Slot -> Nat] /\ match.flagged \in BOOLEAN
        /\ \A d \in Slot : match.take[d] = 0 \/ match.take[d] <= Room(d, "ssd", 1)
    BY MatchFits
  <1>2. ASSUME NEW d \in Slot
        PROVE  match.take[d] = 0 \/ hosted[d] + match.take[d] <= Capacity(d)
    <2>1. Room(d, "ssd", 1) \in Nat /\ hosted[d] + Room(d, "ssd", 1) <= Capacity(d)
      BY RoomIsNat
    <2>2. hosted[d] \in Nat /\ Capacity(d) \in Nat /\ match.take[d] \in Nat
      BY <1>1, Numbers
    <2> QED
      BY <1>1, <2>1, <2>2
  <1> QED
    BY <1>1, <1>2

\* The donor of a parity stream is none of the data donors and has room for it.
LEMMA SpareFits ==
  ASSUME RegistryInductive, NEW s \in Slot, NEW least \in Nat, NEW take \in [Slot -> Nat],
         NEW d \in OneSlot(s, least, Donors(take))
  PROVE  d \in Slot /\ take[d] = 0 /\ hosted[d] + least <= Capacity(d)
  <1>1. /\ d \in Available(HomeJob[s], "ssd", 1) /\ d \notin Donors(take)
        /\ Capacity(d) - hosted[d] >= least
    BY DEF OneSlot
  <1>2. d \in Slot
    BY <1>1 DEF Available
  <1>3. take[d] \in Nat /\ hosted[d] \in Nat /\ Capacity(d) \in Nat
    BY <1>2, Numbers
  <1> QED
    BY <1>1, <1>2, <1>3 DEF Donors

\* A wave to the disks starts.
LEMMA DiskStartKept ==
  ASSUME RegistryInductive, NEW s \in Slot, FlushToDisk(s)
  PROVE  RegistryInductive'
  <1> DEFINE n == setting.k * Represents[s]
             share(t) == IF t = NoTake THEN 0 ELSE (ShardGb * Represents[s]) \div Total(t)
             spare(t) == IF setting.parity /\ Represents[s] > 1 /\ t # NoTake
                         THEN OneSlot(s, Max(Range(t)), Donors(t)) ELSE {}
             parity(t) == [d \in Slot |-> IF d \in spare(t) THEN Max(Range(t)) ELSE 0]
             Plain(board) ==
               \E match \in Matched(s, n, "ssd", 1) :
                 LET take == Returned(match.take, n, TRUE)
                 IN  /\ Start(s, Plus(take, parity(take)), spare(take) # {}, match.flagged)
                     /\ hosted' = Plus(Plus(board, OnBoard(match.take, n, TRUE)), parity(take))
  <1>1. /\ setting \in RegistrySettings /\ hosted \in [Slot -> Nat]
    BY DEF RegistryInductive, RegistryTypes
  <1>2. n \in Nat
    BY <1>1, WaveSize
  <1>3. setting.tier = "ssd" /\ s \notin flushing /\ UNCHANGED <<dram, dramGb>>
    BY DEF FlushToDisk, MayFlush
  <1>4. IF setting.parity /\ Represents[s] = 1
        THEN \E match \in Matched(s, n + 1, "ssd", 1) :
               LET board == Plus(hosted, OnBoard(match.take, n + 1, FALSE))
               IN  IF Returned(match.take, n + 1, FALSE) # NoTake
                   THEN Start(s, match.take, TRUE, match.flagged) /\ hosted' = board
                   ELSE Plain(board)
        ELSE Plain(hosted)
    BY DEF FlushToDisk
  <1> HIDE DEF n
  <1>5. ASSUME Plain(hosted) PROVE RegistryInductive'
    <2>1. PICK match \in Matched(s, n, "ssd", 1) :
            /\ Start(s, Plus(Returned(match.take, n, TRUE), parity(Returned(match.take, n, TRUE))),
                     spare(Returned(match.take, n, TRUE)) # {}, match.flagged)
            /\ hosted' = Plus(Plus(hosted, OnBoard(match.take, n, TRUE)),
                              parity(Returned(match.take, n, TRUE)))
      BY <1>5
    <2> DEFINE take == match.take
               more == parity(take)
               all == Plus(take, more)
               w == [take |-> all, parity |-> (spare(take) # {}), flagged |-> match.flagged,
                     gb |-> share(all)]
    <2>2. /\ take \in [Slot -> Nat] /\ match.flagged \in BOOLEAN
          /\ \A d \in Slot : take[d] = 0 \/ hosted[d] + take[d] <= Capacity(d)
      BY <1>2, DiskMatchFits
    <2>3. Returned(take, n, TRUE) = take /\ OnBoard(take, n, TRUE) = take
      BY <2>2, PartialGrant
    <2>4. ASSUME NEW d \in Slot
          PROVE  /\ more[d] \in Nat
                 /\ more[d] # 0 => take[d] = 0 /\ hosted[d] + more[d] <= Capacity(d)
      <3>1. CASE d \in spare(take)
        <4>1. take # NoTake /\ d \in OneSlot(s, Max(Range(take)), Donors(take))
          BY <3>1
        <4>2. Max(Range(take)) \in Nat
          BY <2>2, <4>1, SomeTaken
        <4>3. take[d] = 0 /\ hosted[d] + Max(Range(take)) <= Capacity(d)
          BY <2>2, <4>1, <4>2, SpareFits
        <4> QED
          BY <3>1, <4>2, <4>3
      <3>2. CASE d \notin spare(take)
        BY <3>2
      <3> QED
        BY <3>1, <3>2
    <2>5. /\ Start(s, all, spare(take) # {}, match.flagged)
          /\ hosted' = Plus(Plus(hosted, take), more)
      BY <2>1, <2>3
    <2>6. /\ waves' = [waves EXCEPT ![s] = w] /\ flushing' = flushing \cup {s}
          /\ UNCHANGED <<setting, streams, resident>>
      BY <2>5 DEF Start
    <2> HIDE DEF take, more
    <2>7. \A d \in Slot : all[d] = take[d] + more[d]
      BY DEF Plus
    <2>8. all \in [Slot -> Nat]
      <3>1. \A d \in Slot : take[d] + more[d] \in Nat
        BY <2>2, <2>4
      <3> QED
        BY <3>1 DEF Plus
    <2>9. share(all) \in Nat
      BY <1>1, <2>8, StartsWith
    <2>10. w \in WaveRecord /\ w.take = all
      BY <2>2, <2>8, <2>9 DEF WaveRecord
    <2> HIDE DEF w
    <2>11. \A d \in Slot : all[d] = 0 \/ hosted[d] + all[d] <= Capacity(d)
      <3> TAKE d \in Slot
      <3>1. hosted[d] \in Nat /\ Capacity(d) \in Nat /\ take[d] \in Nat /\ more[d] \in Nat
        BY <2>2, <2>4, Numbers
      <3> QED
        BY <2>2, <2>4, <2>7, <3>1
    <2>12. hosted' = Plus(hosted, all)
      <3>1. \A d \in Slot : (hosted[d] + take[d]) + more[d] = hosted[d] + all[d]
        BY <1>1, <2>2, <2>4, <2>7
      <3>2. hosted' = [d \in Slot |-> (hosted[d] + take[d]) + more[d]]
        BY <2>5 DEF Plus
      <3>3. Plus(hosted, all) = [d \in Slot |-> hosted[d] + all[d]]
        BY Zenon DEF Plus
      <3> HIDE DEF all
      <3> QED
        BY <3>1, <3>2, <3>3
    <2> HIDE DEF all
    <2> QED
      BY <1>3, <2>6, <2>10, <2>11, <2>12, GrantKept
  <1>6. ASSUME NEW match \in Matched(s, n + 1, "ssd", 1),
               Returned(match.take, n + 1, FALSE) # NoTake,
               Start(s, match.take, TRUE, match.flagged),
               hosted' = Plus(hosted, OnBoard(match.take, n + 1, FALSE))
        PROVE  RegistryInductive'
    <2> DEFINE take == match.take
               w == [take |-> take, parity |-> TRUE, flagged |-> match.flagged, gb |-> share(take)]
    <2>1. /\ take \in [Slot -> Nat] /\ match.flagged \in BOOLEAN
          /\ \A d \in Slot : take[d] = 0 \/ hosted[d] + take[d] <= Capacity(d)
      BY <1>2, DiskMatchFits
    <2>2. OnBoard(take, n + 1, FALSE) = take
      BY <1>6, <2>1, WholeGrant
    <2>3. /\ waves' = [waves EXCEPT ![s] = w] /\ flushing' = flushing \cup {s}
          /\ UNCHANGED <<setting, streams, resident>>
      BY <1>6 DEF Start
    <2>4. hosted' = Plus(hosted, take)
      BY <1>6, <2>2
    <2>5. share(take) \in Nat
      BY <1>1, <2>1, StartsWith
    <2>6. w \in WaveRecord /\ w.take = take
      BY <2>1, <2>5 DEF WaveRecord
    <2> HIDE DEF w, take
    <2> QED
      BY <1>3, <2>1, <2>3, <2>4, <2>6, GrantKept
  <1>7. ASSUME NEW match \in Matched(s, n + 1, "ssd", 1),
               Returned(match.take, n + 1, FALSE) = NoTake
        PROVE  Plus(hosted, OnBoard(match.take, n + 1, FALSE)) = hosted
    <2>1. match.take \in [Slot -> Nat]
      BY <1>2, DiskMatchFits
    <2>2. OnBoard(match.take, n + 1, FALSE) = NoTake
      BY <1>7, <2>1, WholeGrant
    <2>3. \A d \in Slot : hosted[d] + NoTake[d] = hosted[d]
      BY <1>1 DEF NoTake
    <2>4. Plus(hosted, NoTake) = [d \in Slot |-> hosted[d] + NoTake[d]]
      BY DEF Plus
    <2> QED
      BY <1>1, <2>2, <2>3, <2>4
  <1>8. \/ Plain(hosted)
        \/ \E match \in Matched(s, n + 1, "ssd", 1) :
             /\ Returned(match.take, n + 1, FALSE) # NoTake
             /\ Start(s, match.take, TRUE, match.flagged)
             /\ hosted' = Plus(hosted, OnBoard(match.take, n + 1, FALSE))
        \/ \E match \in Matched(s, n + 1, "ssd", 1) :
             /\ Returned(match.take, n + 1, FALSE) = NoTake
             /\ Plain(Plus(hosted, OnBoard(match.take, n + 1, FALSE)))
    <2> HIDE DEF Plain
    <2> QED
      BY <1>4, Zenon
  <1> HIDE DEF Plain
  <1> QED
    BY <1>5, <1>6, <1>7, <1>8, Zenon

-----------------------------------------------------------------------------
(***************************************************************************)
(* The board: the theorems.                                                *)
(***************************************************************************)

\* At first nothing is reserved and nothing is held.
LEMMA NothingAtFirst ==
  ASSUME RegistryInit
  PROVE  RegistryInductive
  <1>1. /\ setting \in RegistrySettings /\ flushing = {} /\ streams = {}
        /\ hosted = NoTake /\ dram = NoTake /\ dramGb = NoTake
        /\ waves = [s \in Slot |-> NoWave] /\ resident = [x \in Slot \X Slot |-> NoPiece]
    BY DEF RegistryInit
  <1>2. NoTake \in [Slot -> Nat] /\ \A d \in Slot : NoTake[d] = 0
    BY DEF NoTake
  <1>3. NoWave \in WaveRecord /\ NoWave.take = NoTake /\ NoWave.gb = 0
    BY <1>2 DEF NoWave, WaveRecord
  <1>4. NoPiece \in [pieces : Nat, gb : Nat] /\ NoPiece.pieces = 0 /\ NoPiece.gb = 0
    BY DEF NoPiece
  <1>5. RegistryTypes
    BY <1>1, <1>2, <1>3, <1>4, FS_EmptySet DEF RegistryTypes, WaveShape, HeldShape
  <1>6. WavesFlush /\ OneTier
    BY <1>1 DEF WavesFlush, OneTier
  <1>7. ASSUME NEW d \in Slot
        PROVE  InWaves(d) = 0 /\ GbInWaves(d) = 0 /\ HeldBy(d) = 0 /\ BytesBy(d) = 0 /\ InStreams(d) = 0
    <2>1. \A u \in Slot : waves[u].take[d] = 0 /\ waves[u].gb = 0
      BY <1>1, <1>2, <1>3
    <2>2. \A u \in Slot : waves[u].take[d] * waves[u].gb = 0
      BY <2>1
    <2>3. \A u \in Slot : Held(u, d) = 0 /\ Bytes(u, d) = 0
      BY <1>1, <1>4 DEF Held, Bytes
    <2>4. InWaves(d) = 0
      <3>1. [u \in Slot |-> waves[u].take[d]] \in [Slot -> Nat]
        BY <2>1
      <3> QED
        BY <2>1, <3>1, TotalZero DEF InWaves
    <2>5. GbInWaves(d) = 0
      <3> DEFINE f == [u \in Slot |-> waves[u].take[d] * waves[u].gb]
      <3>1. \A u \in Slot : f[u] = 0
        BY <2>2, Zenon
      <3>2. f \in [Slot -> Nat] /\ GbInWaves(d) = Total(f)
        <4>1. 0 \in Nat
          OBVIOUS
        <4> QED
          BY <2>2, <4>1, Zenon DEF GbInWaves
      <3> HIDE DEF f
      <3> QED
        BY <3>1, <3>2, TotalZero
    <2>6. HeldBy(d) = 0 /\ BytesBy(d) = 0
      <3> DEFINE f == [u \in Slot |-> Held(u, d)]
                 g == [u \in Slot |-> Bytes(u, d)]
      <3>1. f \in [Slot -> Nat] /\ g \in [Slot -> Nat] /\ \A u \in Slot : f[u] = 0 /\ g[u] = 0
        BY <2>3
      <3> HIDE DEF f, g
      <3> QED
        BY <3>1, TotalZero DEF HeldBy, BytesBy, f, g
    <2>7. InStreams(d) = 0
      <3> DEFINE f == [x \in {} |-> IF x.donor = d THEN x.pieces ELSE 0]
      <3>1. f \in [{} -> Nat] /\ \A x \in {} : f[x] = 0
        OBVIOUS
      <3>2. InStreams(d) = Total(f)
        BY <1>1 DEF InStreams
      <3> HIDE DEF f
      <3> QED
        BY <3>1, <3>2, TotalZero
    <2> QED
      BY <2>4, <2>5, <2>6, <2>7
  <1>8. LedgerExact
    <2>1. ASSUME NEW d \in Slot
          PROVE  Capacity(d) >= 0 /\ DramHostSlots * Represents[d] >= 0
      <3>1. Represents[d] \in Nat /\ DramHostSlots \in Nat
        BY RegistryConstants
      <3>2. Capacity(d) \in Nat /\ DramHostSlots * Represents[d] \in Nat
        BY <3>1, ProductIsNat DEF Capacity
      <3> QED
        BY <3>2
    <2> QED
      BY <1>1, <1>2, <1>7, <2>1 DEF LedgerExact
  <1> QED
    BY <1>5, <1>6, <1>8 DEF RegistryInductive

\* Every step keeps the inductive invariant.
LEMMA BoardKept ==
  ASSUME RegistryInductive, [RegistryNext]_registryVars
  PROVE  RegistryInductive'
  <1>1. ASSUME NEW s \in Slot, FlushToDisk(s) PROVE RegistryInductive'
    BY <1>1, DiskStartKept
  <1>2. ASSUME NEW s \in Slot, FlushToDram(s) PROVE RegistryInductive'
    BY <1>2, DramStartKept
  <1>3. ASSUME NEW s \in Slot, EndOnDisk(s) PROVE RegistryInductive'
    BY <1>3, EndKept
  <1>4. ASSUME NEW s \in Slot, AbortInDram(s) PROVE RegistryInductive'
    BY <1>4, AbortKept
  <1>5. ASSUME NEW s \in Slot, NEW stale \in SUBSET Donors(waves[s].take), LandInDram(s, stale)
        PROVE  RegistryInductive'
    BY <1>5, LandKept
  <1>6. ASSUME NEW s \in Slot, NEW d \in Slot, LeaveDram(s, d) PROVE RegistryInductive'
    BY <1>6, LeaveKept
  <1>7. ASSUME NEW s \in Slot, Fail(s) PROVE RegistryInductive'
    BY <1>7, FailKept
  <1>8. ASSUME NEW s \in Slot, Return(s) \/ Relocate(s) PROVE RegistryInductive'
    BY <1>8, NothingReserved DEF Return, Relocate
  <1>9. ASSUME NEW j, SetAvailable(j) PROVE RegistryInductive'
    BY <1>9, NothingReserved DEF SetAvailable
  <1>10. CASE StreamEnds
    BY <1>10, StreamKept
  <1>11. CASE UNCHANGED registryVars
    BY <1>11, NothingReserved DEF registryVars
  <1> QED
    BY <1>1, <1>2, <1>3, <1>4, <1>5, <1>6, <1>7, <1>8, <1>9, <1>10, <1>11 DEF RegistryNext

\* The board, its clients and the tier in use stay in step.
THEOREM RegistryInvariance == RegistrySpec => []RegistryInductive
  <1>1. RegistryInit => RegistryInductive
    BY NothingAtFirst
  <1>2. RegistryInductive /\ [RegistryNext]_registryVars => RegistryInductive'
    BY BoardKept
  <1> QED
    BY <1>1, <1>2, PTL DEF RegistrySpec

\* What is reserved is what the waves, the streams and the pieces in DRAM hold, and no donor is
\* reserved beyond its room, however waves are refused, aborted or superseded and donors fail
\* (release accounting, crossjob.py).
THEOREM LedgerCorrect == RegistrySpec => []LedgerExact
  <1>1. RegistryInductive => LedgerExact
    BY DEF RegistryInductive
  <1> QED
    BY <1>1, RegistryInvariance, PTL

-----------------------------------------------------------------------------
(***************************************************************************)
(* The board: the donors that the wave of a node takes.                    *)
(***************************************************************************)

\* The load of a donor and its place in the order of registration.
Weight(s, tr) == Load(<<s, 1>>, tr)
Position(s) == CHOOSE i \in 1 .. Len(Registered) : Registered[i] = s

\* Every slot has one place.
LEMMA PositionOf ==
  /\ \A s \in Slot : Position(s) \in Nat
  /\ \A s, u \in Slot : Position(s) = Position(u) => s = u
  /\ \A s, u \in Slot : Earlier(s, u) <=> Position(s) < Position(u)
  <1>1. /\ DOMAIN Registered = 1 .. Len(Registered) /\ Len(Registered) \in Nat
        /\ \A i, j \in 1 .. Len(Registered) : Registered[i] = Registered[j] => i = j
    BY RegistryAssumption DEF RegistryAssumption, IsInjective
  <1>2. \A s \in Slot : \E i \in 1 .. Len(Registered) : Registered[i] = s
    BY <1>1 DEF Slot, Range
  <1>3. \A s \in Slot : Position(s) \in 1 .. Len(Registered) /\ Registered[Position(s)] = s
    BY <1>2 DEF Position
  <1>4. ASSUME NEW s \in Slot, NEW u \in Slot PROVE Earlier(s, u) <=> Position(s) < Position(u)
    <2>1. \A i \in DOMAIN Registered : /\ Registered[i] = s => i = Position(s)
                                       /\ Registered[i] = u => i = Position(u)
      BY <1>1, <1>3
    <2> QED
      BY <1>1, <1>3, <2>1 DEF Earlier
  <1> QED
    BY <1>1, <1>3, <1>4

\* One node compares loads, and then places.
LEMMA LighterIs ==
  ASSUME RegistryInductive, NEW tr
  PROVE  /\ \A s \in Slot : Weight(s, tr) \in Nat
         /\ \A s, u \in Slot :
              LoadDifference(<<s, 1>>, <<u, 1>>, tr, FALSE) = Weight(s, tr) - Weight(u, tr)
         /\ \A s, u \in Slot :
              Lighter(s, u, tr, FALSE) <=> \/ Weight(s, tr) < Weight(u, tr)
                                           \/ /\ Weight(s, tr) = Weight(u, tr)
                                              /\ Position(s) < Position(u)
  <1>1. ASSUME NEW s \in Slot PROVE Weight(s, tr) \in Nat
    <2>1. hosted[s] \in Nat /\ dram[s] \in Nat
      BY DEF RegistryInductive, RegistryTypes
    <2>2. <<s, 1>>[1] = s /\ <<s, 1>>[2] = 1
      OBVIOUS
    <2> QED
      BY <2>1, <2>2 DEF Weight, Load
  <1>2. \A s, u \in Slot :
          LoadDifference(<<s, 1>>, <<u, 1>>, tr, FALSE) = Weight(s, tr) - Weight(u, tr)
    BY DEF LoadDifference, Weight
  <1>3. \A s, u \in Slot :
          Lighter(s, u, tr, FALSE) <=> \/ Weight(s, tr) - Weight(u, tr) < 0
                                       \/ /\ Weight(s, tr) - Weight(u, tr) = 0
                                          /\ Position(s) < Position(u)
    BY <1>2, PositionOf DEF Lighter
  <1>4. ASSUME NEW s \in Slot, NEW u \in Slot
        PROVE  /\ Weight(s, tr) - Weight(u, tr) < 0 <=> Weight(s, tr) < Weight(u, tr)
               /\ Weight(s, tr) - Weight(u, tr) = 0 <=> Weight(s, tr) = Weight(u, tr)
    BY <1>1
  <1> QED
    BY <1>1, <1>2, <1>3, <1>4

\* So the donors are in a linear order.
LEMMA LighterOrder ==
  ASSUME RegistryInductive, NEW tr
  PROVE  /\ \A s \in Slot : ~Lighter(s, s, tr, FALSE)
         /\ \A s, u \in Slot : s # u => Lighter(s, u, tr, FALSE) \/ Lighter(u, s, tr, FALSE)
         /\ \A s, u, v \in Slot : Lighter(s, u, tr, FALSE) /\ Lighter(u, v, tr, FALSE)
                                    => Lighter(s, v, tr, FALSE)
  <1> DEFINE less(s, u) == \/ Weight(s, tr) < Weight(u, tr)
                           \/ Weight(s, tr) = Weight(u, tr) /\ Position(s) < Position(u)
  <1>0. \A s, u \in Slot : Lighter(s, u, tr, FALSE) <=> less(s, u)
    BY LighterIs
  <1>1. \A s \in Slot : Weight(s, tr) \in Nat /\ Position(s) \in Nat
    BY LighterIs, PositionOf
  <1>2. ASSUME NEW s \in Slot, NEW u \in Slot, s # u
        PROVE  Lighter(s, u, tr, FALSE) \/ Lighter(u, s, tr, FALSE)
    <2>1. Position(s) # Position(u)
      BY <1>2, PositionOf
    <2>2. Weight(s, tr) \in Nat /\ Weight(u, tr) \in Nat /\ Position(s) \in Nat /\ Position(u) \in Nat
      BY <1>1
    <2>3. less(s, u) \/ less(u, s)
      BY <2>1, <2>2
    <2> QED
      BY <1>0, <2>3
  <1>3. ASSUME NEW s \in Slot PROVE ~Lighter(s, s, tr, FALSE)
    <2>1. Weight(s, tr) \in Nat /\ Position(s) \in Nat
      BY <1>1
    <2>2. ~less(s, s)
      BY <2>1
    <2> QED
      BY <1>0, <2>2
  <1>4. ASSUME NEW s \in Slot, NEW u \in Slot, NEW v \in Slot,
               Lighter(s, u, tr, FALSE), Lighter(u, v, tr, FALSE)
        PROVE  Lighter(s, v, tr, FALSE)
    <2>1. /\ Weight(s, tr) \in Nat /\ Weight(u, tr) \in Nat /\ Weight(v, tr) \in Nat
          /\ Position(s) \in Nat /\ Position(u) \in Nat /\ Position(v) \in Nat
      BY <1>1
    <2>2. less(s, u) /\ less(u, v)
      BY <1>0, <1>4
    <2>3. less(s, v)
      BY <2>1, <2>2
    <2> QED
      BY <1>0, <2>3
  <1> QED
    BY <1>2, <1>3, <1>4

\* Some donors have a lightest among them.
LEMMA LightestOf ==
  ASSUME RegistryInductive, NEW tr, NEW S \in SUBSET Slot, S # {}
  PROVE  \E m \in S : \A u \in S : ~Lighter(u, m, tr, FALSE)
  <1>1. \A s \in Slot : Weight(s, tr) \in Nat /\ Position(s) \in Nat
    BY LighterIs, PositionOf
  <1> DEFINE W == {Weight(s, tr) : s \in S}
             L == {s \in S : Weight(s, tr) = Min(W)}
             P == {Position(s) : s \in L}
  <1>2. Min(W) \in W /\ \A y \in W : Min(W) <= y
    <2>1. W \subseteq Nat /\ W # {}
      BY <1>1
    <2> HIDE DEF W
    <2> QED
      BY <2>1, MinOfNat
  <1>3. Min(P) \in P /\ \A y \in P : Min(P) <= y
    <2>1. L # {}
      BY <1>2
    <2>2. P \subseteq Nat /\ P # {}
      BY <1>1, <2>1
    <2> HIDE DEF P
    <2> QED
      BY <2>2, MinOfNat
  <1>4. PICK m \in L : Position(m) = Min(P)
    BY <1>3
  <1>5. ASSUME NEW u \in S PROVE ~Lighter(u, m, tr, FALSE)
    <2>1. Weight(m, tr) <= Weight(u, tr)
      BY <1>2
    <2>2. Weight(u, tr) = Weight(m, tr) => Position(m) <= Position(u)
      BY <1>3, <1>4
    <2>3. \/ ~(Weight(u, tr) < Weight(m, tr)) /\ Weight(u, tr) # Weight(m, tr)
          \/ /\ ~(Weight(u, tr) < Weight(m, tr)) /\ Weight(u, tr) = Weight(m, tr)
             /\ ~(Position(u) < Position(m))
      <3>1. /\ Weight(m, tr) \in Nat /\ Weight(u, tr) \in Nat
            /\ Position(m) \in Nat /\ Position(u) \in Nat
        BY <1>1
      <3> HIDE DEF L
      <3> QED
        BY <2>1, <2>2, <3>1
    <2> QED
      BY <2>3, LighterIs
  <1> QED
    BY <1>5

\* One piece of each donor.
One(T) == {<<s, 1>> : s \in T}

\* As many pieces as donors.
LEMMA OneEach ==
  ASSUME NEW T, IsFiniteSet(T)
  PROVE  IsFiniteSet(One(T)) /\ Cardinality(One(T)) = Cardinality(T)
  <1> DEFINE f == [s \in T |-> <<s, 1>>]
  <1>1. f \in [T -> One(T)]
    BY DEF One
  <1>2. \A s, u \in T : f[s] = f[u] => s = u
    OBVIOUS
  <1>3. \A y \in One(T) : \E s \in T : f[s] = y
    BY DEF One
  <1> HIDE DEF f
  <1>4. f \in Bijection(T, One(T))
    BY <1>1, <1>2, <1>3 DEF Bijection, Injection, Surjection, IsInjective
  <1>5. ExistsBijection(T, One(T))
    BY <1>4 DEF ExistsBijection
  <1> QED
    BY <1>5, FS_Bijection

\* What donors offer to a node.
LEMMA NodeOffers ==
  ASSUME NEW E, NEW tr, NEW gb
  PROVE  Offers(E, tr, gb, FALSE) = One(E)
  <1>1. Offers(E, tr, gb, FALSE) = UNION {{s} \X (1 .. 1) : s \in E}
    BY DEF Offers, Limit
  <1>2. \A s : {s} \X (1 .. 1) = {<<s, 1>>}
    OBVIOUS
  <1>3. Offers(E, tr, gb, FALSE) = UNION {{<<s, 1>>} : s \in E}
    BY <1>1, <1>2
  <1> QED
    BY <1>3 DEF One

\* A node takes one piece of each donor with fewer than n pieces ahead.
LEMMA TakenOnce ==
  ASSUME NEW E \in SUBSET Slot, NEW n, NEW ahead, NEW T,
         T = {d \in E : Cardinality(ahead[<<d, 1>>]) < n}
  PROVE  /\ Donors(Taken(One(E), n, ahead)) = T
         /\ Total(Taken(One(E), n, ahead)) = Cardinality(T)
  <1> DEFINE take == Taken(One(E), n, ahead)
             taken == {p \in One(E) : Cardinality(ahead[p]) < n}
             of(s) == {p \in taken : p[1] = s}
  <1>1. take = [s \in Slot |-> Cardinality(of(s))]
    BY DEF Taken
  <1>2. taken = One(T)
    BY DEF One
  <1> HIDE DEF taken
  <1>3. ASSUME NEW s \in T PROVE Cardinality(of(s)) = 1
    <2>1. ASSUME NEW p \in taken, p[1] = s PROVE p = <<s, 1>>
      <3>1. PICK x \in T : p = <<x, 1>>
        BY <1>2 DEF One
      <3> QED
        BY <2>1, <3>1
    <2>2. <<s, 1>> \in taken /\ <<s, 1>>[1] = s
      BY <1>2 DEF One
    <2>3. of(s) = {<<s, 1>>}
      BY <2>1, <2>2
    <2> QED
      BY <2>3, FS_Singleton
  <1>4. ASSUME NEW s \in Slot \ T PROVE Cardinality(of(s)) = 0
    <2>1. ASSUME NEW p \in taken PROVE p[1] # s
      <3>1. PICK x \in T : p = <<x, 1>>
        BY <1>2 DEF One
      <3> QED
        BY <3>1
    <2>2. of(s) = {}
      BY <2>1
    <2> QED
      BY <2>2, FS_EmptySet
  <1> HIDE DEF of, take
  <1>5. T \in SUBSET Slot
    OBVIOUS
  <1>a. \A s \in Slot : Cardinality(of(s)) = IF s \in T THEN 1 ELSE 0
    BY <1>3, <1>4
  <1>6. take \in [Slot -> Nat] /\ \A s \in Slot : take[s] = IF s \in T THEN 1 ELSE 0
    <2>1. \A s \in Slot : take[s] = Cardinality(of(s))
      BY <1>1
    <2>2. \A s \in Slot : take[s] = IF s \in T THEN 1 ELSE 0
      BY <1>a, <2>1
    <2>3. \A s \in Slot : take[s] \in Nat
      <3> TAKE s \in Slot
      <3>1. take[s] = 0 \/ take[s] = 1
        BY <2>2
      <3> QED
        BY <3>1
    <2>4. take = [s \in Slot |-> take[s]]
      BY <1>1
    <2> QED
      BY <2>2, <2>3, <2>4
  <1>7. Donors(take) = T
    BY <1>5, <1>6 DEF Donors
  <1>8. Total(take) = Cardinality(T)
    <2>1. IsFiniteSet(T)
      BY <1>5, RegistryConstants, FS_Subset
    <2>2. \A y : y \in Units(take) <=> y \in One(T)
      <3> TAKE y
      <3>1. ASSUME y \in Units(take) PROVE y \in One(T)
        <4>1. PICK x \in Slot : y \in {x} \X (1 .. take[x])
          BY <1>6, <3>1 DEF Units
        <4>2. x \in T /\ take[x] = 1
          BY <1>6, <4>1
        <4>3. y = <<x, 1>>
          BY <4>1, <4>2
        <4> QED
          BY <4>2, <4>3 DEF One
      <3>2. ASSUME y \in One(T) PROVE y \in Units(take)
        <4>1. PICK x \in T : y = <<x, 1>>
          BY <3>2 DEF One
        <4>2. y \in {x} \X (1 .. take[x]) /\ x \in DOMAIN take
          BY <1>5, <1>6, <4>1
        <4> QED
          BY <4>2 DEF Units
      <3> QED
        BY <3>1, <3>2
    <2>3. Units(take) = One(T)
      BY <2>2
    <2> QED
      BY <2>1, <2>3, OneEach DEF Total, Units
  <1> QED
    BY <1>7, <1>8 DEF take

\* Donor by donor, the pieces ahead are those of the donors before.
LEMMA DonorsBefore ==
  ASSUME NEW E \in SUBSET Slot, NEW before, NEW d \in E
  PROVE  Cardinality(DonorByDonor(One(E), before)[<<d, 1>>]) = Cardinality(E \cap before[d])
  <1> DEFINE p == <<d, 1>>
             Q == {q \in One(E) : q[1] \in before[d] \/ (q[1] = d /\ q[2] < 1)}
  <1>1. DonorByDonor(One(E), before)[p] = Q
    <2>1. p \in One(E) /\ p[1] = d /\ p[2] = 1
      BY DEF One
    <2> HIDE DEF p
    <2> QED
      BY <2>1 DEF DonorByDonor
  <1>2. Q = One(E \cap before[d])
    BY DEF One
  <1>3. IsFiniteSet(E \cap before[d])
    BY RegistryConstants, FS_Subset
  <1> QED
    BY <1>1, <1>2, <1>3, OneEach

\* A are the donors of S that _reserve_rack_aa chooses when it goes through them in order.
InOwnRacks(flusher, S, A, tr) ==
  \A s \in S : s \in A <=> /\ racks[s] \cap racks[flusher] = {}
                           /\ \A u \in A : Lighter(u, s, tr, FALSE) => racks[u] \cap racks[s] = {}

\* The loop chooses donors, whatever the eligible ones are.
LEMMA RackDisjointIs ==
  ASSUME RegistryInductive, NEW flusher \in Slot, NEW E \in SUBSET Slot, NEW tr
  PROVE  /\ RackDisjoint(flusher, E, tr, FALSE) \in SUBSET E
         /\ InOwnRacks(flusher, E, RackDisjoint(flusher, E, tr, FALSE), tr)
  <1> DEFINE closed(S) == \A s \in S, u \in E : Lighter(u, s, tr, FALSE) => u \in S
             looped(S) == closed(S) /\ \E B \in SUBSET S : InOwnRacks(flusher, S, B, tr)
             C == {Cardinality(S) : S \in {U \in SUBSET E : looped(U)}}
  <1>1. IsFiniteSet(E) /\ Cardinality(E) \in Nat
    BY RegistryConstants, FS_Subset, FS_CardinalityType
  <1>2. \A S \in SUBSET E : IsFiniteSet(S) /\ Cardinality(S) \in Nat /\ Cardinality(S) <= Cardinality(E)
    BY <1>1, FS_Subset, FS_CardinalityType
  <1>3. PICK S \in SUBSET E : looped(S) /\ \A U \in SUBSET E : looped(U) => Cardinality(U) <= Cardinality(S)
    <2>1. looped({})
      BY DEF InOwnRacks
    <2> HIDE DEF looped
    <2>2. C \subseteq Int /\ C # {} /\ \A y \in C : y <= Cardinality(E)
      BY <1>2, <2>1
    <2> HIDE DEF C
    <2>a. Cardinality(E) \in Int
      BY <1>1
    <2>3. Max(C) \in C /\ \A y \in C : Max(C) >= y
      BY <2>a, <2>2, MaxOfBounded, Zenon
    <2>4. PICK S \in SUBSET E : looped(S) /\ Max(C) = Cardinality(S)
      BY <2>3 DEF C
    <2>5. ASSUME NEW U \in SUBSET E, looped(U) PROVE Cardinality(U) <= Cardinality(S)
      <3>1. Cardinality(U) \in C
        BY <2>5 DEF C
      <3>2. Cardinality(S) >= Cardinality(U) /\ Cardinality(U) \in Nat /\ Cardinality(S) \in Nat
        BY <1>2, <2>3, <2>4, <3>1
      <3> QED
        BY <3>2
    <2> QED
      BY <2>4, <2>5
  <1>4. S = E
    <2> SUFFICES ASSUME S # E PROVE FALSE
      OBVIOUS
    <2>1. PICK m \in E \ S : \A u \in E \ S : ~Lighter(u, m, tr, FALSE)
      BY LightestOf
    <2>2. PICK B \in SUBSET S : InOwnRacks(flusher, S, B, tr)
      BY <1>3
    <2> DEFINE U == S \cup {m}
               chosen == /\ racks[m] \cap racks[flusher] = {}
                         /\ \A u \in B : Lighter(u, m, tr, FALSE) => racks[u] \cap racks[m] = {}
               D == B \cup {x \in {m} : chosen}
    <2>3. U \in SUBSET E /\ D \in SUBSET U
      OBVIOUS
    <2>4. closed(U)
      BY <1>3, <2>1
    <2>5. ~Lighter(m, m, tr, FALSE) /\ \A s \in S : ~Lighter(m, s, tr, FALSE)
      BY <1>3, LighterOrder
    <2>6. ASSUME NEW s \in U
          PROVE  s \in D <=> /\ racks[s] \cap racks[flusher] = {}
                             /\ \A u \in D : Lighter(u, s, tr, FALSE) => racks[u] \cap racks[s] = {}
      <3>0. ~Lighter(m, s, tr, FALSE)
        BY <2>5
      <3>1. \A u \in D : Lighter(u, s, tr, FALSE) => u \in B
        BY <3>0
      <3>2. CASE s = m
        <4>1. s \in D <=> chosen
          BY <3>2
        <4> QED
          BY <3>1, <3>2, <4>1
      <3>3. CASE s \in S
        <4>1. s \in D <=> s \in B
          BY <3>3
        <4>2. s \in B <=> /\ racks[s] \cap racks[flusher] = {}
                          /\ \A u \in B : Lighter(u, s, tr, FALSE) => racks[u] \cap racks[s] = {}
          BY <2>2, <3>3 DEF InOwnRacks
        <4> QED
          BY <3>1, <4>1, <4>2
      <3> QED
        BY <3>2, <3>3
    <2>7. looped(U)
      BY <2>3, <2>4, <2>6 DEF InOwnRacks
    <2>8. Cardinality(U) <= Cardinality(S)
      BY <1>3, <2>3, <2>7
    <2>9. Cardinality(U) = Cardinality(S) + 1
      BY <1>2, <2>1, FS_AddElement
    <2> QED
      BY <1>2, <2>8, <2>9
  <1>5. \E B \in SUBSET E : InOwnRacks(flusher, E, B, tr)
    BY <1>3, <1>4
  <1>6. RackDisjoint(flusher, E, tr, FALSE) = CHOOSE B \in SUBSET E : InOwnRacks(flusher, E, B, tr)
    BY DEF RackDisjoint, InOwnRacks
  <1> QED
    BY <1>5, <1>6

\* With what RackDisjointFirst has first: the donors that are chosen, then the others of
\* foreign racks.
LEMMA RackOrder ==
  ASSUME RegistryInductive, NEW flusher \in Slot, NEW E \in SUBSET Slot, NEW tr
  PROVE  LET A == RackDisjoint(flusher, E, tr, FALSE)
             before == RackDisjointFirst(flusher, E, tr, FALSE)
         IN  /\ \A d \in E : before[d] \subseteq E
             /\ \A d \in A : before[d] \subseteq A /\ d \notin before[d]
             /\ \A d \in E \ A : A \subseteq before[d]
             /\ A # E => \E d \in E \ A : before[d] = A
  <1> DEFINE A == RackDisjoint(flusher, E, tr, FALSE)
             before == RackDisjointFirst(flusher, E, tr, FALSE)
             class(s) == IF s \in A THEN 0
                         ELSE IF racks[s] \cap racks[flusher] = {} THEN 1 ELSE 2
             away(s) == racks[s] \cap racks[flusher] = {}
             sooner(u, d) == Lighter(u, d, tr, FALSE)
  <1>1. A \in SUBSET E
    BY RackDisjointIs
  <1>2. \A d \in E :
          before[d] = {u \in E : class(u) < class(d) \/ (class(u) = class(d) /\ sooner(u, d))}
    BY DEF RackDisjointFirst
  <1> HIDE DEF A, before
  <1>3. ASSUME NEW u \in E, NEW d \in E
        PROVE  u \in before[d] <=>
                 \/ d \in A /\ u \in A /\ sooner(u, d)
                 \/ d \notin A /\ u \in A
                 \/ d \notin A /\ u \notin A /\ away(u) /\ ~away(d)
                 \/ d \notin A /\ u \notin A /\ (away(u) <=> away(d)) /\ sooner(u, d)
    <2> DEFINE X == {s \in E : away(s)}
    <2>1. PICK i, j : i = class(u) /\ j = class(d)
      OBVIOUS
    <2>2. u \in before[d] <=> i < j \/ (i = j /\ sooner(u, d))
      BY <1>2, <2>1
    <2>3. /\ i = IF u \in A THEN 0 ELSE IF u \in X THEN 1 ELSE 2
          /\ j = IF d \in A THEN 0 ELSE IF d \in X THEN 1 ELSE 2
      BY <2>1
    <2>a. /\ u \in A => i = 0
          /\ u \notin A /\ u \in X => i = 1
          /\ u \notin A /\ u \notin X => i = 2
          /\ d \in A => j = 0
          /\ d \notin A /\ d \in X => j = 1
          /\ d \notin A /\ d \notin X => j = 2
      BY <2>3, Zenon
    <2>4. (u \in X <=> away(u)) /\ (d \in X <=> away(d))
      OBVIOUS
    <2> HIDE DEF X
    <2>5. /\ i < j <=> d \notin A /\ (u \in A \/ (u \in X /\ d \notin X))
          /\ i = j <=> (u \in A <=> d \in A) /\ (u \notin A => (u \in X <=> d \in X))
      BY <2>a
    <2> QED
      BY <2>2, <2>4, <2>5, Zenon
  <1>a. \A d \in E : before[d] \subseteq E
    BY <1>2
  <1> HIDE DEF class, away
  <1>4. ASSUME NEW d \in A PROVE before[d] \subseteq A /\ d \notin before[d]
    <2>1. d \in E /\ \A u \in E \ A : u \notin before[d]
      BY <1>1, <1>3
    <2>2. ~sooner(d, d)
      BY <1>1, LighterOrder
    <2>3. d \notin before[d]
      BY <1>3, <2>1, <2>2
    <2> QED
      BY <1>a, <2>1, <2>3
  <1>5. ASSUME NEW d \in E \ A PROVE A \subseteq before[d]
    BY <1>1, <1>3
  <1>6. ASSUME A # E PROVE \E d \in E \ A : before[d] = A
    <2> DEFINE one == {u \in E \ A : away(u)}
               S == IF one = {} THEN E \ A ELSE one
    <2>1. S \in SUBSET Slot /\ S # {} /\ S \subseteq E \ A
      BY <1>1, <1>6
    <2>2. /\ one # {} => \A d \in S : away(d) /\ \A u \in E \ A : away(u) => u \in S
          /\ one = {} => S = E \ A /\ \A u \in E \ A : ~away(u)
      OBVIOUS
    <2> HIDE DEF S
    <2>3. PICK d \in S : \A u \in S : ~sooner(u, d)
      BY <2>1, LightestOf
    <2>4. ASSUME NEW u \in E \ A PROVE u \notin before[d]
      <3>1. d \in E /\ d \notin A /\ ~(away(u) /\ ~away(d))
        BY <2>1, <2>2
      <3>2. (away(u) <=> away(d)) => u \in S
        BY <2>1, <2>2
      <3>3. (away(u) <=> away(d)) => ~sooner(u, d)
        BY <2>3, <3>2
      <3> QED
        BY <1>3, <3>1, <3>3
    <2>5. before[d] \subseteq E /\ A \subseteq before[d]
      BY <1>5, <1>a, <2>1
    <2>6. before[d] = A
      BY <2>4, <2>5
    <2> QED
      BY <2>1, <2>6
  <1> QED
    BY <1>a, <1>4, <1>5, <1>6, Zenon DEF A, before

\* The donors D share no rack with each other or with the owner's.
RackApart(flusher, D) ==
  /\ \A d \in D : racks[d] \cap racks[flusher] = {}
  /\ \A d, e \in D : d # e => racks[d] \cap racks[e] = {}

\* Those that are chosen share none.
LEMMA ChosenApart ==
  ASSUME RegistryInductive, NEW flusher \in Slot, NEW E \in SUBSET Slot, NEW tr
  PROVE  RackApart(flusher, RackDisjoint(flusher, E, tr, FALSE))
  <1> DEFINE A == RackDisjoint(flusher, E, tr, FALSE)
  <1>1. A \in SUBSET E /\ InOwnRacks(flusher, E, A, tr)
    BY RackDisjointIs
  <1> HIDE DEF A
  <1>2. \A d \in A : /\ d \in Slot /\ racks[d] \cap racks[flusher] = {}
                     /\ \A u \in A : Lighter(u, d, tr, FALSE) => racks[u] \cap racks[d] = {}
    BY <1>1 DEF InOwnRacks
  <1>3. ASSUME NEW d \in A, NEW e \in A, d # e PROVE racks[d] \cap racks[e] = {}
    <2>1. Lighter(d, e, tr, FALSE) \/ Lighter(e, d, tr, FALSE)
      BY <1>2, <1>3, LighterOrder
    <2> QED
      BY <1>2, <2>1
  <1> QED
    BY <1>2, <1>3 DEF RackApart, A

\* And when a donor is in one rack at most, no more of them would.
LEMMA MostApart ==
  ASSUME RegistryInductive, NEW flusher \in Slot, NEW E \in SUBSET Slot, NEW tr,
         \A d \in Slot : IsFiniteSet(racks[d]) /\ Cardinality(racks[d]) <= 1,
         NEW D \in SUBSET E, RackApart(flusher, D)
  PROVE  Cardinality(D) <= Cardinality(RackDisjoint(flusher, E, tr, FALSE))
  <1> DEFINE A == RackDisjoint(flusher, E, tr, FALSE)
             near(d, u) == u \in A /\ (IF d \in A THEN u = d ELSE racks[u] \cap racks[d] # {})
             f == [d \in D |-> CHOOSE u : near(d, u)]
  <1>1. A \in SUBSET E /\ InOwnRacks(flusher, E, A, tr)
    BY RackDisjointIs
  <1>2. IsFiniteSet(A)
    BY <1>1, RegistryConstants, FS_Subset
  <1> HIDE DEF A
  <1>3. ASSUME NEW d \in D PROVE \E u : near(d, u)
    <2>1. d \in E /\ racks[d] \cap racks[flusher] = {}
      BY DEF RackApart
    <2>2. CASE d \in A
      BY <2>2
    <2>3. CASE d \notin A
      BY <1>1, <2>1, <2>3 DEF InOwnRacks
    <2> QED
      BY <2>2, <2>3
  <1>4. \A d \in D : near(d, f[d])
    <2> HIDE DEF near
    <2> QED
      BY <1>3
  <1>5. \A d \in D : f[d] \in A
    BY <1>4
  <1>8. DOMAIN f = D /\ f = [d \in DOMAIN f |-> f[d]]
    <2> HIDE DEF near
    <2> QED
      OBVIOUS
  <1> HIDE DEF f
  <1>6. ASSUME NEW x \in Slot, NEW r \in racks[x], NEW q \in racks[x] PROVE r = q
    <2>1. IsFiniteSet(racks[x]) /\ Cardinality(racks[x]) \in Nat /\ Cardinality(racks[x]) <= 1
      BY FS_CardinalityType
    <2>2. Cardinality(racks[x] \ {r}) = Cardinality(racks[x]) - 1 /\ IsFiniteSet(racks[x] \ {r})
      BY <2>1, FS_RemoveElement
    <2>3. Cardinality(racks[x] \ {r}) \in Nat
      BY <2>2, FS_CardinalityType
    <2>4. Cardinality(racks[x] \ {r}) = 0
      BY <2>1, <2>2, <2>3
    <2>5. racks[x] \ {r} = {}
      BY <2>2, <2>4, FS_EmptySet
    <2> QED
      BY <2>5
  <1>7. ASSUME NEW d \in D, NEW e \in D, f[d] = f[e] PROVE d = e
    <2> DEFINE u == f[d]
    <2>1. u \in A /\ u \in Slot /\ near(d, u) /\ near(e, u)
      BY <1>1, <1>4, <1>7
    <2> HIDE DEF u
    <2>2. CASE d \in A /\ e \in A
      BY <2>1, <2>2
    <2>3. CASE d \in A /\ e \notin A
      <3>1. racks[d] \cap racks[e] # {}
        BY <2>1, <2>3
      <3> QED
        BY <3>1 DEF RackApart
    <2>4. CASE d \notin A /\ e \in A
      <3>1. racks[e] \cap racks[d] # {}
        BY <2>1, <2>4
      <3> QED
        BY <3>1 DEF RackApart
    <2>5. CASE d \notin A /\ e \notin A
      <3>1. PICK r \in racks[u] : r \in racks[d]
        BY <2>1, <2>5
      <3>2. PICK q \in racks[u] : q \in racks[e]
        BY <2>1, <2>5
      <3>3. r = q
        BY <1>6, <2>1
      <3>4. racks[d] \cap racks[e] # {}
        BY <3>1, <3>2, <3>3
      <3> QED
        BY <3>4 DEF RackApart
    <2> QED
      BY <2>2, <2>3, <2>4, <2>5
  <1>9. f \in Injection(D, A)
    BY <1>5, <1>7, <1>8 DEF Injection, IsInjective
  <1>10. Cardinality(D) <= Cardinality(A)
    BY <1>2, <1>9, FS_Injection
  <1> QED
    BY <1>10 DEF A

\* The donors that a node takes in that order: only chosen ones, until they run out.
LEMMA RackTaken ==
  ASSUME RegistryInductive, NEW flusher \in Slot, NEW E \in SUBSET Slot, NEW tr, NEW n \in Nat
  PROVE  LET A == RackDisjoint(flusher, E, tr, FALSE)
             before == RackDisjointFirst(flusher, E, tr, FALSE)
         IN  /\ ~(A # E /\ Cardinality(A) < n) => \A d \in E : Cardinality(before[d]) < n => d \in A
             /\ A # E /\ Cardinality(A) < n
                  => \E d \in E \ A : \A u \in A \cup {d} : Cardinality(before[u]) < n
  <1> DEFINE A == RackDisjoint(flusher, E, tr, FALSE)
             before == RackDisjointFirst(flusher, E, tr, FALSE)
  <1>1. A \in SUBSET E
    BY RackDisjointIs
  <1>2. /\ \A d \in E : before[d] \subseteq E
        /\ \A d \in A : before[d] \subseteq A /\ d \notin before[d]
        /\ \A d \in E \ A : A \subseteq before[d]
        /\ A # E => \E d \in E \ A : before[d] = A
    BY RackOrder
  <1> HIDE DEF A, before
  <1>3. \A S \in SUBSET E : IsFiniteSet(S) /\ Cardinality(S) \in Nat
    BY RegistryConstants, FS_Subset, FS_CardinalityType
  <1>4. ASSUME ~(A # E /\ Cardinality(A) < n), NEW d \in E, Cardinality(before[d]) < n
        PROVE  d \in A
    <2> SUFFICES ASSUME d \notin A PROVE FALSE
      OBVIOUS
    <2>1. d \in E \ A /\ Cardinality(before[d]) < n
      BY <1>4
    <2>2. A \subseteq before[d] /\ before[d] \in SUBSET E
      BY <1>2, <2>1
    <2>3. Cardinality(A) <= Cardinality(before[d])
      BY <1>3, <2>2, FS_Subset
    <2>4. Cardinality(A) \in Nat /\ Cardinality(before[d]) \in Nat
      BY <1>1, <1>3, <2>2
    <2>5. ~(Cardinality(A) < n)
      BY <1>4, <2>1
    <2> QED
      BY <2>1, <2>3, <2>4, <2>5
  <1>5. ASSUME A # E, Cardinality(A) < n
        PROVE  \E d \in E \ A : \A u \in A \cup {d} : Cardinality(before[u]) < n
    <2>1. PICK d \in E \ A : before[d] = A
      BY <1>2, <1>5
    <2>2. ASSUME NEW u \in A PROVE Cardinality(before[u]) < n
      <3>1. before[u] \subseteq A
        BY <1>2
      <3>2. Cardinality(before[u]) <= Cardinality(A) /\ Cardinality(before[u]) \in Nat
        BY <1>1, <1>3, <3>1, FS_Subset
      <3>3. Cardinality(A) \in Nat
        BY <1>1, <1>3
      <3> QED
        BY <1>5, <3>2, <3>3
    <2> QED
      BY <1>5, <2>1, <2>2
  <1> QED
    BY <1>4, <1>5 DEF A, before

\* The jobs of some donors.
HomesOf(D) == {HomeJob[d] : d \in D}

\* They are no more than the donors, and as many when each is of its own job.
LEMMA HomesCounted ==
  ASSUME NEW T \in SUBSET Slot
  PROVE  /\ IsFiniteSet(HomesOf(T)) /\ Cardinality(HomesOf(T)) \in Nat
         /\ Cardinality(HomesOf(T)) <= Cardinality(T)
         /\ (\A d, e \in T : HomeJob[d] = HomeJob[e] => d = e)
              => Cardinality(HomesOf(T)) = Cardinality(T)
  <1> DEFINE h == [d \in T |-> HomeJob[d]]
  <1>1. IsFiniteSet(T)
    BY RegistryConstants, FS_Subset
  <1>2. h \in Surjection(T, HomesOf(T))
    BY DEF Surjection, HomesOf
  <1>3. (\A d, e \in T : HomeJob[d] = HomeJob[e] => d = e) => h \in Injection(T, HomesOf(T))
    BY <1>2 DEF Surjection, Injection, IsInjective
  <1> HIDE DEF h
  <1> QED
    BY <1>1, <1>2, <1>3, FS_Surjection, FS_CardinalityType

\* The first round has one donor of each job that has any, and comes before the others.
LEMMA FirstRound ==
  ASSUME RegistryInductive, NEW E \in SUBSET Slot, NEW tr, NEW n \in Nat
  PROVE  LET ahead == JobByJob(E, One(E), tr, FALSE)
             T == {d \in E : Cardinality(ahead[<<d, 1>>]) < n}
         IN  \E R \in SUBSET E :
               /\ \A d, e \in R : HomeJob[d] = HomeJob[e] => d = e
               /\ \A d \in E : \E e \in R : HomeJob[d] = HomeJob[e]
               /\ T \subseteq R \/ R \subseteq T
  <1> DEFINE ahead == JobByJob(E, One(E), tr, FALSE)
             T == {d \in E : Cardinality(ahead[<<d, 1>>]) < n}
             R == {d \in E : \A u \in E : HomeJob[u] = HomeJob[d] => ~Lighter(u, d, tr, FALSE)}
  <1>1. \A d, e \in R : HomeJob[d] = HomeJob[e] => d = e
    BY LighterOrder
  <1>2. ASSUME NEW d \in E PROVE \E e \in R : HomeJob[d] = HomeJob[e]
    <2> DEFINE S == {u \in E : HomeJob[u] = HomeJob[d]}
    <2>1. S \in SUBSET Slot /\ S # {}
      OBVIOUS
    <2> HIDE DEF S
    <2>2. PICK m \in S : \A u \in S : ~Lighter(u, m, tr, FALSE)
      BY <2>1, LightestOf
    <2> QED
      BY <2>2 DEF S
  <1> DEFINE offers == One(E)
             JobOf(p) == HomeJob[p[1]]
             Sooner(q, p) ==
               LET difference == LoadDifference(q, p, tr, FALSE)
               IN  \/ q[1] = p[1] /\ q[2] < p[2]
                   \/ /\ q[1] # p[1]
                      /\ difference < 0 \/ (difference = 0 /\ Lighter(q[1], p[1], tr, FALSE))
             round == [p \in offers |->
                         Cardinality({q \in offers : JobOf(q) = JobOf(p) /\ Sooner(q, p)})]
             Leading(j) == CHOOSE s \in E : /\ HomeJob[s] = j
                                         /\ \A u \in E \ {s} :
                                               HomeJob[u] = j => Lighter(s, u, tr, FALSE)
             Turn(i, j) ==
               LET difference == LoadDifference(<<Leading(i), 1>>, <<Leading(j), 1>>, tr, FALSE)
               IN  \/ difference < 0
                   \/ difference = 0 /\ \E a, b \in DOMAIN Job : a < b /\ Job[a] = i /\ Job[b] = j
  <1>3. ahead = [p \in offers |->
                   {q \in offers : round[q] < round[p] \/
                                     (round[q] = round[p] /\ Turn(JobOf(q), JobOf(p)))}]
    BY DEF JobByJob
  <1> HIDE DEF Turn
  <1>4. \A q, p \in offers : q \in ahead[p] => round[q] < round[p] \/ round[q] = round[p]
    BY <1>3
  <1>5. \A q, p \in offers : round[q] < round[p] => q \in ahead[p]
    BY <1>3
  <1>6. \A p \in offers : ahead[p] \subseteq offers
    BY <1>3
  <1> HIDE DEF ahead
  <1>7. ASSUME NEW d \in E, NEW u \in E
        PROVE  Sooner(<<u, 1>>, <<d, 1>>) <=> Lighter(u, d, tr, FALSE)
    <2>1. LoadDifference(<<u, 1>>, <<d, 1>>, tr, FALSE) = Weight(u, tr) - Weight(d, tr)
      BY LighterIs
    <2>2. Weight(u, tr) \in Nat /\ Weight(d, tr) \in Nat
      BY LighterIs
    <2>3. ~Lighter(d, d, tr, FALSE)
      BY LighterOrder
    <2>4. Lighter(u, d, tr, FALSE) <=> \/ Weight(u, tr) < Weight(d, tr)
                                       \/ /\ Weight(u, tr) = Weight(d, tr)
                                          /\ Position(u) < Position(d)
      BY LighterIs
    <2>5. Sooner(<<u, 1>>, <<d, 1>>)
            <=> /\ u # d
                /\ \/ Weight(u, tr) - Weight(d, tr) < 0
                   \/ Weight(u, tr) - Weight(d, tr) = 0 /\ Lighter(u, d, tr, FALSE)
      <3> DEFINE x == <<u, 1>>
                 y == <<d, 1>>
      <3>1. x[1] = u /\ y[1] = d /\ x[2] = 1 /\ y[2] = 1 /\ ~(1 < 1)
        OBVIOUS
      <3>2. LoadDifference(x, y, tr, FALSE) = Weight(u, tr) - Weight(d, tr)
        BY <2>1
      <3> HIDE DEF x, y
      <3>3. Sooner(x, y)
              <=> /\ u # d
                  /\ \/ Weight(u, tr) - Weight(d, tr) < 0
                     \/ Weight(u, tr) - Weight(d, tr) = 0 /\ Lighter(u, d, tr, FALSE)
        BY <3>1, <3>2, Zenon
      <3> QED
        BY <3>3 DEF x, y
    <2>6. /\ Weight(u, tr) - Weight(d, tr) < 0 <=> Weight(u, tr) < Weight(d, tr)
          /\ Weight(u, tr) - Weight(d, tr) = 0 <=> Weight(u, tr) = Weight(d, tr)
      BY <2>2
    <2> HIDE DEF Sooner
    <2> QED
      BY <2>3, <2>4, <2>5, <2>6, Zenon
  <1> HIDE DEF Sooner
  <1>8. ASSUME NEW d \in E
        PROVE  round[<<d, 1>>] \in Nat /\ (round[<<d, 1>>] = 0 <=> d \in R)
    <2> DEFINE Q == {q \in offers : JobOf(q) = JobOf(<<d, 1>>) /\ Sooner(q, <<d, 1>>)}
    <2>1. round[<<d, 1>>] = Cardinality(Q)
      BY DEF One
    <2>2. IsFiniteSet(offers)
      BY RegistryConstants, FS_Subset, OneEach
    <2>3. IsFiniteSet(Q) /\ Cardinality(Q) \in Nat
      BY <2>2, FS_Subset, FS_CardinalityType
    <2>4. Q = {} <=> d \in R
      <3>1. ASSUME NEW u \in E, HomeJob[u] = HomeJob[d], Lighter(u, d, tr, FALSE) PROVE Q # {}
        <4>1. <<u, 1>> \in Q
          BY <1>7, <3>1 DEF One
        <4> QED
          BY <4>1
      <3>2. ASSUME NEW q \in Q PROVE d \notin R
        <4>1. PICK u \in E : q = <<u, 1>>
          BY DEF One
        <4>2. HomeJob[u] = HomeJob[d] /\ Lighter(u, d, tr, FALSE)
          BY <1>7, <4>1
        <4> QED
          BY <4>2
      <3> QED
        BY <3>1, <3>2
    <2> HIDE DEF Q
    <2> QED
      BY <2>1, <2>3, <2>4, FS_EmptySet
  <1> HIDE DEF R, round
  <1>9. R \in SUBSET E
    BY DEF R
  <1>10. \A S \in SUBSET offers : IsFiniteSet(S) /\ Cardinality(S) \in Nat
    BY RegistryConstants, FS_Subset, OneEach, FS_CardinalityType
  <1>11. \A s \in E : <<s, 1>> \in offers
    BY DEF One
  <1>12. \A q \in offers : \E s \in E : q = <<s, 1>>
    BY DEF One
  <1> HIDE DEF offers
  <1>13. ASSUME NEW p \in T, p \notin R, NEW d \in R PROVE d \in T
    <2> DEFINE x == <<d, 1>>
               y == <<p, 1>>
    <2>1. d \in E /\ p \in E /\ x \in offers /\ y \in offers /\ Cardinality(ahead[y]) < n
      BY <1>9, <1>11
    <2>2. round[x] = 0 /\ round[y] \in Nat /\ round[y] # 0
      BY <1>8, <1>13, <2>1
    <2> HIDE DEF x, y
    <2>3. ahead[x] \subseteq ahead[y]
      <3> SUFFICES ASSUME NEW q \in ahead[x] PROVE q \in ahead[y]
        OBVIOUS
      <3>1. q \in offers /\ round[q] \in Nat
        BY <1>6, <1>8, <1>12, <2>1
      <3>2. round[q] = 0
        BY <1>4, <2>1, <2>2, <3>1
      <3>3. round[q] < round[y]
        BY <2>2, <3>2
      <3> QED
        BY <1>5, <2>1, <3>1, <3>3
    <2>4. ahead[y] \in SUBSET offers /\ ahead[x] \in SUBSET offers
      BY <1>6, <2>1
    <2>5. Cardinality(ahead[x]) <= Cardinality(ahead[y])
      BY <1>10, <2>3, <2>4, FS_Subset
    <2>6. Cardinality(ahead[x]) < n
      BY <1>10, <2>1, <2>4, <2>5
    <2> QED
      BY <2>1, <2>6 DEF x
  <1>14. T \subseteq R \/ R \subseteq T
    BY <1>13
  <1> QED
    BY <1>1, <1>2, <1>9, <1>14 DEF ahead

\* What StripeIsSpread asks of a wave with donors out of E.
SpreadOver(s, take, flagged, E) ==
  /\ setting.matching = "rack" /\ ~flagged => RackApart(s, Donors(take))
  /\ setting.matching = "rack" /\ flagged /\ (\A d \in Slot : Cardinality(racks[d]) <= 1)
       => ~\E D \in kSubset(Total(take), E) : RackApart(s, D)
  /\ setting.matching = "spread"
       => Cardinality(HomesOf(Donors(take))) = Min({Total(take), Cardinality(HomesOf(E))})

\* The racks that are known of a donor are finitely many.
RacksFinite == \A s \in Slot : IsFiniteSet(racks[s])

\* A node that takes its donors job by job.
LEMMA SpreadByJob ==
  ASSUME RegistryInductive, NEW E \in SUBSET Slot, NEW tr, NEW n \in Nat
  PROVE  LET take == Taken(One(E), n, JobByJob(E, One(E), tr, FALSE))
         IN  Cardinality(HomesOf(Donors(take))) = Min({Total(take), Cardinality(HomesOf(E))})
  <1> DEFINE ahead == JobByJob(E, One(E), tr, FALSE)
             take == Taken(One(E), n, ahead)
             T == {d \in E : Cardinality(ahead[<<d, 1>>]) < n}
             few == Cardinality(T)
             all == Cardinality(HomesOf(E))
  <1>1. PICK R \in SUBSET E :
          /\ \A d, e \in R : HomeJob[d] = HomeJob[e] => d = e
          /\ \A d \in E : \E e \in R : HomeJob[d] = HomeJob[e]
          /\ T \subseteq R \/ R \subseteq T
    BY FirstRound
  <1> HIDE DEF ahead
  <1>2. Donors(take) = T /\ Total(take) = few
    <2>1. T = {d \in E : Cardinality(ahead[<<d, 1>>]) < n}
      OBVIOUS
    <2> HIDE DEF T
    <2> QED
      BY <2>1, TakenOnce
  <1>3. T \in SUBSET Slot /\ T \subseteq E
    OBVIOUS
  <1> HIDE DEF T, take
  <1>4. /\ IsFiniteSet(T) /\ few \in Nat
        /\ Cardinality(HomesOf(T)) \in Nat /\ Cardinality(HomesOf(T)) <= few
        /\ IsFiniteSet(HomesOf(E)) /\ all \in Nat
    BY <1>3, RegistryConstants, FS_Subset, FS_CardinalityType, HomesCounted
  <1>5. Cardinality(HomesOf(T)) = Min({few, all})
    <2>1. CASE T \subseteq R
      <3>1. Cardinality(HomesOf(T)) = few
        BY <1>1, <1>3, <2>1, HomesCounted
      <3>2. HomesOf(T) \subseteq HomesOf(E)
        BY <1>3 DEF HomesOf
      <3>3. few <= all
        BY <1>4, <3>1, <3>2, FS_Subset
      <3> HIDE DEF few, all
      <3>4. Min({few, all}) = IF few < all THEN few ELSE all
        BY <1>4, SmallerOfTwo
      <3> QED
        BY <1>4, <3>1, <3>3, <3>4
    <2>2. CASE R \subseteq T
      <3>1. HomesOf(T) = HomesOf(E)
        <4>1. \A d \in E : \E e \in T : HomeJob[d] = HomeJob[e]
          BY <1>1, <2>2
        <4> QED
          BY <1>3, <4>1 DEF HomesOf
      <3>2. Cardinality(HomesOf(T)) = all
        BY <3>1
      <3> HIDE DEF few, all
      <3>3. Min({few, all}) = IF few < all THEN few ELSE all
        BY <1>4, SmallerOfTwo
      <3> QED
        BY <1>4, <3>2, <3>3
    <2> QED
      BY <1>1, <2>1, <2>2
  <1> QED
    BY <1>2, <1>5 DEF take, ahead

\* A node that takes its donors out of disjoint racks first.
LEMMA SpreadByRack ==
  ASSUME RegistryInductive, RacksFinite, NEW s \in Slot, NEW E \in SUBSET Slot, NEW tr, NEW n \in Nat
  PROVE  LET A == RackDisjoint(s, E, tr, FALSE)
             take == Taken(One(E), n, DonorByDonor(One(E), RackDisjointFirst(s, E, tr, FALSE)))
         IN  /\ ~(A # E /\ Cardinality(A) < n) => RackApart(s, Donors(take))
             /\ A # E /\ Cardinality(A) < n /\ (\A d \in Slot : Cardinality(racks[d]) <= 1)
                  => ~\E D \in kSubset(Total(take), E) : RackApart(s, D)
  <1> DEFINE A == RackDisjoint(s, E, tr, FALSE)
             before == RackDisjointFirst(s, E, tr, FALSE)
             ahead == DonorByDonor(One(E), before)
             take == Taken(One(E), n, ahead)
             T == {d \in E : Cardinality(before[d]) < n}
  <1>1. RackApart(s, A) /\ A \in SUBSET E
    BY ChosenApart, RackDisjointIs
  <1>2. /\ ~(A # E /\ Cardinality(A) < n) => \A d \in E : Cardinality(before[d]) < n => d \in A
        /\ A # E /\ Cardinality(A) < n
             => \E d \in E \ A : \A u \in A \cup {d} : Cardinality(before[u]) < n
    BY RackTaken
  <1>3. \A d \in E : before[d] \subseteq E
    BY RackOrder
  <1>4. (\A d \in Slot : Cardinality(racks[d]) <= 1) =>
          \A D \in SUBSET E : RackApart(s, D) => Cardinality(D) <= Cardinality(A)
    BY MostApart DEF RacksFinite
  <1> HIDE DEF A, before
  <1>5. \A d \in E : Cardinality(ahead[<<d, 1>>]) = Cardinality(before[d])
    <2> TAKE d \in E
    <2>1. Cardinality(ahead[<<d, 1>>]) = Cardinality(E \cap before[d])
      BY DonorsBefore
    <2>2. E \cap before[d] = before[d]
      BY <1>3
    <2> QED
      BY <2>1, <2>2
  <1> HIDE DEF ahead
  <1>6. T = {d \in E : Cardinality(ahead[<<d, 1>>]) < n}
    BY <1>5
  <1>7. T \in SUBSET E
    OBVIOUS
  <1>a. ASSUME ~(A # E /\ Cardinality(A) < n) PROVE T \subseteq A
    BY <1>2, <1>a
  <1>b. ASSUME A # E, Cardinality(A) < n PROVE \E d \in E \ A : A \cup {d} \subseteq T
    BY <1>1, <1>2, <1>b
  <1> HIDE DEF T
  <1>8. Donors(take) = T /\ Total(take) = Cardinality(T)
    BY <1>6, TakenOnce
  <1> HIDE DEF take
  <1>9. \A S \in SUBSET E : Cardinality(S) \in Nat
    BY RegistryConstants, FS_Subset, FS_CardinalityType
  <1>10. ASSUME ~(A # E /\ Cardinality(A) < n) PROVE RackApart(s, Donors(take))
    BY <1>1, <1>8, <1>10, <1>a DEF RackApart
  <1>11. ASSUME A # E, Cardinality(A) < n, \A d \in Slot : Cardinality(racks[d]) <= 1,
                NEW D \in kSubset(Total(take), E), RackApart(s, D)
         PROVE  FALSE
    <2>1. D \in SUBSET E /\ Cardinality(D) = Cardinality(T)
      BY <1>8 DEF kSubset
    <2>2. Cardinality(D) <= Cardinality(A)
      BY <1>4, <1>11, <2>1
    <2>3. PICK d \in E \ A : A \cup {d} \subseteq T
      BY <1>b, <1>11
    <2>4. IsFiniteSet(A) /\ IsFiniteSet(T)
      BY <1>1, <1>7, RegistryConstants, FS_Subset
    <2>5. Cardinality(A \cup {d}) = Cardinality(A) + 1 /\ Cardinality(A \cup {d}) <= Cardinality(T)
      BY <2>3, <2>4, FS_AddElement, FS_Subset
    <2>6. Cardinality(A) \in Nat /\ Cardinality(D) \in Nat /\ Cardinality(T) \in Nat
      BY <1>1, <1>7, <1>9, <2>1
    <2> QED
      BY <2>1, <2>2, <2>5, <2>6
  <1> QED
    BY <1>10, <1>11 DEF A, take, ahead, before

\* What a node is matched with.
LEMMA NodeMatched ==
  ASSUME RegistryInductive, RacksFinite, NEW s \in Slot, Represents[s] = 1,
         NEW tr, NEW gb, NEW n \in Nat, NEW match \in Matched(s, n, tr, gb)
  PROVE  SpreadOver(s, match.take, match.flagged, Eligible(HomeJob[s], tr, gb))
  <1> DEFINE E == Eligible(HomeJob[s], tr, gb)
             A == RackDisjoint(s, E, tr, FALSE)
  <1>1. E \in SUBSET Slot
    BY DEF Eligible, Available
  <1>2. (Represents[s] > 1) = FALSE
    OBVIOUS
  <1> HIDE DEF E
  <1>3. CASE setting.matching = "spread"
    <2>1. match = [take |-> Taken(One(E), n, JobByJob(E, One(E), tr, FALSE)), flagged |-> FALSE]
      BY <1>2, <1>3, NodeOffers DEF Matched, E
    <2>2. match.take = Taken(One(E), n, JobByJob(E, One(E), tr, FALSE))
      BY <2>1
    <2>3. Cardinality(HomesOf(Donors(match.take)))
            = Min({Total(match.take), Cardinality(HomesOf(E))})
      BY <1>1, <2>2, SpreadByJob
    <2> QED
      BY <1>3, <2>3 DEF SpreadOver, E
  <1>4. CASE setting.matching = "rack"
    <2>1. match = [take |-> Taken(One(E), n, DonorByDonor(One(E), RackDisjointFirst(s, E, tr, FALSE))),
                   flagged |-> RackFallback(s, E, n, tr, gb, FALSE)]
      BY <1>2, <1>4, NodeOffers DEF Matched, E
    <2>2. /\ match.take = Taken(One(E), n, DonorByDonor(One(E), RackDisjointFirst(s, E, tr, FALSE)))
          /\ match.flagged = RackFallback(s, E, n, tr, gb, FALSE)
      BY <2>1
    <2>3. RackFallback(s, E, n, tr, gb, FALSE) <=> A # E /\ Cardinality(A) < n
      <3>1. A \in SUBSET E
        BY <1>1, RackDisjointIs
      <3>2. IsFiniteSet(A)
        BY <1>1, <3>1, RegistryConstants, FS_Subset
      <3> HIDE DEF A
      <3>3. Cardinality(Offers(A, tr, gb, FALSE)) = Cardinality(A)
        BY <3>2, NodeOffers, OneEach
      <3> QED
        BY <3>3 DEF RackFallback, A
    <2>4. /\ ~(A # E /\ Cardinality(A) < n) => RackApart(s, Donors(match.take))
          /\ A # E /\ Cardinality(A) < n /\ (\A d \in Slot : Cardinality(racks[d]) <= 1)
               => ~\E D \in kSubset(Total(match.take), E) : RackApart(s, D)
      BY <1>1, <2>2, SpreadByRack
    <2>5. match.flagged <=> A # E /\ Cardinality(A) < n
      BY <2>2, <2>3
    <2> QED
      BY <1>4, <2>4, <2>5 DEF SpreadOver, E
  <1>5. CASE setting.matching \notin {"rack", "spread"}
    BY <1>5 DEF SpreadOver
  <1> QED
    BY <1>3, <1>4, <1>5

\* The donors with room on disk are the same for pieces of every size.
LEMMA DiskEligible ==
  ASSUME NEW job, NEW a, NEW b
  PROVE  Eligible(job, "ssd", a) = Eligible(job, "ssd", b)
  <1>1. \A s : Room(s, "ssd", a) = Room(s, "ssd", b)
    BY DEF Room
  <1>2. Available(job, "ssd", a) = Available(job, "ssd", b)
    BY <1>1 DEF Available
  <1> QED
    BY <1>2 DEF Eligible

\* What a wave that starts has taken.
LEMMA StartedWith ==
  ASSUME RegistryInductive, NEW s \in Slot, NEW take, NEW parity, NEW flagged,
         Start(s, take, parity, flagged)
  PROVE  /\ waves'[s].take = take /\ waves'[s].flagged = flagged
         /\ flushing' = flushing \cup {s}
  <1> DEFINE w == [take |-> take, parity |-> parity, flagged |-> flagged,
                   gb |-> IF take = NoTake THEN 0 ELSE (ShardGb * Represents[s]) \div Total(take)]
  <1>1. waves \in WaveShape
    BY DEF RegistryInductive, RegistryTypes
  <1>2. waves' = [waves EXCEPT ![s] = w] /\ flushing' = flushing \cup {s}
    BY DEF Start
  <1>3. w.take = take /\ w.flagged = flagged
    OBVIOUS
  <1> HIDE DEF w
  <1>4. waves'[s] = w
    BY <1>1, <1>2 DEF WaveShape
  <1> QED
    BY <1>2, <1>3, <1>4

\* The wave of a node to the disks.
LEMMA DiskWaveSpread ==
  ASSUME RegistryInductive, RacksFinite, NEW s \in Slot, Represents[s] = 1, FlushToDisk(s)
  PROVE  /\ SpreadOver(s, waves'[s].take, waves'[s].flagged,
                       Eligible(HomeJob[s], setting.tier, PieceEstimate))
         /\ flushing' = flushing \cup {s}
  <1> DEFINE n == setting.k * Represents[s]
             spare(t) == IF setting.parity /\ Represents[s] > 1 /\ t # NoTake
                         THEN OneSlot(s, Max(Range(t)), Donors(t)) ELSE {}
             parity(t) == [d \in Slot |-> IF d \in spare(t) THEN Max(Range(t)) ELSE 0]
             Plain(board) ==
               \E match \in Matched(s, n, "ssd", 1) :
                 LET take == Returned(match.take, n, TRUE)
                 IN  /\ Start(s, Plus(take, parity(take)), spare(take) # {}, match.flagged)
                     /\ hosted' = Plus(Plus(board, OnBoard(match.take, n, TRUE)), parity(take))
             asked == Eligible(HomeJob[s], setting.tier, PieceEstimate)
  <1>1. setting \in RegistrySettings
    BY DEF RegistryInductive, RegistryTypes
  <1>2. n \in Nat
    BY <1>1, WaveSize
  <1>3. setting.tier = "ssd"
    BY DEF FlushToDisk
  <1>4. IF setting.parity /\ Represents[s] = 1
        THEN \E match \in Matched(s, n + 1, "ssd", 1) :
               LET board == Plus(hosted, OnBoard(match.take, n + 1, FALSE))
               IN  IF Returned(match.take, n + 1, FALSE) # NoTake
                   THEN Start(s, match.take, TRUE, match.flagged) /\ hosted' = board
                   ELSE Plain(board)
        ELSE Plain(hosted)
    BY DEF FlushToDisk
  <1>5. asked = Eligible(HomeJob[s], "ssd", 1)
    BY <1>3, DiskEligible
  <1> HIDE DEF n, asked
  <1>6. ASSUME NEW board, Plain(board)
        PROVE  \E match \in Matched(s, n, "ssd", 1), p \in BOOLEAN : Start(s, match.take, p, match.flagged)
    <2>1. PICK match \in Matched(s, n, "ssd", 1) :
            Start(s, Plus(Returned(match.take, n, TRUE), parity(Returned(match.take, n, TRUE))),
                  spare(Returned(match.take, n, TRUE)) # {}, match.flagged)
      BY <1>6
    <2> DEFINE take == match.take
    <2>2. take \in [Slot -> Nat]
      BY <1>2, DiskMatchFits
    <2>3. Returned(take, n, TRUE) = take
      BY <2>2, PartialGrant
    <2>4. spare(take) = {}
      OBVIOUS
    <2>5. \A d \in Slot : parity(take)[d] = 0
      BY <2>4
    <2>6. \A d \in Slot : take[d] + parity(take)[d] = take[d]
      BY <2>2, <2>5
    <2>7. Plus(take, parity(take)) = take
      <3> HIDE DEF parity
      <3>1. Plus(take, parity(take)) = [d \in Slot |-> take[d] + parity(take)[d]]
        BY DEF Plus
      <3> HIDE DEF take
      <3> QED
        BY <2>2, <2>6, <3>1
    <2>8. Start(s, take, spare(take) # {}, match.flagged)
      <3> HIDE DEF parity, spare
      <3> QED
        BY <2>1, <2>3, <2>7
    <2> QED
      BY <2>8
  <1>7. \E m \in Nat : \E match \in Matched(s, m, "ssd", 1), p \in BOOLEAN : Start(s, match.take, p, match.flagged)
    <2>1. n \in Nat /\ n + 1 \in Nat
      BY <1>2
    <2> HIDE DEF Plain
    <2> QED
      BY <1>4, <1>6, <2>1, Zenon
  <1>8. PICK m \in Nat : \E match \in Matched(s, m, "ssd", 1), p \in BOOLEAN : Start(s, match.take, p, match.flagged)
    BY <1>7
  <1>9. PICK match \in Matched(s, m, "ssd", 1), p \in BOOLEAN : Start(s, match.take, p, match.flagged)
    BY <1>8
  <1>10. SpreadOver(s, match.take, match.flagged, Eligible(HomeJob[s], "ssd", 1))
    BY NodeMatched
  <1>11. /\ waves'[s].take = match.take /\ waves'[s].flagged = match.flagged
         /\ flushing' = flushing \cup {s}
    BY <1>9, StartedWith
  <1> QED
    BY <1>5, <1>10, <1>11 DEF asked

\* And to DRAM.
LEMMA DramWaveSpread ==
  ASSUME RegistryInductive, RacksFinite, NEW s \in Slot, Represents[s] = 1, FlushToDram(s)
  PROVE  /\ SpreadOver(s, waves'[s].take, waves'[s].flagged,
                       Eligible(HomeJob[s], setting.tier, PieceEstimate))
         /\ flushing' = flushing \cup {s}
  <1> DEFINE n == setting.k * Represents[s]
  <1>1. setting \in RegistrySettings
    BY DEF RegistryInductive, RegistryTypes
  <1>2. n \in Nat /\ PieceEstimate \in Nat \ {0}
    BY <1>1, WaveSize, EstimateIsPositive
  <1>3. PICK match \in Matched(s, n, "dram", PieceEstimate) :
          Start(s, Returned(match.take, n, TRUE), FALSE, match.flagged)
    BY DEF FlushToDram
  <1>4. setting.tier = "dram"
    BY DEF FlushToDram
  <1> HIDE DEF n
  <1>5. match.take \in [Slot -> Nat]
    BY <1>2, <1>4, MatchFits
  <1>6. Start(s, match.take, FALSE, match.flagged)
    BY <1>3, <1>5, PartialGrant
  <1>7. SpreadOver(s, match.take, match.flagged, Eligible(HomeJob[s], "dram", PieceEstimate))
    BY <1>2, NodeMatched
  <1>8. /\ waves'[s].take = match.take /\ waves'[s].flagged = match.flagged
        /\ flushing' = flushing \cup {s}
    BY <1>6, StartedWith
  <1> QED
    BY <1>4, <1>7, <1>8

\* A step that starts a wave of s.
LEMMA WhichWaves ==
  ASSUME RegistryInductive, RacksFinite, [RegistryNext]_registryVars,
         NEW s \in Slot, s \in flushing' \ flushing, Represents[s] = 1
  PROVE  SpreadOver(s, waves'[s].take, waves'[s].flagged,
                    Eligible(HomeJob[s], setting.tier, PieceEstimate))
  <1>1. \/ \E u \in Slot : FlushToDisk(u) \/ FlushToDram(u)
        \/ flushing' \subseteq flushing
    <2>1. ASSUME NEW u \in Slot, EndOnDisk(u) \/ AbortInDram(u) PROVE flushing' \subseteq flushing
      BY <2>1 DEF EndOnDisk, AbortInDram, WaveOver
    <2>2. ASSUME NEW u \in Slot, NEW stale, LandInDram(u, stale) PROVE flushing' \subseteq flushing
      BY <2>2 DEF LandInDram, WaveOver
    <2>3. ASSUME NEW u \in Slot, NEW d \in Slot, LeaveDram(u, d) PROVE flushing' \subseteq flushing
      BY <2>3 DEF LeaveDram
    <2>4. ASSUME NEW u \in Slot, Fail(u) \/ Return(u) \/ Relocate(u) PROVE flushing' \subseteq flushing
      BY <2>4 DEF Fail, Return, Relocate
    <2>5. ASSUME NEW j, SetAvailable(j) PROVE flushing' \subseteq flushing
      BY <2>5 DEF SetAvailable
    <2>6. ASSUME StreamEnds \/ UNCHANGED registryVars PROVE flushing' \subseteq flushing
      BY <2>6 DEF StreamEnds, registryVars
    <2> QED
      BY <2>1, <2>2, <2>3, <2>4, <2>5, <2>6 DEF RegistryNext
  <1>2. PICK u \in Slot : FlushToDisk(u) \/ FlushToDram(u)
    BY <1>1
  <1>3. flushing' = flushing \cup {u}
    BY <1>2 DEF FlushToDisk, FlushToDram, Start
  <1>4. u = s
    BY <1>3
  <1> QED
    BY <1>2, <1>4, DiskWaveSpread, DramWaveSpread

\* The racks of the slots.
RacksKnown == racks = [s \in Slot |-> racks[s]] /\ RacksFinite

\* A worker moves out of its racks and nothing else changes them.
LEMMA RacksKept ==
  ASSUME RacksKnown, [RegistryNext]_registryVars
  PROVE  RacksKnown'
  <1>1. ASSUME NEW d \in Slot, Relocate(d) PROVE RacksKnown'
    <2>1. racks' = [racks EXCEPT ![d] = {}]
      BY <1>1 DEF Relocate
    <2>2. \A s \in Slot : racks'[s] = IF s = d THEN {} ELSE racks[s]
      BY <2>1 DEF RacksKnown
    <2>3. racks' = [s \in Slot |-> racks'[s]]
      BY <2>1 DEF RacksKnown
    <2> QED
      BY <2>2, <2>3, FS_EmptySet DEF RacksKnown, RacksFinite
  <1>2. \/ \E d \in Slot : Relocate(d)
        \/ racks' = racks
    <2>1. ASSUME NEW s \in Slot, FlushToDisk(s) \/ FlushToDram(s) PROVE racks' = racks
      BY <2>1 DEF FlushToDisk, FlushToDram, Start
    <2>2. ASSUME NEW s \in Slot, EndOnDisk(s) \/ AbortInDram(s) PROVE racks' = racks
      BY <2>2 DEF EndOnDisk, AbortInDram, WaveOver
    <2>3. ASSUME NEW s \in Slot, NEW stale, LandInDram(s, stale) PROVE racks' = racks
      BY <2>3 DEF LandInDram, WaveOver
    <2>4. ASSUME NEW s \in Slot, NEW d \in Slot, LeaveDram(s, d) PROVE racks' = racks
      BY <2>4 DEF LeaveDram
    <2>5. ASSUME NEW s \in Slot, Fail(s) \/ Return(s) PROVE racks' = racks
      BY <2>5 DEF Fail, Return
    <2>6. ASSUME NEW j, SetAvailable(j) PROVE racks' = racks
      BY <2>6 DEF SetAvailable
    <2>7. ASSUME StreamEnds \/ UNCHANGED registryVars PROVE racks' = racks
      BY <2>7 DEF StreamEnds, registryVars
    <2> QED
      BY <2>1, <2>2, <2>3, <2>4, <2>5, <2>6, <2>7 DEF RegistryNext
  <1>3. CASE racks' = racks
    BY <1>3 DEF RacksKnown, RacksFinite
  <1> QED
    BY <1>1, <1>2, <1>3

\* The racks at first.
LEMMA RacksAtFirst ==
  ASSUME RegistryInit
  PROVE  RacksKnown
  <1>1. RacksOf = [s \in Slot |-> RacksOf[s]] /\ \A s \in Slot : IsFiniteSet(RacksOf[s])
    BY RegistryAssumption DEF RegistryAssumption, Slot
  <1>2. racks = RacksOf \/ racks = [s \in Slot |-> {}]
    BY DEF RegistryInit
  <1> QED
    BY <1>1, <1>2, FS_EmptySet DEF RacksKnown, RacksFinite

\* With rack anti-affinity no rack holds two pieces of the wave of a node or is one of the
\* owner's, unless the wave is flagged, and it is flagged only when there were not enough such
\* donors; with spread_jobs its pieces are in as many jobs as the eligible donors allow
\* (_reserve_rack_aa, _reserve_matched, crossjob.py).
THEOREM StripeCorrect == RegistrySpec => StripeIsSpread
  <1>1. RegistryInit => RacksKnown
    BY RacksAtFirst
  <1>2. RacksKnown /\ [RegistryNext]_registryVars => RacksKnown'
    BY RacksKept
  <1>3. RegistryInductive /\ RacksKnown /\ [RegistryNext]_registryVars =>
          \A s \in Slot : s \in flushing' \ flushing /\ Represents[s] = 1 =>
            SpreadOver(s, waves'[s].take, waves'[s].flagged,
                       Eligible(HomeJob[s], setting.tier, PieceEstimate))
    BY WhichWaves DEF RacksKnown
  <1> QED
    BY <1>1, <1>2, <1>3, RegistryInvariance, PTL DEF RegistrySpec, StripeIsSpread, SpreadOver,
       RackApart, HomesOf
=============================================================================

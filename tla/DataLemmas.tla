--------------------------- MODULE DataLemmas ---------------------------
(***************************************************************************)
(* Lemmas that the proofs about several components share: Min and Max, and *)
(* the order of the requests in a queue, what inserting or removing one    *)
(* does to it, and which is the foremost of a set of them; and the         *)
(* multiples of the interval between checkpoints.                          *)
(*                                                                         *)
(* A set of naturals has a least element because < is well founded on      *)
(* them; that is also how the other modules reason by least counterexample.*)
(***************************************************************************)
EXTENDS Queues, FiniteSetsExt, WellFoundedInduction, FiniteSetTheorems, TLAPS

-----------------------------------------------------------------------------
(* Least and greatest elements. *)

\* Min of a set of naturals is its least element.
LEMMA MinOfNat ==
  ASSUME NEW T, T \subseteq Nat, T # {}
  PROVE  Min(T) \in T /\ \A y \in T : Min(T) <= y
  <1> DEFINE R == OpToRel(<, Nat)
  <1>1. IsWellFoundedOn(R, Nat)
    BY NatLessThanWellFounded
  <1>2. \A a, b \in Nat : a < b => <<a, b>> \in R
    BY DEF R, OpToRel
  <1> HIDE DEF R
  <1>3. PICK x \in T : \A y \in T : ~ (<<y, x>> \in R)
    BY <1>1, WFMin
  <1>4. ASSUME NEW y \in T PROVE x <= y
    <2>1. ~(y < x)
      BY <1>2, <1>3, Zenon
    <2> QED
      BY <2>1
  <1> QED
    BY <1>4, Zenon DEF Min

\* Max of a set of integers with an upper bound is its greatest element.
LEMMA MaxOfBounded ==
  ASSUME NEW T, T \subseteq Int, T # {}, NEW n \in Int, \A y \in T : y <= n
  PROVE  Max(T) \in T /\ \A y \in T : Max(T) >= y
  <1> DEFINE D == {n - y : y \in T}
  <1>1. D \subseteq Nat /\ D # {}
    <2>1. \A y \in T : n - y \in Nat
      OBVIOUS
    <2> QED
      BY <2>1, Zenon
  <1>2. Min(D) \in D /\ \A d \in D : Min(D) <= d
    BY <1>1, MinOfNat
  <1>3. PICK x \in T : Min(D) = n - x
    BY <1>2
  <1>4. \A y \in T : x >= y
    <2> TAKE y \in T
    <2>1. n - x <= n - y
      BY <1>2, <1>3, Zenon
    <2> QED
      BY <2>1
  <1> QED
    BY <1>4, Zenon DEF Max

-----------------------------------------------------------------------------
(* Queues. *)

\* A sequence with an element inserted: those before stay, the others move up.
LEMMA Insertion ==
  ASSUME NEW T, NEW q \in Seq(T), NEW e \in T, NEW k \in 1 .. Len(q) + 1
  PROVE  /\ InsertAt(q, k, e) \in Seq(T)
         /\ Len(InsertAt(q, k, e)) = Len(q) + 1
         /\ \A i \in 1 .. k - 1 : InsertAt(q, k, e)[i] = q[i]
         /\ InsertAt(q, k, e)[k] = e
         /\ \A i \in k .. Len(q) : InsertAt(q, k, e)[i + 1] = q[i]
  <1> DEFINE a == SubSeq(q, 1, k - 1)
             b == SubSeq(q, k, Len(q))
  <1>1. a \in Seq(T) /\ Len(a) = k - 1 /\ \A i \in 1 .. k - 1 : a[i] = q[i]
    OBVIOUS
  <1>2. b \in Seq(T) /\ Len(b) = Len(q) - k + 1 /\ \A i \in 1 .. Len(q) - k + 1 : b[i] = q[i + k - 1]
    OBVIOUS
  <1>3. InsertAt(q, k, e) = a \o <<e>> \o b
    BY DEF InsertAt
  <1> HIDE DEF a, b
  <1> DEFINE c == a \o <<e>>
  <1>4. c \in Seq(T) /\ Len(c) = k /\ c[k] = e /\ \A i \in 1 .. k - 1 : c[i] = q[i]
    BY <1>1
  <1> HIDE DEF c
  <1> DEFINE d == c \o b
  <1>5. \A u, v \in Seq(T) :
          /\ u \o v \in Seq(T) /\ Len(u \o v) = Len(u) + Len(v)
          /\ \A i \in 1 .. Len(u) : (u \o v)[i] = u[i]
          /\ \A i \in Len(u) + 1 .. Len(u) + Len(v) : (u \o v)[i] = v[i - Len(u)]
    OBVIOUS
  <1>6. /\ d \in Seq(T) /\ Len(d) = Len(c) + Len(b)
        /\ \A i \in 1 .. Len(c) : d[i] = c[i]
        /\ \A i \in Len(c) + 1 .. Len(c) + Len(b) : d[i] = b[i - Len(c)]
    BY <1>2, <1>4, <1>5, Zenon
  <1>7. d = InsertAt(q, k, e)
    BY <1>3 DEF c
  <1> HIDE DEF d
  <1>8. Len(d) = Len(q) + 1
    BY <1>2, <1>4, <1>6
  <1>9. \A i \in 1 .. k : d[i] = c[i]
    BY <1>4, <1>6
  <1>10. \A i \in k + 1 .. Len(q) + 1 : d[i] = b[i - k] /\ i - k \in 1 .. Len(q) - k + 1
    BY <1>2, <1>4, <1>6
  <1>11. ASSUME NEW i \in k .. Len(q) PROVE d[i + 1] = q[i]
    <2>1. i + 1 \in k + 1 .. Len(q) + 1
      OBVIOUS
    <2>2. d[i + 1] = b[i + 1 - k] /\ i + 1 - k \in 1 .. Len(q) - k + 1
      BY <1>10, <2>1
    <2>3. i + 1 - k + k - 1 = i
      OBVIOUS
    <2> QED
      BY <1>2, <2>2, <2>3
  <1> QED
    BY <1>4, <1>6, <1>7, <1>8, <1>9, <1>11

\* A sequence without one of its elements: those behind it move down.
LEMMA Removal ==
  ASSUME NEW T, NEW q \in Seq(T), IsInjective(q), NEW k \in 1 .. Len(q)
  PROVE  /\ RemoveFirst(q, q[k]) \in Seq(T)
         /\ Len(RemoveFirst(q, q[k])) = Len(q) - 1
         /\ \A i \in 1 .. k - 1 : RemoveFirst(q, q[k])[i] = q[i]
         /\ \A i \in k .. Len(q) - 1 : RemoveFirst(q, q[k])[i] = q[i + 1]
  <1> DEFINE a == SubSeq(q, 1, k - 1)
             b == SubSeq(q, k + 1, Len(q))
  <1>1. a \in Seq(T) /\ Len(a) = k - 1 /\ \A i \in 1 .. k - 1 : a[i] = q[i]
    OBVIOUS
  <1>2. b \in Seq(T) /\ Len(b) = Len(q) - k /\ \A i \in 1 .. Len(q) - k : b[i] = q[i + k]
    OBVIOUS
  <1>3. RemoveFirst(q, q[k]) = a \o b
    <2>1. {i \in 1 .. Len(q) : q[i] = q[k]} = {k}
      BY DEF IsInjective
    <2>2. SelectInSeq(q, LAMBDA v : v = q[k]) = Min({k})
      BY <2>1 DEF SelectInSeq
    <2>3. Min({k}) = k
      BY MinOfNat
    <2> QED
      BY <2>2, <2>3 DEF RemoveFirst, RemoveAt
  <1> HIDE DEF a, b
  <1>4. (a \o b) \in Seq(T)
    BY <1>1, <1>2
  <1>5. Len(a \o b) = Len(q) - 1
    BY <1>1, <1>2
  <1>6. \A i \in 1 .. k - 1 : (a \o b)[i] = a[i]
    BY <1>1, <1>2
  <1>7. ASSUME NEW i \in k .. Len(q) - 1 PROVE (a \o b)[i] = q[i + 1]
    <2>1. (a \o b)[i] = b[i - (k - 1)]
      BY <1>1, <1>2
    <2>2. i - (k - 1) \in 1 .. Len(q) - k /\ i - (k - 1) + k = i + 1
      OBVIOUS
    <2> QED
      BY <1>2, <2>1, <2>2
  <1> QED
    BY <1>1, <1>3, <1>4, <1>5, <1>6, <1>7

\* Removing what is not there changes nothing.
LEMMA NothingRemoved ==
  ASSUME NEW T, NEW q \in Seq(T), NEW e, e \notin ToSet(q)
  PROVE  RemoveFirst(q, e) = q
  BY DEF RemoveFirst, ToSet

\* The order in a queue without duplicates is strict and total.
LEMMA Order ==
  ASSUME NEW T, NEW q \in Seq(T), IsInjective(q)
  PROVE  /\ \A a, b : Before(q, a, b) => a # b /\ ~Before(q, b, a) /\ a \in ToSet(q) /\ b \in ToSet(q)
         /\ \A a, b \in ToSet(q) : a # b => Before(q, a, b) \/ Before(q, b, a)
         /\ \A a, b, c : Before(q, a, b) /\ Before(q, b, c) => Before(q, a, c)
  <1> USE DEF Before, ToSet, IsInjective
  <1>1. \A a, b : Before(q, a, b) => a # b /\ ~Before(q, b, a) /\ a \in ToSet(q) /\ b \in ToSet(q)
    OBVIOUS
  <1>2. \A a, b \in ToSet(q) : a # b => Before(q, a, b) \/ Before(q, b, a)
    OBVIOUS
  <1>3. \A a, b, c : Before(q, a, b) /\ Before(q, b, c) => Before(q, a, c)
    OBVIOUS
  <1> QED
    BY <1>1, <1>2, <1>3

\* The head is before all the others.
LEMMA HeadFirst ==
  ASSUME NEW T, NEW q \in Seq(T), q # <<>>
  PROVE  /\ Head(q) \in ToSet(q)
         /\ \A a \in ToSet(q) : a # Head(q) => Before(q, Head(q), a)
         /\ \A a : Before(q, a, Head(q)) /\ IsInjective(q) => FALSE
         /\ IsInjective(q) => ToSet(Tail(q)) = ToSet(q) \ {Head(q)}
  <1>1. Head(q) = q[1] /\ Len(q) >= 1 /\ DOMAIN q = 1 .. Len(q)
    OBVIOUS
  <1>2. ASSUME IsInjective(q) PROVE ToSet(Tail(q)) = ToSet(q) \ {Head(q)}
    <2>1. Len(Tail(q)) = Len(q) - 1 /\ \A i \in 1 .. Len(q) - 1 : Tail(q)[i] = q[i + 1]
      OBVIOUS
    <2>2. DOMAIN Tail(q) = 1 .. Len(q) - 1
      OBVIOUS
    <2>3. \A i \in 1 .. Len(q) - 1 : q[i + 1] # q[1]
      BY <1>2 DEF IsInjective
    <2>4. \A i \in 2 .. Len(q) : i - 1 \in 1 .. Len(q) - 1 /\ q[i] = Tail(q)[i - 1]
      BY <2>1
    <2>5. ASSUME NEW x \in ToSet(Tail(q)) PROVE x \in ToSet(q) \ {Head(q)}
      <3>1. PICK i \in 1 .. Len(q) - 1 : Tail(q)[i] = x
        BY <2>2, Zenon DEF ToSet
      <3>2. i + 1 \in DOMAIN q /\ q[i + 1] = x /\ x # q[1]
        BY <1>1, <2>1, <2>3, <3>1
      <3> QED
        BY <1>1, <3>2 DEF ToSet
    <2>6. ASSUME NEW x \in ToSet(q), x # Head(q) PROVE x \in ToSet(Tail(q))
      <3>1. PICK i \in 1 .. Len(q) : q[i] = x
        BY <1>1, Zenon DEF ToSet
      <3>2. i \in 2 .. Len(q)
        BY <1>1, <2>6, <3>1
      <3> QED
        BY <2>2, <2>4, <3>1, <3>2, Zenon DEF ToSet
    <2> QED
      BY <2>5, <2>6
  <1>3. \A a : Before(q, a, Head(q)) /\ IsInjective(q) => FALSE
    BY <1>1 DEF Before, IsInjective
  <1>4. Head(q) \in ToSet(q)
    BY <1>1 DEF ToSet
  <1>5. ASSUME NEW a \in ToSet(q), a # Head(q) PROVE Before(q, Head(q), a)
    <2>1. PICK i \in 1 .. Len(q) : q[i] = a
      BY <1>1, Zenon DEF ToSet
    <2>2. 1 < i /\ 1 \in 1 .. Len(q)
      BY <1>1, <1>5, <2>1
    <2> QED
      BY <1>1, <2>1, <2>2, Zenon DEF Before
  <1> QED
    BY <1>2, <1>3, <1>4, <1>5

\* One that joins a queue leaves the order of the others, and is behind those
\* whose positions are lower than the one it is given.
LEMMA InsertOrder ==
  ASSUME NEW T, NEW q \in Seq(T), IsInjective(q), NEW e \in T, e \notin ToSet(q),
         NEW k \in 1 .. Len(q) + 1
  PROVE  /\ InsertAt(q, k, e) \in Seq(T)
         /\ IsInjective(InsertAt(q, k, e))
         /\ ToSet(InsertAt(q, k, e)) = ToSet(q) \cup {e}
         /\ \A a, b : a # e /\ b # e => (Before(InsertAt(q, k, e), a, b) <=> Before(q, a, b))
         /\ \A i \in 1 .. k - 1 : Before(InsertAt(q, k, e), q[i], e)
         /\ \A i \in k .. Len(q) : Before(InsertAt(q, k, e), e, q[i])
         /\ k >= 2 => Head(InsertAt(q, k, e)) = Head(q)
  <1> DEFINE n == InsertAt(q, k, e)
  <1>1. /\ n \in Seq(T) /\ Len(n) = Len(q) + 1 /\ n[k] = e
        /\ \A i \in 1 .. k - 1 : n[i] = q[i]
        /\ \A i \in k .. Len(q) : n[i + 1] = q[i]
    BY Insertion
  <1> HIDE DEF n
  <1>2. DOMAIN n = 1 .. Len(q) + 1 /\ DOMAIN q = 1 .. Len(q) /\ Len(q) \in Nat
    BY <1>1
  <1>3. \A i \in 1 .. Len(q) : q[i] # e
    BY <1>2 DEF ToSet
  <1>4. \A i \in k + 1 .. Len(q) + 1 : i - 1 \in k .. Len(q) /\ n[i] = q[i - 1]
    BY <1>1
  <1> DEFINE dn(i) == IF i < k THEN i ELSE i - 1
  <1>a. \A i \in 1 .. Len(q) + 1 : i # k => dn(i) \in 1 .. Len(q) /\ n[i] = q[dn(i)]
    BY <1>1, <1>4
  <1>b. \A i, j \in 1 .. Len(q) + 1 : i # k /\ j # k /\ dn(i) = dn(j) => i = j
    OBVIOUS
  <1> HIDE DEF dn
  <1>5. IsInjective(n)
    BY <1>1, <1>2, <1>3, <1>a, <1>b DEF IsInjective
  <1>6. ToSet(n) = ToSet(q) \cup {e}
    <2>1. \A x \in ToSet(n) : x \in ToSet(q) \cup {e}
      BY <1>1, <1>2, <1>a DEF ToSet
    <2>2. \A x \in ToSet(q) : x \in ToSet(n)
      <3> TAKE x \in ToSet(q)
      <3>1. PICK i \in 1 .. Len(q) : q[i] = x
        BY <1>2 DEF ToSet
      <3>2. i < k => i \in 1 .. Len(q) + 1 /\ n[i] = x
        BY <1>1, <3>1
      <3>3. i >= k => i + 1 \in 1 .. Len(q) + 1 /\ n[i + 1] = x
        BY <1>1, <3>1
      <3> QED
        BY <1>2, <3>2, <3>3 DEF ToSet
    <2>3. e \in ToSet(n)
      BY <1>1, <1>2 DEF ToSet
    <2> QED
      BY <2>1, <2>2, <2>3
  <1>7. ASSUME NEW a, NEW b, a # e, b # e
        PROVE  Before(n, a, b) <=> Before(q, a, b)
    <2>1. ASSUME Before(n, a, b) PROVE Before(q, a, b)
      <3>1. PICK i, j \in 1 .. Len(q) + 1 : i < j /\ n[i] = a /\ n[j] = b
        BY <1>2, <2>1 DEF Before
      <3>2. i # k /\ j # k
        BY <1>1, <1>7, <3>1
      <3> DEFINE u == IF i < k THEN i ELSE i - 1
                 v == IF j < k THEN j ELSE j - 1
      <3>3. u \in 1 .. Len(q) /\ v \in 1 .. Len(q) /\ u < v
        BY <3>1, <3>2
      <3>4. q[u] = a /\ q[v] = b
        BY <1>1, <1>4, <3>1, <3>2
      <3> QED
        BY <1>2, <3>3, <3>4 DEF Before
    <2>2. ASSUME Before(q, a, b) PROVE Before(n, a, b)
      <3>1. PICK i, j \in 1 .. Len(q) : i < j /\ q[i] = a /\ q[j] = b
        BY <1>2, <2>2 DEF Before
      <3> DEFINE u == IF i < k THEN i ELSE i + 1
                 v == IF j < k THEN j ELSE j + 1
      <3>2. u \in 1 .. Len(q) + 1 /\ v \in 1 .. Len(q) + 1 /\ u < v
        BY <3>1
      <3>3. n[u] = a /\ n[v] = b
        BY <1>1, <3>1
      <3> QED
        BY <1>2, <3>2, <3>3 DEF Before
    <2> QED
      BY <2>1, <2>2
  <1>8. \A i \in 1 .. k - 1 : Before(n, q[i], e)
    BY <1>1, <1>2 DEF Before
  <1>9. ASSUME NEW i \in k .. Len(q) PROVE Before(n, e, q[i])
    <2>1. i + 1 \in DOMAIN n /\ k \in DOMAIN n /\ k < i + 1 /\ n[i + 1] = q[i]
      BY <1>1, <1>2
    <2> QED
      BY <1>1, <2>1 DEF Before
  <1>10. k >= 2 => Head(n) = Head(q)
    <2>1. k >= 2 => n[1] = q[1] /\ q # <<>> /\ n # <<>>
      BY <1>1
    <2> QED
      BY <1>1, <2>1
  <1> QED
    BY <1>1, <1>5, <1>6, <1>7, <1>8, <1>9, <1>10 DEF n

\* One that leaves a queue leaves the order of the others.
LEMMA RemoveOrder ==
  ASSUME NEW T, NEW q \in Seq(T), IsInjective(q), NEW e
  PROVE  /\ RemoveFirst(q, e) \in Seq(T)
         /\ IsInjective(RemoveFirst(q, e))
         /\ ToSet(RemoveFirst(q, e)) = ToSet(q) \ {e}
         /\ \A a, b : Before(RemoveFirst(q, e), a, b) <=> a # e /\ b # e /\ Before(q, a, b)
         /\ q # <<>> /\ Head(q) # e => RemoveFirst(q, e) # <<>> /\ Head(RemoveFirst(q, e)) = Head(q)
  <1>1. CASE e \notin ToSet(q)
    <2>1. RemoveFirst(q, e) = q
      BY <1>1, NothingRemoved
    <2>2. ToSet(q) \ {e} = ToSet(q)
      BY <1>1
    <2>3. \A a, b : Before(q, a, b) => a \in ToSet(q) /\ b \in ToSet(q)
      BY Order
    <2> QED
      BY <1>1, <2>1, <2>2, <2>3
  <1>2. CASE e \in ToSet(q)
    <2> DEFINE n == RemoveFirst(q, e)
    <2>1. PICK k \in 1 .. Len(q) : q[k] = e
      BY <1>2 DEF ToSet
    <2>2. /\ n \in Seq(T) /\ Len(n) = Len(q) - 1
          /\ \A i \in 1 .. k - 1 : n[i] = q[i]
          /\ \A i \in k .. Len(q) - 1 : n[i] = q[i + 1]
      BY <2>1, Removal
    <2> HIDE DEF n
    <2>3. DOMAIN n = 1 .. Len(q) - 1 /\ DOMAIN q = 1 .. Len(q) /\ Len(q) \in Nat
      BY <2>2
    <2>4. \A i \in 1 .. Len(q) : q[i] = e <=> i = k
      BY <2>1, <2>3 DEF IsInjective
    <2> DEFINE up(i) == IF i < k THEN i ELSE i + 1
               dn(i) == IF i < k THEN i ELSE i - 1
    <2>5. \A i \in 1 .. Len(q) - 1 : up(i) \in 1 .. Len(q) /\ up(i) # k /\ n[i] = q[up(i)]
      BY <2>2
    <2>6. \A i, j \in 1 .. Len(q) - 1 : (i < j <=> up(i) < up(j)) /\ (up(i) = up(j) => i = j)
      OBVIOUS
    <2>7. \A i \in 1 .. Len(q) : i # k => dn(i) \in 1 .. Len(q) - 1 /\ up(dn(i)) = i
      OBVIOUS
    <2> HIDE DEF up, dn
    <2>8. IsInjective(n)
      BY <2>3, <2>5, <2>6 DEF IsInjective
    <2>9. ToSet(n) = ToSet(q) \ {e}
      <3>1. \A x \in ToSet(n) : x \in ToSet(q) \ {e}
        BY <2>3, <2>4, <2>5 DEF ToSet
      <3>2. \A x \in ToSet(q) \ {e} : x \in ToSet(n)
        <4> TAKE x \in ToSet(q) \ {e}
        <4>1. PICK i \in 1 .. Len(q) : q[i] = x
          BY <2>3 DEF ToSet
        <4>2. dn(i) \in 1 .. Len(q) - 1 /\ n[dn(i)] = x
          BY <2>4, <2>5, <2>7, <4>1
        <4> QED
          BY <2>3, <4>2 DEF ToSet
      <3> QED
        BY <3>1, <3>2
    <2>10. ASSUME NEW a, NEW b, Before(n, a, b) PROVE a # e /\ b # e /\ Before(q, a, b)
      <3>1. PICK i, j \in 1 .. Len(q) - 1 : i < j /\ n[i] = a /\ n[j] = b
        BY <2>3, <2>10 DEF Before
      <3>2. /\ up(i) \in 1 .. Len(q) /\ up(j) \in 1 .. Len(q) /\ up(i) < up(j)
            /\ q[up(i)] = a /\ q[up(j)] = b /\ a # e /\ b # e
        BY <2>4, <2>5, <2>6, <3>1
      <3> QED
        BY <2>3, <3>2 DEF Before
    <2>11. ASSUME NEW a, NEW b, a # e, b # e, Before(q, a, b) PROVE Before(n, a, b)
      <3>1. PICK i, j \in 1 .. Len(q) : i < j /\ q[i] = a /\ q[j] = b
        BY <2>3, <2>11 DEF Before
      <3>2. i # k /\ j # k
        BY <2>1, <2>11, <3>1
      <3>3. /\ dn(i) \in 1 .. Len(q) - 1 /\ dn(j) \in 1 .. Len(q) - 1
            /\ up(dn(i)) = i /\ up(dn(j)) = j
        BY <2>7, <3>1, <3>2
      <3>4. dn(i) < dn(j) /\ n[dn(i)] = a /\ n[dn(j)] = b
        BY <2>5, <2>6, <3>1, <3>3
      <3> QED
        BY <2>3, <3>3, <3>4 DEF Before
    <2>12. q # <<>> /\ Head(q) # e => n # <<>> /\ Head(n) = Head(q)
      <3> HAVE q # <<>> /\ Head(q) # e
      <3>1. Head(q) = q[1] /\ k # 1 /\ k >= 2 /\ Len(q) >= 2
        BY <2>1
      <3>2. n[1] = q[1] /\ n # <<>>
        BY <2>2, <3>1
      <3> QED
        BY <2>2, <3>1, <3>2
    <2> QED
      BY <2>2, <2>8, <2>9, <2>10, <2>11, <2>12 DEF n
  <1> QED
    BY <1>1, <1>2

\* The foremost of a set of requests.
LEMMA Foremost ==
  ASSUME NEW T, NEW q \in Seq(T), IsInjective(q), NEW A \in SUBSET ToSet(q), A # {}
  PROVE  \E a \in A : \A b \in A : ~Before(q, b, a)
  <1> DEFINE I == {i \in 1 .. Len(q) : q[i] \in A}
  <1>1. I \subseteq Nat /\ I # {}
    BY DEF ToSet
  <1>2. PICK m \in I : \A i \in I : m <= i
    BY <1>1, MinOfNat
  <1>3. q[m] \in A
    BY <1>2
  <1>4. ASSUME NEW b \in A, Before(q, b, q[m]) PROVE FALSE
    <2>1. PICK i, j \in 1 .. Len(q) : i < j /\ q[i] = b /\ q[j] = q[m]
      BY <1>4 DEF Before
    <2>2. j = m /\ i \in I
      BY <1>2, <1>4, <2>1 DEF IsInjective
    <2> QED
      BY <1>2, <2>1, <2>2
  <1> QED
    BY <1>3, <1>4

\* A set of positions that has all those before each of its own is as long as
\* it has members.
LEMMA PrefixCount ==
  ASSUME NEW n \in Nat, NEW S \in SUBSET (1 .. n), \A i \in S : \A j \in 1 .. i : j \in S
  PROVE  Cardinality(S) \in 0 .. n /\ S = 1 .. Cardinality(S)
  <1>1. PICK m \in 0 .. n : S = 1 .. m
    <2>1. CASE S = {}
      <3>1. S = 1 .. 0
        BY <2>1
      <3> QED
        BY <3>1
    <2>2. CASE S # {}
      <3>1. S \subseteq Int /\ n \in Int /\ \A y \in S : y <= n
        OBVIOUS
      <3>2. Max(S) \in S /\ \A y \in S : Max(S) >= y
        BY <2>2, <3>1, MaxOfBounded
      <3>3. PICK m \in S : \A y \in S : m >= y
        BY <3>2
      <3>4. m \in 0 .. n /\ \A j \in 1 .. m : j \in S
        BY <3>3
      <3>a. \A y \in S : y \in 1 .. m
        <4> TAKE y \in S
        <4>1. y \in 1 .. n /\ m \in 1 .. n /\ m >= y
          BY <3>3
        <4> QED
          BY <4>1
      <3>5. S = 1 .. m
        BY <3>4, <3>a, Zenon
      <3> QED
        BY <3>4, <3>5
    <2> QED
      BY <2>1, <2>2
  <1>2. Cardinality(1 .. m) = m
    <2>1. Cardinality(1 .. m) = IF 1 > m THEN 0 ELSE m - 1 + 1
      BY FS_Interval
    <2> QED
      BY <2>1
  <1> QED
    BY <1>1, <1>2

\* A request that joins a queue is behind those in it.
LEMMA AppendOrder ==
  ASSUME NEW T, NEW t \in Seq(T), IsInjective(t), NEW p \in T, p \notin ToSet(t)
  PROVE  /\ Append(t, p) \in Seq(T) /\ IsInjective(Append(t, p))
         /\ ToSet(Append(t, p)) = ToSet(t) \cup {p}
         /\ \A x, y : x # p /\ y # p => (Before(Append(t, p), x, y) <=> Before(t, x, y))
         /\ \A x \in ToSet(t) : Before(Append(t, p), x, p)
  <1> DEFINE r == Append(t, p)
  <1>1. Len(t) \in Nat /\ DOMAIN t = 1 .. Len(t)
    OBVIOUS
  <1>2. /\ r \in Seq(T) /\ Len(r) = Len(t) + 1 /\ DOMAIN r = 1 .. (Len(t) + 1)
        /\ r[Len(t) + 1] = p /\ \A i \in 1 .. Len(t) : r[i] = t[i]
    BY <1>1
  <1> HIDE DEF r
  <1>3. \A i \in 1 .. Len(t) : t[i] # p
    BY <1>1 DEF ToSet
  <1>4. IsInjective(r)
    BY <1>1, <1>2, <1>3 DEF IsInjective
  <1>5. ToSet(r) = ToSet(t) \cup {p}
    <2>1. \A x \in ToSet(r) : x \in ToSet(t) \cup {p}
      BY <1>1, <1>2 DEF ToSet
    <2>2. \A x \in ToSet(t) : x \in ToSet(r)
      BY <1>1, <1>2 DEF ToSet
    <2>3. p \in ToSet(r)
      BY <1>1, <1>2 DEF ToSet
    <2> QED
      BY <2>1, <2>2, <2>3
  <1>6. \A x, y : x # p /\ y # p => (Before(r, x, y) <=> Before(t, x, y))
    BY <1>1, <1>2 DEF Before
  <1>7. ASSUME NEW x \in ToSet(t) PROVE Before(r, x, p)
    <2>1. PICK i \in 1 .. Len(t) : t[i] = x
      BY <1>1 DEF ToSet
    <2>2. i \in DOMAIN r /\ Len(t) + 1 \in DOMAIN r /\ i < Len(t) + 1 /\ r[i] = x
      BY <1>1, <1>2, <2>1
    <2> QED
      BY <1>2, <2>2 DEF Before
  <1> QED
    BY <1>2, <1>4, <1>5, <1>6, <1>7 DEF r

-----------------------------------------------------------------------------
(* Intervals of checkpoints. *)

\* Division with remainder.
LEMMA Divided ==
  ASSUME NEW e \in Nat \ {0}, NEW i \in Nat
  PROVE  /\ i = (e * (i \div e)) + (i % e)
         /\ i \div e \in Nat
         /\ i % e \in 0 .. (e - 1)
  OBVIOUS

\* A product with a positive number.
LEMMA AtLeastOnce ==
  ASSUME NEW e \in Nat \ {0}, NEW x \in Int, x >= 1
  PROVE  e * x >= e
  OBVIOUS

\* A product with a difference.
LEMMA Distributes ==
  ASSUME NEW e \in Nat \ {0}, NEW x \in Int, NEW y \in Int
  PROVE  e * (x - y) = (e * x) - (e * y) /\ e * x \in Int
  OBVIOUS

\* The remainder is the only one.
LEMMA Remainder ==
  ASSUME NEW e \in Nat \ {0}, NEW i \in Nat, NEW q \in Nat, NEW r \in 0 .. (e - 1), i = (e * q) + r
  PROVE  (i % e) = r
  <1> DEFINE d == i \div e
             m == i % e
  <1>1. i = (e * d) + m /\ d \in Nat /\ m \in 0 .. (e - 1)
    BY Divided
  <1> HIDE DEF d, m
  <1>2. /\ e * (q - d) = (e * q) - (e * d) /\ e * q \in Int /\ e * d \in Int
        /\ e * (d - q) = (e * d) - (e * q)
    BY <1>1, Distributes
  <1>3. q - d >= 1 => e * (q - d) >= e
    BY <1>1, AtLeastOnce
  <1>4. d - q >= 1 => e * (d - q) >= e
    BY <1>1, AtLeastOnce
  <1>5. q = d
    <2>1. CASE q - d >= 1
      <3> DEFINE x == e * q
                 y == e * d
      <3>1. x - y >= e /\ x \in Int /\ y \in Int /\ i = x + r /\ i = y + m
        BY <1>1, <1>2, <1>3, <2>1
      <3> HIDE DEF x, y
      <3> QED
        BY <1>1, <3>1
    <2>2. CASE d - q >= 1
      <3> DEFINE x == e * q
                 y == e * d
      <3>1. y - x >= e /\ x \in Int /\ y \in Int /\ i = x + r /\ i = y + m
        BY <1>1, <1>2, <1>4, <2>2
      <3> HIDE DEF x, y
      <3> QED
        BY <1>1, <3>1
    <2> QED
      BY <1>1, <2>1, <2>2
  <1>6. m = r
    <2> DEFINE x == e * q
    <2>1. x \in Int /\ i = x + r /\ i = x + m
      BY <1>1, <1>2, <1>5
    <2> HIDE DEF x
    <2> QED
      BY <1>1, <2>1
  <1> QED
    BY <1>6 DEF m

\* An iteration less its remainder is a multiple of the interval.
LEMMA MultipleBelow ==
  ASSUME NEW e \in Nat \ {0}, NEW i \in Nat
  PROVE  ((i - (i % e)) % e) = 0
  <1> DEFINE d == i \div e
             m == i % e
  <1>1. i = (e * d) + m /\ d \in Nat /\ m \in 0 .. (e - 1) /\ i - m \in Nat /\ m <= i
    <2>1. i = (e * d) + m /\ d \in Nat /\ m \in 0 .. (e - 1)
      BY Divided
    <2>2. (i % e) <= i /\ (i % e) \in Nat
      OBVIOUS
    <2>3. m <= i /\ m \in Nat
      BY <2>2
    <2> HIDE DEF d, m
    <2> QED
      BY <2>1, <2>3
  <1> HIDE DEF d, m
  <1>2. e * d \in Int
    BY <1>1
  <1>3. i - m = (e * d) + 0
    <2> DEFINE x == e * d
    <2> HIDE DEF x
    <2>1. x \in Int /\ i = x + m
      BY <1>1, <1>2 DEF x
    <2>2. i - m = x + 0
      BY <1>1, <2>1
    <2> QED
      BY <2>2 DEF x
  <1>4. ((i - m) % e) = 0
    BY <1>1, <1>3, Remainder
  <1> QED
    BY <1>4 DEF m

\* So is the multiple before one.
LEMMA MultipleBefore ==
  ASSUME NEW e \in Nat \ {0}, NEW i \in Nat, (i % e) = 0, i >= e
  PROVE  ((i - e) % e) = 0
  <1> DEFINE d == i \div e
  <1>1. i = (e * d) + 0 /\ d \in Nat
    <2> DEFINE m == i % e
    <2>1. i = (e * d) + m /\ d \in Nat /\ m = 0
      BY Divided
    <2> QED
      BY <2>1
  <1> HIDE DEF d
  <1>2. d # 0
    <2>1. e * 0 = 0
      OBVIOUS
    <2> QED
      BY <1>1, <2>1
  <1>3. e * (d - 1) = (e * d) - (e * 1) /\ e * 1 = e /\ e * d \in Int
    BY <1>1, Distributes
  <1>4. i - e = (e * (d - 1)) + 0
    <2> DEFINE x == e * d
               y == e * (d - 1)
    <2>1. y = x - e /\ i = x + 0 /\ x \in Int /\ y \in Int
      BY <1>1, <1>3
    <2> HIDE DEF x, y
    <2>2. i - e = y + 0
      BY <2>1
    <2> QED
      BY <2>2 DEF y
  <1>5. i - e \in Nat /\ d - 1 \in Nat
    BY <1>1, <1>2
  <1> QED
    <2> DEFINE q == d - 1
    <2>1. q \in Nat /\ i - e \in Nat /\ 0 \in 0 .. (e - 1) /\ i - e = (e * q) + 0
      BY <1>4, <1>5
    <2> HIDE DEF q
    <2> QED
      BY <2>1, Remainder
=============================================================================

---------------------------- MODULE DocxPagesProofs ----------------------------
(***************************************************************************)
(* For every document, any number of pages and of processes, and whatever  *)
(* dies or fails on the way: the shared copy of a Word document is there   *)
(* for every process that is about to open it (PoolInv); when the call has *)
(* ended nothing is left on disk that could have been removed (LeftInv);   *)
(* and the answer made of pages has the texts of the pages that came back, *)
(* once and in the order of the document (OrderInv).                       *)
(***************************************************************************)
EXTENDS DocxPages, FiniteSetTheorems, TLAPS

-------------------------------------------------------------------------------
(***************************************************************************)
(* What Sorted() makes of a finite set with a strict total order.          *)
(***************************************************************************)

\* A set of naturals has a smallest member.
LEMMA SmallestIn ==
  ASSUME NEW S \in SUBSET Nat, S # {}
  PROVE  Smallest(S) \in S /\ \A y \in S : Smallest(S) <= y
<1>1. PICK m \in S : \A n \in S : ~ (<<n, m>> \in OpToRel(<, Nat))
  BY WFMin, NatLessThanWellFounded, Zenon
<1>2. \A n \in S : m <= n
  <2> SUFFICES ASSUME NEW n \in S, n < m PROVE FALSE
    OBVIOUS
  <2>1. m \in Nat /\ n \in Nat
    OBVIOUS
  <2>2. <<n, m>> \in OpToRel(<, Nat)
    BY <2>1, Zenon DEF OpToRel
  <2> QED
    BY <1>1, <2>2
<1>3. \E n \in S : \A y \in S : n <= y
  BY <1>2
<1> QED
  BY <1>3 DEF Smallest

\* A strict total order of the members of S, as a set of pairs.
Orders(R, S) ==
  /\ \A x \in S : <<x, x>> \notin R
  /\ \A x, y \in S : x # y => <<x, y>> \in R \/ <<y, x>> \in R
  /\ \A x, y, z \in S : <<x, y>> \in R /\ <<y, z>> \in R => <<x, z>> \in R

Below(x, S, R) == {y \in S : <<y, x>> \in R}

\* A member has fewer members below it than one above it.
LEMMA BelowGrows ==
  ASSUME NEW S, IsFiniteSet(S), NEW R, Orders(R, S), NEW x \in S
  PROVE  /\ IsFiniteSet(Below(x, S, R))
         /\ Cardinality(Below(x, S, R)) \in Nat
         /\ Cardinality(Below(x, S, R)) < Cardinality(S)
         /\ \A y \in S : <<x, y>> \in R =>
              Cardinality(Below(x, S, R)) < Cardinality(Below(y, S, R))
<1>1. Below(x, S, R) \in SUBSET S /\ Below(x, S, R) # S /\ x \notin Below(x, S, R)
  BY DEF Below, Orders
<1>2. /\ IsFiniteSet(Below(x, S, R)) /\ Cardinality(Below(x, S, R)) <= Cardinality(S)
      /\ Cardinality(S) # Cardinality(Below(x, S, R))
  BY <1>1, FS_Subset
<1>3. Cardinality(Below(x, S, R)) \in Nat /\ Cardinality(S) \in Nat
  BY <1>2, FS_CardinalityType
<1>4. ASSUME NEW y \in S, <<x, y>> \in R
      PROVE  Cardinality(Below(x, S, R)) < Cardinality(Below(y, S, R))
  <2>1. Below(x, S, R) \in SUBSET Below(y, S, R) /\ Below(x, S, R) # Below(y, S, R)
    BY <1>1, <1>4 DEF Below, Orders
  <2>2. Below(y, S, R) \in SUBSET S
    BY DEF Below
  <2>3. IsFiniteSet(Below(y, S, R))
    BY <2>2, FS_Subset
  <2>4. /\ Cardinality(Below(x, S, R)) <= Cardinality(Below(y, S, R))
        /\ Cardinality(Below(x, S, R)) # Cardinality(Below(y, S, R))
        /\ Cardinality(Below(y, S, R)) \in Nat
    BY <2>1, <2>3, FS_Subset, FS_CardinalityType
  <2> QED
    BY <1>3, <2>4
<1> QED
  BY <1>2, <1>3, <1>4

\* Members with the same rank are the same.
LEMMA SameRank ==
  ASSUME NEW S, IsFiniteSet(S), NEW R, Orders(R, S), NEW x \in S, NEW y \in S,
         Cardinality(Below(x, S, R)) = Cardinality(Below(y, S, R))
  PROVE  x = y
<1> SUFFICES ASSUME x # y PROVE FALSE
  OBVIOUS
<1>1. <<x, y>> \in R \/ <<y, x>> \in R
  BY DEF Orders
<1>2. Cardinality(Below(x, S, R)) < Cardinality(Below(y, S, R))
        \/ Cardinality(Below(y, S, R)) < Cardinality(Below(x, S, R))
  BY <1>1, BelowGrows
<1>3. Cardinality(Below(x, S, R)) \in Nat
  BY BelowGrows
<1> QED
  BY <1>2, <1>3

\* In a finite strict total order every rank is taken.
LEMMA RankTaken ==
  ASSUME NEW S, IsFiniteSet(S), NEW R, Orders(R, S),
         NEW k \in 1 .. Cardinality(S)
  PROVE  \E x \in S : Cardinality(Below(x, S, R)) = k - 1
<1> DEFINE T == 0 .. Cardinality(S) - 1
           f == [x \in S |-> Cardinality(Below(x, S, R))]
<1>1. Cardinality(S) \in Nat
  BY FS_CardinalityType
<1>2. ASSUME NEW x \in S PROVE f[x] \in T
  <2>1. /\ Cardinality(Below(x, S, R)) \in Nat
        /\ Cardinality(Below(x, S, R)) < Cardinality(S)
    BY BelowGrows
  <2> QED
    BY <1>1, <2>1
<1>3. ASSUME NEW x \in S, NEW y \in S, f[x] = f[y] PROVE x = y
  <2>1. Cardinality(Below(x, S, R)) = Cardinality(Below(y, S, R))
    BY <1>3
  <2> QED
    BY <2>1, SameRank
<1>4. f \in [S -> T]
  BY <1>2
<1> HIDE DEF f
<1>5. f \in Injection(S, T)
  <2>1. DOMAIN f = S
    BY <1>4
  <2> QED
    BY <1>3, <1>4, <2>1 DEF Injection, IsInjective
<1>6. IsFiniteSet(T) /\ Cardinality(T) = Cardinality(S)
  <2>1. 0 \in Int /\ Cardinality(S) - 1 \in Int
    BY <1>1
  <2> QED
    BY <1>1, <2>1, FS_Interval
<1>7. k - 1 \in T
  BY <1>1
<1>8. f \in Surjection(S, T)
  <2> HIDE DEF T
  <2> QED
    BY <1>5, <1>6, FS_Injection
<1>9. PICK x \in S : f[x] = k - 1
  <2> HIDE DEF T
  <2> QED
    BY <1>7, <1>8 DEF Surjection
<1> QED
  BY <1>9 DEF f

\* Sorted(), with the order given as a set of pairs.
Ranked(S, R) ==
  [k \in 1 .. Cardinality(S) |->
     CHOOSE x \in S : Cardinality(Below(x, S, R)) = k - 1]

\* What sorting does: every member once, in its order, at its rank.
LEMMA RankedFacts ==
  ASSUME NEW S, IsFiniteSet(S), NEW R, Orders(R, S)
  PROVE  /\ Ranked(S, R) \in Seq(S)
         /\ Cardinality(S) \in Nat
         /\ Len(Ranked(S, R)) = Cardinality(S)
         /\ DOMAIN Ranked(S, R) = 1 .. Cardinality(S)
         /\ ToSet(Ranked(S, R)) = S
         /\ \A k \in 1 .. Cardinality(S) : Cardinality(Below(Ranked(S, R)[k], S, R)) = k - 1
         /\ \A x \in S : Ranked(S, R)[Cardinality(Below(x, S, R)) + 1] = x
         /\ \A i, j \in 1 .. Cardinality(S) :
              i < j => <<Ranked(S, R)[i], Ranked(S, R)[j]>> \in R
<1> DEFINE r == Ranked(S, R)
           N == Cardinality(S)
           rank(x) == Cardinality(Below(x, S, R))
<1>1. N \in Nat
  BY FS_CardinalityType
<1>2. ASSUME NEW k \in 1 .. N
      PROVE  r[k] \in S /\ rank(r[k]) = k - 1
  <2>2. \E x \in S : rank(x) = k - 1
    BY RankTaken
  <2>3. r[k] = CHOOSE x \in S : rank(x) = k - 1
    BY DEF Ranked
  <2> HIDE DEF r, rank
  <2> QED
    BY <2>2, <2>3
<1>3. DOMAIN r = 1 .. N /\ r \in [1 .. N -> S]
  <2>1. r = [k \in 1 .. N |-> r[k]]
    BY DEF Ranked
  <2> HIDE DEF r, N
  <2> QED
    BY <1>2, <2>1
<1>4. r \in Seq(S) /\ Len(r) = N
  <2> HIDE DEF r, N
  <2> QED
    BY <1>1, <1>3
<1>5. ASSUME NEW x \in S
      PROVE  rank(x) + 1 \in 1 .. N /\ r[rank(x) + 1] = x
  <2>1. rank(x) \in Nat /\ rank(x) < N
    BY BelowGrows
  <2>2. rank(x) + 1 \in 1 .. N /\ (rank(x) + 1) - 1 = rank(x)
    <3> HIDE DEF rank, N
    <3> QED
      BY <1>1, <2>1
  <2> DEFINE k == rank(x) + 1
  <2>3. r[k] \in S /\ rank(r[k]) = rank(x)
    <3>1. k \in 1 .. N /\ k - 1 = rank(x)
      BY <2>2
    <3> HIDE DEF k, r, rank, N
    <3> QED
      BY <1>2, <3>1
  <2>4. r[k] = x
    <3> HIDE DEF k, r
    <3> QED
      BY <2>3, SameRank
  <2> QED
    BY <2>2, <2>4
<1>6. ToSet(r) = S
  <2> HIDE DEF r, N, rank
  <2> QED
    BY <1>3, <1>5 DEF ToSet
<1>7. ASSUME NEW i \in 1 .. N, NEW j \in 1 .. N, i < j
      PROVE  <<r[i], r[j]>> \in R
  <2>1. r[i] \in S /\ r[j] \in S /\ rank(r[i]) = i - 1 /\ rank(r[j]) = j - 1
    BY <1>2
  <2> HIDE DEF r
  <2>2. ~ (rank(r[j]) < rank(r[i])) /\ rank(r[i]) # rank(r[j])
    <3> HIDE DEF rank
    <3> QED
      BY <1>7, <2>1
  <2>3. <<r[j], r[i]>> \notin R
    BY <2>1, <2>2, BelowGrows
  <2>4. r[i] # r[j]
    BY <2>2
  <2> QED
    BY <2>1, <2>3, <2>4 DEF Orders
<1> QED
  BY <1>1, <1>2, <1>3, <1>4, <1>5, <1>6, <1>7

\* The pairs of items in the order of the document.
DocOrder(S) == {r \in S \X S : Before(r[1], r[2])}

\* Items in the order of the document.
LEMMA SortedItems ==
  ASSUME NEW S \in SUBSET Items, IsFiniteSet(S)
  PROVE  /\ Cardinality(S) \in Nat
         /\ Sorted(S, Before) \in Seq(S)
         /\ Len(Sorted(S, Before)) = Cardinality(S)
         /\ DOMAIN Sorted(S, Before) = 1 .. Cardinality(S)
         /\ ToSet(Sorted(S, Before)) = S
         /\ \A x \in S : Sorted(S, Before)[Cardinality(Below(x, S, DocOrder(S))) + 1] = x
         /\ \A i, j \in 1 .. Cardinality(S) :
              i < j => Before(Sorted(S, Before)[i], Sorted(S, Before)[j])
<1> DEFINE R == DocOrder(S)
<1>1. \A x, y \in S : <<x, y>> \in R <=> Before(x, y)
  BY DEF DocOrder
<1>2. \A x \in S : x[1] \in Nat /\ x[2] \in Nat /\ x = <<x[1], x[2]>>
  BY BoundsAssumption DEF Items
<1>3. Orders(R, S)
  <2> HIDE DEF R
  <2>1. \A x \in S : ~ Before(x, x)
    BY <1>2 DEF Before
  <2>2. \A x, y \in S : x # y => Before(x, y) \/ Before(y, x)
    BY <1>2 DEF Before
  <2>3. \A x, y, z \in S : Before(x, y) /\ Before(y, z) => Before(x, z)
    BY <1>2 DEF Before
  <2> QED
    BY <1>1, <2>1, <2>2, <2>3 DEF Orders
<1>4. \A x \in S : Below(x, S, R) = {y \in S : Before(y, x)}
  BY <1>1 DEF Below
<1>5. Sorted(S, Before) = Ranked(S, R)
  <2> DEFINE E(k) == CHOOSE x \in S : Cardinality({y \in S : Before(y, x)}) = k - 1
             G(k) == CHOOSE x \in S : Cardinality(Below(x, S, R)) = k - 1
  <2>1. ASSUME NEW k PROVE E(k) = G(k)
    <3>1. \A x : x \in S /\ Cardinality({y \in S : Before(y, x)}) = k - 1
                 <=> x \in S /\ Cardinality(Below(x, S, R)) = k - 1
      BY <1>4
    <3> QED
      BY <3>1
  <2>2. /\ Sorted(S, Before) = [k \in 1 .. Cardinality(S) |-> E(k)]
        /\ Ranked(S, R) = [k \in 1 .. Cardinality(S) |-> G(k)]
    BY DEF Sorted, Ranked
  <2> HIDE DEF E, G
  <2> QED
    BY <2>1, <2>2
<1>6. /\ Cardinality(S) \in Nat
      /\ Ranked(S, R) \in Seq(S)
      /\ Len(Ranked(S, R)) = Cardinality(S)
      /\ DOMAIN Ranked(S, R) = 1 .. Cardinality(S)
      /\ ToSet(Ranked(S, R)) = S
  <2> HIDE DEF R
  <2> QED
    BY <1>3, RankedFacts
<1>7. \A x \in S : Ranked(S, R)[Cardinality(Below(x, S, R)) + 1] = x
  <2> HIDE DEF R
  <2> QED
    BY <1>3, RankedFacts
<1>8. \A i, j \in 1 .. Cardinality(S) : i < j => Before(Ranked(S, R)[i], Ranked(S, R)[j])
  <2> HIDE DEF R
  <2>1. \A i, j \in 1 .. Cardinality(S) : i < j => <<Ranked(S, R)[i], Ranked(S, R)[j]>> \in R
    BY <1>3, RankedFacts
  <2>2. \A i \in 1 .. Cardinality(S) : Ranked(S, R)[i] \in S
    BY <1>6
  <2> QED
    BY <1>1, <2>1, <2>2
<1> QED
  BY <1>5, <1>6, <1>7, <1>8

\* Places in ascending order.
LEMMA SortedPlaces ==
  ASSUME NEW S \in SUBSET Nat, IsFiniteSet(S)
  PROVE  /\ Cardinality(S) \in Nat
         /\ DOMAIN Sorted(S, <) = 1 .. Cardinality(S)
         /\ ToSet(Sorted(S, <)) = S
         /\ \A k \in 1 .. Cardinality(S) : Sorted(S, <)[k] \in S
         /\ \A i, j \in 1 .. Cardinality(S) : i < j => Sorted(S, <)[i] < Sorted(S, <)[j]
<1> DEFINE R == {r \in S \X S : r[1] < r[2]}
<1>1. \A x, y \in S : <<x, y>> \in R <=> x < y
  OBVIOUS
<1>2. \A x \in S : x \in Nat
  OBVIOUS
<1> HIDE DEF R
<1>3. Orders(R, S)
  <2>1. \A x \in S : <<x, x>> \notin R
    BY <1>1, <1>2
  <2>2. \A x, y \in S : x # y => <<x, y>> \in R \/ <<y, x>> \in R
    BY <1>1, <1>2
  <2>3. \A x, y, z \in S : <<x, y>> \in R /\ <<y, z>> \in R => <<x, z>> \in R
    BY <1>1, <1>2
  <2> QED
    BY <2>1, <2>2, <2>3 DEF Orders
<1>4. \A x \in S : Below(x, S, R) = {y \in S : y < x}
  BY <1>1 DEF Below
<1>5. Sorted(S, <) = Ranked(S, R)
  <2> DEFINE E(k) == CHOOSE x \in S : Cardinality({y \in S : y < x}) = k - 1
             G(k) == CHOOSE x \in S : Cardinality(Below(x, S, R)) = k - 1
  <2>1. ASSUME NEW k PROVE E(k) = G(k)
    <3>1. \A x : x \in S /\ Cardinality({y \in S : y < x}) = k - 1
                 <=> x \in S /\ Cardinality(Below(x, S, R)) = k - 1
      BY <1>4
    <3> QED
      BY <3>1
  <2>2. /\ Sorted(S, <) = [k \in 1 .. Cardinality(S) |-> E(k)]
        /\ Ranked(S, R) = [k \in 1 .. Cardinality(S) |-> G(k)]
    BY DEF Sorted, Ranked
  <2> HIDE DEF E, G
  <2> QED
    BY <2>1, <2>2
<1>6. /\ Cardinality(S) \in Nat
      /\ Ranked(S, R) \in Seq(S)
      /\ Len(Ranked(S, R)) = Cardinality(S)
      /\ DOMAIN Ranked(S, R) = 1 .. Cardinality(S)
      /\ ToSet(Ranked(S, R)) = S
  BY <1>3, RankedFacts
<1>7. \A k \in 1 .. Cardinality(S) : Ranked(S, R)[k] \in S
  BY <1>6
<1>8. \A i, j \in 1 .. Cardinality(S) : i < j => Ranked(S, R)[i] < Ranked(S, R)[j]
  <2>1. \A i, j \in 1 .. Cardinality(S) : i < j => <<Ranked(S, R)[i], Ranked(S, R)[j]>> \in R
    BY <1>3, RankedFacts
  <2> QED
    BY <1>1, <1>7, <2>1
<1> QED
  BY <1>5, <1>6, <1>7, <1>8

\* The elements of a are those of s at the given places, in their order.
Taken(a, s, places) ==
  /\ \E n \in Nat : DOMAIN a = 1 .. n
  /\ a = [k \in DOMAIN a |-> a[k]]
  /\ \A k \in DOMAIN a : \E i \in places : a[k] = s[i]
  /\ \A i \in places : \E k \in DOMAIN a : a[k] = s[i]
  /\ \A k, m \in DOMAIN a : k < m =>
       \E i, j \in places : i < j /\ a[k] = s[i] /\ a[m] = s[j]

\* At() takes what it should.
LEMMA AtFacts ==
  ASSUME NEW N \in Nat, NEW places \in SUBSET (1 .. N), NEW s
  PROVE  Taken(At(s, places), s, places)
<1> DEFINE spots == Sorted(places, <)
           C == Cardinality(places)
           a == At(s, places)
<1>1. IsFiniteSet(places) /\ places \in SUBSET Nat
  <2>1. IsFiniteSet(1 .. N)
    BY FS_Interval
  <2>2. IsFiniteSet(places)
    BY <2>1, FS_Subset
  <2> QED
    BY <2>2
<1>2. /\ C \in Nat /\ DOMAIN spots = 1 .. C /\ ToSet(spots) = places
      /\ \A k \in 1 .. C : spots[k] \in places
      /\ \A i, j \in 1 .. C : i < j => spots[i] < spots[j]
  BY <1>1, SortedPlaces
<1>3. a = [k \in 1 .. C |-> s[spots[k]]]
  BY <1>2 DEF At
<1> HIDE DEF spots, C, a
<1>4. DOMAIN a = 1 .. C /\ \A k \in 1 .. C : a[k] = s[spots[k]]
  BY <1>3
<1>5. \A k \in DOMAIN a : \E i \in places : a[k] = s[i]
  BY <1>2, <1>4
<1>6. \A i \in places : \E k \in DOMAIN a : a[k] = s[i]
  <2> TAKE i \in places
  <2>1. PICK k \in 1 .. C : spots[k] = i
    BY <1>2 DEF ToSet
  <2> QED
    BY <1>4, <2>1
<1>7. ASSUME NEW k \in DOMAIN a, NEW m \in DOMAIN a, k < m
      PROVE  \E i, j \in places : i < j /\ a[k] = s[i] /\ a[m] = s[j]
  <2>1. spots[k] \in places /\ spots[m] \in places /\ spots[k] < spots[m]
    BY <1>2, <1>4, <1>7
  <2>2. a[k] = s[spots[k]] /\ a[m] = s[spots[m]]
    BY <1>4
  <2> QED
    BY <2>1, <2>2
<1>8. /\ \E n \in Nat : DOMAIN a = 1 .. n
      /\ a = [k \in DOMAIN a |-> a[k]]
  BY <1>2, <1>3, <1>4
<1> QED
  BY <1>5, <1>6, <1>7, <1>8 DEF a, Taken

(***************************************************************************)
(* What a process makes of a page: of the items S of the page, the texts   *)
(* and the pictures that could be saved, the texts in their order, and all *)
(* of it in the order of the document when every picture could be saved.   *)
(***************************************************************************)
PicsOf(S) == {x \in S : IsPic(x)}

\* An item is not before itself, nor before what is before it.
LEMMA BeforeIsStrict ==
  ASSUME NEW x \in Items, NEW y \in Items
  PROVE  ~ Before(x, x) /\ (Before(x, y) => ~ Before(y, x))
<1>1. x[1] \in Nat /\ x[2] \in Nat /\ y[1] \in Nat /\ y[2] \in Nat
  BY BoundsAssumption DEF Items
<1> QED
  BY <1>1 DEF Before

\* The pictures up to a picture are as many as its rank.
LEMMA RankOfPicture ==
  ASSUME NEW S \in SUBSET Items, IsFiniteSet(S),
         NEW i \in 1 .. Cardinality(S), IsPic(Sorted(S, Before)[i])
  PROVE  LET s == Sorted(S, Before)
         IN  Cardinality({j \in 1 .. i : IsPic(s[j])}) =
               Cardinality(Below(s[i], PicsOf(S), DocOrder(PicsOf(S)))) + 1
<1> DEFINE s == Sorted(S, Before)
           P == PicsOf(S)
           x == s[i]
           J == {j \in 1 .. i : IsPic(s[j])}
           B == Below(x, P, DocOrder(P))
           f == [j \in J |-> s[j]]
<1>1. /\ Cardinality(S) \in Nat /\ \A k \in 1 .. Cardinality(S) : s[k] \in S
      /\ ToSet(s) = S /\ DOMAIN s = 1 .. Cardinality(S)
      /\ \A k, m \in 1 .. Cardinality(S) : k < m => Before(s[k], s[m])
  <2>1. /\ Cardinality(S) \in Nat
        /\ ToSet(s) = S /\ DOMAIN s = 1 .. Cardinality(S)
        /\ \A k, m \in 1 .. Cardinality(S) : k < m => Before(s[k], s[m])
    BY SortedItems
  <2>2. \A k \in 1 .. Cardinality(S) : s[k] \in S
    <3> HIDE DEF s
    <3> QED
      BY <2>1 DEF ToSet
  <2> QED
    BY <2>1, <2>2
<1>2. \A y \in S : y[1] \in Nat /\ y[2] \in Nat /\ y = <<y[1], y[2]>>
  BY BoundsAssumption DEF Items
<1> HIDE DEF s
<1>3. /\ P \subseteq S /\ x \in P /\ IsFiniteSet(P)
      /\ \A y \in P : y \in B <=> Before(y, x)
      /\ B \subseteq P /\ IsFiniteSet(B)
  <2>1. P \in SUBSET S /\ x \in P
    BY <1>1 DEF PicsOf, s
  <2>2. IsFiniteSet(P)
    BY <2>1, FS_Subset
  <2>3. \A y \in P : y \in B <=> Before(y, x)
    BY <2>1 DEF Below, DocOrder
  <2>4. B \in SUBSET P
    BY DEF Below
  <2>5. IsFiniteSet(B)
    BY <2>2, <2>4, FS_Subset
  <2> QED
    BY <2>1, <2>2, <2>3, <2>4, <2>5
<1>4. \A y, z \in S : ~ Before(y, y) /\ (Before(y, z) => ~ Before(z, y))
  BY BeforeIsStrict
<1>13. x \notin B
  BY <1>3, <1>4
<1>5. J \in SUBSET (1 .. Cardinality(S)) /\ i \in 1 .. Cardinality(S)
  BY <1>1
<1>6. \A j \in J : s[j] \in B \cup {x}
  <2> TAKE j \in J
  <2>1. j \in 1 .. Cardinality(S) /\ j <= i /\ IsPic(s[j])
    BY <1>5
  <2>2. s[j] \in P
    BY <1>1, <2>1 DEF PicsOf
  <2>3. j < i => Before(s[j], x)
    BY <1>1, <1>5, <2>1
  <2>4. j = i => s[j] = x
    OBVIOUS
  <2> QED
    BY <1>3, <1>5, <2>1, <2>2, <2>3, <2>4
<1>7. \A j, k \in J : s[j] = s[k] => j = k
  <2> SUFFICES ASSUME NEW j \in J, NEW k \in J, s[j] = s[k], j < k PROVE FALSE
    BY <1>5
  <2>1. j \in 1 .. Cardinality(S) /\ k \in 1 .. Cardinality(S)
    BY <1>5
  <2>2. Before(s[j], s[k]) /\ s[j] \in S /\ s[k] \in S
    BY <1>1, <2>1
  <2> QED
    BY <1>4, <2>2
<1>8. \A y \in B \cup {x} : \E j \in J : s[j] = y
  <2> TAKE y \in B \cup {x}
  <2>1. y \in P /\ y \in S /\ IsPic(y) /\ (y = x \/ Before(y, x))
    BY <1>3 DEF PicsOf
  <2>2. PICK j \in 1 .. Cardinality(S) : s[j] = y
    BY <1>1, <2>1 DEF ToSet
  <2>3. j <= i
    <3> SUFFICES ASSUME i < j PROVE FALSE
      BY <1>5, <2>2
    <3>1. Before(x, y)
      BY <1>1, <1>5, <2>2
    <3>2. x \in S
      BY <1>3
    <3> QED
      BY <1>4, <2>1, <3>1, <3>2
  <2>4. j \in J
    BY <1>5, <2>1, <2>2, <2>3
  <2> QED
    BY <2>2, <2>4
<1>9. f \in Bijection(J, B \cup {x})
  <2>1. f \in [J -> B \cup {x}]
    BY <1>6
  <2>2. \A j, k \in J : f[j] = f[k] => j = k
    BY <1>7
  <2>3. \A y \in B \cup {x} : \E j \in J : f[j] = y
    BY <1>8
  <2> HIDE DEF f, J, B, x
  <2>4. DOMAIN f = J
    BY <2>1
  <2> QED
    BY <2>1, <2>2, <2>3, <2>4 DEF Bijection, Injection, Surjection, IsInjective
<1>10. IsFiniteSet(J)
  <2>1. IsFiniteSet(1 .. Cardinality(S))
    BY <1>1, FS_Interval
  <2> QED
    BY <1>5, <2>1, FS_Subset
<1>11. Cardinality(B \cup {x}) = Cardinality(J)
  <2> HIDE DEF f, J, B, x
  <2> QED
    BY <1>9, <1>10, FS_Bijection DEF ExistsBijection
<1>12. Cardinality(B \cup {x}) = Cardinality(B) + 1
  <2> HIDE DEF B, x
  <2> QED
    BY <1>3, <1>13, FS_AddElement
<1> QED
  BY <1>11, <1>12 DEF s

\* The page as a process has filled it.
LEMMA FilledFacts ==
  ASSUME NEW S \in SUBSET Items, IsFiniteSet(S), NEW ok \in SUBSET PicsOf(S)
  PROVE  LET f == Filled(Sorted(S, Before), Sorted(ok, Before))
         IN  /\ f \in Seq(S)
             /\ \A x \in ToSet(f) : IsPic(x) => x \in ok
             /\ S \ PicsOf(S) \subseteq ToSet(f)
             /\ \A i, j \in DOMAIN f :
                  i < j /\ ~ IsPic(f[i]) /\ ~ IsPic(f[j]) => Before(f[i], f[j])
             /\ ok = PicsOf(S) =>
                  \A i, j \in DOMAIN f : i < j => Before(f[i], f[j])
<1> DEFINE s == Sorted(S, Before)
           saved == Sorted(ok, Before)
           N == Cardinality(S)
           rank(i) == Cardinality({j \in 1 .. i : IsPic(s[j])})
           kept == {i \in DOMAIN s : IsPic(s[i]) => rank(i) <= Len(saved)}
           F == [i \in kept |-> IF IsPic(s[i]) THEN saved[rank(i)] ELSE s[i]]
           f == Filled(s, saved)
<1>1. /\ N \in Nat /\ s \in Seq(S) /\ ToSet(s) = S /\ DOMAIN s = 1 .. N
      /\ \A k \in 1 .. N : s[k] \in S
      /\ \A k, m \in 1 .. N : k < m => Before(s[k], s[m])
  <2>1. /\ N \in Nat /\ s \in Seq(S) /\ ToSet(s) = S /\ DOMAIN s = 1 .. N
        /\ \A k, m \in 1 .. N : k < m => Before(s[k], s[m])
    BY SortedItems
  <2>2. \A k \in 1 .. N : s[k] \in S
    <3> HIDE DEF s, N
    <3> QED
      BY <2>1
  <2> QED
    BY <2>1, <2>2
<1>2. ok \in SUBSET Items /\ ok \subseteq S /\ IsFiniteSet(ok)
  <2>1. ok \in SUBSET S
    BY DEF PicsOf
  <2>2. IsFiniteSet(ok)
    BY <2>1, FS_Subset
  <2> QED
    BY <2>1, <2>2
<1>3. /\ Cardinality(ok) \in Nat /\ Len(saved) = Cardinality(ok)
      /\ DOMAIN saved = 1 .. Cardinality(ok)
      /\ \A k \in 1 .. Cardinality(ok) : saved[k] \in ok
      /\ \A x \in ok : saved[Cardinality(Below(x, ok, DocOrder(ok))) + 1] = x
  <2>1. /\ Cardinality(ok) \in Nat /\ Len(saved) = Cardinality(ok) /\ saved \in Seq(ok)
        /\ DOMAIN saved = 1 .. Cardinality(ok)
        /\ \A x \in ok : saved[Cardinality(Below(x, ok, DocOrder(ok))) + 1] = x
    BY <1>2, SortedItems
  <2>2. \A k \in 1 .. Cardinality(ok) : saved[k] \in ok
    <3> HIDE DEF saved
    <3> QED
      BY <2>1
  <2> QED
    BY <2>1, <2>2
<1>4. f = At(F, kept)
  BY DEF Filled
<1>5. kept \in SUBSET (1 .. N) /\ DOMAIN F = kept
  BY <1>1
<1>6. \A i \in kept : F[i] = IF IsPic(s[i]) THEN saved[rank(i)] ELSE s[i]
  OBVIOUS
<1>7. \A i \in kept : IsPic(s[i]) => rank(i) <= Len(saved)
  OBVIOUS
<1>8. ASSUME NEW i \in 1 .. N, IsPic(s[i])
      PROVE  rank(i) = Cardinality(Below(s[i], PicsOf(S), DocOrder(PicsOf(S)))) + 1
  BY <1>8, RankOfPicture
<1>9. ASSUME NEW i \in 1 .. N, IsPic(s[i])
      PROVE  rank(i) \in Nat \ {0}
  <2> DEFINE J == {j \in 1 .. i : IsPic(s[j])}
  <2>1. J \in SUBSET (1 .. i) /\ i \in J
    BY <1>9
  <2>2. IsFiniteSet(1 .. i)
    BY FS_Interval
  <2> HIDE DEF J
  <2>3. IsFiniteSet(J) /\ J # {}
    BY <2>1, <2>2, FS_Subset
  <2>4. Cardinality(J) \in Nat \ {0}
    BY <2>3, FS_CardinalityType, FS_EmptySet
  <2> QED
    BY <2>4 DEF J
<1> HIDE DEF s, saved, N, rank, kept, F, f
<1>10. ASSUME NEW i \in kept
       PROVE  /\ F[i] \in S
              /\ IsPic(s[i]) => F[i] \in ok
              /\ ~ IsPic(s[i]) => F[i] = s[i]
  <2>1. i \in 1 .. N
    BY <1>5
  <2>2. CASE IsPic(s[i])
    <3>1. rank(i) \in 1 .. Cardinality(ok)
      BY <1>3, <1>7, <1>9, <2>1, <2>2
    <3> QED
      BY <1>2, <1>3, <1>6, <2>2, <3>1
  <2>3. CASE ~ IsPic(s[i])
    BY <1>1, <1>6, <2>1, <2>3
  <2> QED
    BY <2>2, <2>3
<1>11. \A x \in ok : IsPic(x)
  BY DEF PicsOf
<1>12. Taken(f, F, kept)
  <2>1. kept \in SUBSET (1 .. N) /\ N \in Nat
    BY <1>1, <1>5
  <2>2. Taken(At(F, kept), F, kept)
    BY <2>1, AtFacts
  <2> QED
    BY <1>4, <2>2
<1>18. f \in Seq(S)
  <2>1. PICK n \in Nat : DOMAIN f = 1 .. n /\ f = [k \in 1 .. n |-> f[k]]
    BY <1>12 DEF Taken
  <2>2. ASSUME NEW k \in 1 .. n PROVE f[k] \in S
    <3>1. PICK i \in kept : f[k] = F[i]
      BY <1>12, <2>1 DEF Taken
    <3> QED
      BY <1>10, <3>1
  <2> QED
    BY <2>1, <2>2
<1>13. \A x \in ToSet(f) : IsPic(x) => x \in ok
  <2> SUFFICES ASSUME NEW k \in DOMAIN f, IsPic(f[k]) PROVE f[k] \in ok
    BY DEF ToSet
  <2>1. PICK i \in kept : f[k] = F[i]
    BY <1>12 DEF Taken
  <2>2. i \in 1 .. N
    BY <1>5
  <2> QED
    BY <1>10, <2>1, <2>2
<1>14. S \ PicsOf(S) \subseteq ToSet(f)
  <2> SUFFICES ASSUME NEW x \in S, ~ IsPic(x) PROVE x \in ToSet(f)
    BY DEF PicsOf
  <2>1. PICK i \in 1 .. N : s[i] = x
    BY <1>1 DEF ToSet
  <2>2. i \in kept
    BY <1>1, <2>1 DEF kept
  <2>3. F[i] = x
    BY <1>10, <2>1, <2>2
  <2>4. PICK k \in DOMAIN f : f[k] = F[i]
    BY <1>12, <2>2 DEF Taken
  <2> QED
    BY <2>3, <2>4 DEF ToSet
<1>15. \A i \in DOMAIN f : f[i] \in S
  BY <1>18
<1>16. ASSUME NEW k \in DOMAIN f, NEW m \in DOMAIN f, k < m,
              ~ IsPic(f[k]), ~ IsPic(f[m])
       PROVE  Before(f[k], f[m])
  <2>1. PICK i \in kept, j \in kept : i < j /\ f[k] = F[i] /\ f[m] = F[j]
    BY <1>12, <1>16 DEF Taken
  <2>2. F[i] = s[i] /\ F[j] = s[j]
    BY <1>10, <1>11, <1>16, <2>1
  <2> QED
    BY <1>1, <1>5, <2>1, <2>2
<1>17. ASSUME ok = PicsOf(S)
       PROVE  \A i, j \in DOMAIN f : i < j => Before(f[i], f[j])
  <2>1. ASSUME NEW i \in kept PROVE F[i] = s[i]
    <3>1. i \in 1 .. N /\ s[i] \in S
      BY <1>1, <1>5
    <3>2. CASE IsPic(s[i])
      <4>1. s[i] \in ok
        BY <1>17, <3>1, <3>2 DEF PicsOf
      <4>2. saved[rank(i)] = s[i]
        BY <1>3, <1>8, <1>17, <3>1, <3>2, <4>1
      <4> QED
        BY <1>6, <3>2, <4>2
    <3> QED
      BY <1>10, <3>2
  <2> SUFFICES ASSUME NEW k \in DOMAIN f, NEW m \in DOMAIN f, k < m
               PROVE  Before(f[k], f[m])
    OBVIOUS
  <2>2. PICK i \in kept, j \in kept : i < j /\ f[k] = F[i] /\ f[m] = F[j]
    BY <1>12 DEF Taken
  <2>3. F[i] = s[i] /\ F[j] = s[j]
    BY <2>1
  <2> QED
    BY <1>1, <1>5, <2>2, <2>3
<1> QED
  BY <1>13, <1>14, <1>16, <1>17, <1>18 DEF f, s, saved

\* Steps of one lead from 0 to any number: induction for sets.
LEMMA UpTo ==
  ASSUME NEW N \in Nat, NEW P, 0 \in P,
         \A k \in 0 .. N - 1 : k \in P => k + 1 \in P
  PROVE  0 .. N \subseteq P
<1> DEFINE T == (0 .. N) \ P
<1> SUFFICES ASSUME T # {} PROVE FALSE
  OBVIOUS
<1>1. T \subseteq Nat
  OBVIOUS
<1>2. PICK m \in T : \A n \in T : ~ (<<n, m>> \in OpToRel(<, Nat))
  <2> HIDE DEF T
  <2> QED
    BY <1>1, WFMin, NatLessThanWellFounded, Zenon
<1>3. m \in 1 .. N
  OBVIOUS
<1>4. m - 1 \notin T
  <2>1. m - 1 \in Nat /\ m \in Nat /\ m - 1 < m
    BY <1>3
  <2>2. <<m - 1, m>> \in OpToRel(<, Nat)
    BY <2>1, Zenon DEF OpToRel
  <2> QED
    BY <1>2, <2>2
<1> QED
  BY <1>3, <1>4

-------------------------------------------------------------------------------
(***************************************************************************)
(* Joining the pages: what FlattenSeq() makes of lines that are in order,  *)
(* each in itself and each before the next, is in order.                   *)
(***************************************************************************)
Ordered(s, R) == \A i, j \in DOMAIN s : i < j => <<s[i], s[j]>> \in R

Follows(a, b, R) == \A x \in ToSet(a), y \in ToSet(b) : <<x, y>> \in R

\* Two sequences, one after the other.
LEMMA JoinTwo ==
  ASSUME NEW X, NEW a \in Seq(X), NEW b \in Seq(X)
  PROVE  /\ a \o b \in Seq(X)
         /\ ToSet(a \o b) = ToSet(a) \cup ToSet(b)
         /\ \A R : Ordered(a, R) /\ Ordered(b, R) /\ Follows(a, b, R) => Ordered(a \o b, R)
<1>1. /\ a \o b \in Seq(X) /\ Len(a \o b) = Len(a) + Len(b)
      /\ Len(a) \in Nat /\ Len(b) \in Nat
      /\ DOMAIN a = 1 .. Len(a) /\ DOMAIN b = 1 .. Len(b)
      /\ DOMAIN (a \o b) = 1 .. Len(a) + Len(b)
  OBVIOUS
<1>2. /\ \A i \in 1 .. Len(a) : (a \o b)[i] = a[i]
      /\ \A i \in Len(a) + 1 .. Len(a) + Len(b) : (a \o b)[i] = b[i - Len(a)]
  OBVIOUS
<1>3. \A i \in 1 .. Len(b) : (a \o b)[i + Len(a)] = b[i]
  OBVIOUS
<1> DEFINE c == a \o b
<1> HIDE DEF c
<1>4. ToSet(c) = ToSet(a) \cup ToSet(b)
  <2>1. ASSUME NEW i \in 1 .. Len(a) + Len(b)
        PROVE  c[i] \in ToSet(a) \cup ToSet(b)
    <3>1. i \in 1 .. Len(a) \/ (i \in Len(a) + 1 .. Len(a) + Len(b) /\ i - Len(a) \in 1 .. Len(b))
      BY <1>1
    <3> QED
      BY <1>1, <1>2, <3>1 DEF c, ToSet
  <2>2. ASSUME NEW i \in 1 .. Len(a) PROVE a[i] \in ToSet(c)
    <3>1. i \in DOMAIN c /\ c[i] = a[i]
      BY <1>1, <1>2 DEF c
    <3> QED
      BY <3>1 DEF ToSet
  <2>3. ASSUME NEW i \in 1 .. Len(b) PROVE b[i] \in ToSet(c)
    <3>1. i + Len(a) \in DOMAIN c /\ c[i + Len(a)] = b[i]
      BY <1>1, <1>3 DEF c
    <3> QED
      BY <3>1 DEF ToSet
  <2>4. DOMAIN c = 1 .. Len(a) + Len(b)
    BY <1>1 DEF c
  <2> QED
    BY <1>1, <2>1, <2>2, <2>3, <2>4 DEF ToSet
<1>5. ASSUME NEW R, Ordered(a, R), Ordered(b, R), Follows(a, b, R)
      PROVE  Ordered(c, R)
  <2> SUFFICES ASSUME NEW i \in 1 .. Len(a) + Len(b), NEW j \in 1 .. Len(a) + Len(b), i < j
               PROVE  <<c[i], c[j]>> \in R
    BY <1>1 DEF c, Ordered
  <2>1. CASE j <= Len(a)
    <3>1. i \in DOMAIN a /\ j \in DOMAIN a /\ c[i] = a[i] /\ c[j] = a[j]
      BY <1>1, <1>2, <2>1 DEF c
    <3> QED
      BY <1>5, <3>1 DEF Ordered
  <2>2. CASE i > Len(a)
    <3>1. /\ i - Len(a) \in DOMAIN b /\ j - Len(a) \in DOMAIN b
          /\ i - Len(a) < j - Len(a)
          /\ i \in Len(a) + 1 .. Len(a) + Len(b) /\ j \in Len(a) + 1 .. Len(a) + Len(b)
      BY <1>1, <2>2
    <3>2. c[i] = b[i - Len(a)] /\ c[j] = b[j - Len(a)]
      BY <1>2, <3>1 DEF c
    <3> QED
      BY <1>5, <3>1, <3>2 DEF Ordered
  <2>3. CASE i <= Len(a) /\ j > Len(a)
    <3>1. /\ i \in DOMAIN a /\ j - Len(a) \in DOMAIN b
          /\ j \in Len(a) + 1 .. Len(a) + Len(b)
      BY <1>1, <2>3
    <3>2. c[i] = a[i] /\ c[j] = b[j - Len(a)]
      BY <1>1, <1>2, <3>1 DEF c
    <3>3. a[i] \in ToSet(a) /\ b[j - Len(a)] \in ToSet(b)
      BY <3>1 DEF ToSet
    <3> QED
      BY <1>5, <3>2, <3>3 DEF Follows
  <2> QED
    BY <1>1, <2>1, <2>2, <2>3
<1> QED
  BY <1>1, <1>4, <1>5 DEF c

\* f[i] is what the first i lines are joined to.
Joins(f, s, N) ==
  \A i \in 1 .. N : f[i] = IF i = 1 THEN s[i] ELSE f[i - 1] \o s[i]

\* The function FlattenSeq() defines by recursion.
LEMMA JoinsFound ==
  ASSUME NEW X, NEW s \in Seq(Seq(X)), NEW N \in Nat, N = Len(s), N > 0
  PROVE  \E f \in [1 .. N -> Seq(X)] : Joins(f, s, N)
<1> DEFINE D == {m \in 0 .. N - 1 : \E f \in [1 .. m + 1 -> Seq(X)] : Joins(f, s, m + 1)}
<1>0. \A i \in 1 .. N : s[i] \in Seq(X)
  OBVIOUS
<1>1. 0 \in D
  <2> DEFINE f == [i \in 1 .. 0 + 1 |-> s[1]]
  <2>1. 0 \in 0 .. N - 1
    OBVIOUS
  <2>2. f \in [1 .. 0 + 1 -> Seq(X)]
    BY <1>0
  <2>3. Joins(f, s, 0 + 1)
    BY DEF Joins
  <2> QED
    BY <2>1, <2>2, <2>3
<1>2. ASSUME NEW m \in 0 .. (N - 1) - 1, m \in D PROVE m + 1 \in D
  <2>1. PICK f \in [1 .. m + 1 -> Seq(X)] : Joins(f, s, m + 1)
    BY <1>2
  <2> DEFINE n == m + 1
             v == f[n] \o s[n + 1]
             h == [i \in 1 .. n + 1 |-> IF i = n + 1 THEN v ELSE f[i]]
  <2>2. n \in 1 .. N - 1 /\ n + 1 \in 1 .. N /\ n \in Nat /\ n \in 0 .. N - 1
    OBVIOUS
  <2>3. v \in Seq(X)
    <3>1. f[n] \in Seq(X) /\ s[n + 1] \in Seq(X)
      BY <1>0, <2>1, <2>2
    <3> HIDE DEF n
    <3> QED
      BY <3>1
  <2>4. f \in [1 .. n -> Seq(X)] /\ Joins(f, s, n)
    BY <2>1
  <2> HIDE DEF n, v
  <2>5. h \in [1 .. n + 1 -> Seq(X)]
    BY <2>2, <2>3, <2>4
  <2>6. ASSUME NEW i \in 1 .. n + 1
        PROVE  h[i] = IF i = 1 THEN s[i] ELSE h[i - 1] \o s[i]
    <3>1. CASE i = n + 1
      <4>1. i # 1 /\ i - 1 = n /\ n \in 1 .. n + 1 /\ n # n + 1
        BY <2>2, <3>1
      <4>2. h[i] = v /\ h[n] = f[n]
        BY <3>1, <4>1
      <4> QED
        BY <3>1, <4>1, <4>2 DEF v
    <3>2. CASE i # n + 1
      <4>1. i \in 1 .. n /\ (i # 1 => i - 1 \in 1 .. n /\ i - 1 \in 1 .. n + 1 /\ i - 1 # n + 1)
        BY <2>2, <3>2
      <4>2. h[i] = f[i] /\ (i # 1 => h[i - 1] = f[i - 1])
        BY <3>2, <4>1
      <4>3. f[i] = IF i = 1 THEN s[i] ELSE f[i - 1] \o s[i]
        BY <2>4, <4>1 DEF Joins
      <4> QED
        BY <4>2, <4>3
    <3> QED
      BY <3>1, <3>2
  <2> HIDE DEF h
  <2>7. Joins(h, s, n + 1)
    BY <2>6 DEF Joins
  <2>8. n \in D
    BY <2>2, <2>5, <2>7
  <2> QED
    BY <2>8 DEF n
<1>3. N - 1 \in D
  <2>1. N - 1 \in Nat /\ N - 1 \in 0 .. N - 1
    OBVIOUS
  <2> HIDE DEF D
  <2>2. 0 .. N - 1 \subseteq D
    BY <1>1, <1>2, <2>1, UpTo
  <2> QED
    BY <2>1, <2>2
<1>4. (N - 1) + 1 = N
  OBVIOUS
<1> QED
  BY <1>3, <1>4

\* FlattenSeq() is the last of them.
LEMMA FlattenIs ==
  ASSUME NEW X, NEW s \in Seq(Seq(X)), NEW N \in Nat, N = Len(s), N > 0
  PROVE  \E f : Joins(f, s, N) /\ FlattenSeq(s) = f[N]
<1> DEFINE Step(f) == [i \in 1 .. N |-> IF i = 1 THEN s[i] ELSE f[i - 1] \o s[i]]
           flat == CHOOSE f : f = Step(f)
<1>1. \E f : f = Step(f)
  <2>1. PICK f \in [1 .. N -> Seq(X)] : Joins(f, s, N)
    BY JoinsFound
  <2> DEFINE v(i) == IF i = 1 THEN s[i] ELSE f[i - 1] \o s[i]
  <2>2. \A i \in 1 .. N : f[i] = v(i)
    BY <2>1 DEF Joins
  <2>3. f = [i \in 1 .. N |-> v(i)]
    <3> HIDE DEF v
    <3> QED
      BY <2>2
  <2> QED
    BY <2>3
<1>2. flat = Step(flat)
  <2> HIDE DEF Step
  <2> QED
    BY <1>1, Zenon
<1>3. Joins(flat, s, N)
  <2> DEFINE v(i) == IF i = 1 THEN s[i] ELSE flat[i - 1] \o s[i]
  <2>1. flat = [i \in 1 .. N |-> v(i)]
    BY <1>2
  <2>2. \A i \in 1 .. N : flat[i] = v(i)
    <3> HIDE DEF v, flat
    <3> QED
      BY <2>1
  <2> HIDE DEF flat
  <2> QED
    BY <2>2 DEF Joins
<1>4. FlattenSeq(s) = flat[N]
  BY DEF FlattenSeq
<1> QED
  BY <1>3, <1>4

\* Lines in order, joined.
LEMMA FlattenFacts ==
  ASSUME NEW X, NEW s \in Seq(Seq(X)), NEW R,
         \A k \in DOMAIN s : Ordered(s[k], R),
         \A k, m \in DOMAIN s : k < m => Follows(s[k], s[m], R)
  PROVE  /\ FlattenSeq(s) \in Seq(X)
         /\ ToSet(FlattenSeq(s)) = UNION {ToSet(s[k]) : k \in DOMAIN s}
         /\ Ordered(FlattenSeq(s), R)
<1> DEFINE N == Len(s)
<1>1. N \in Nat /\ DOMAIN s = 1 .. N /\ \A k \in 1 .. N : s[k] \in Seq(X)
  OBVIOUS
<1>2. CASE N = 0
  <2>1. FlattenSeq(s) = s /\ s = <<>>
    BY <1>2 DEF FlattenSeq
  <2>2. FlattenSeq(s) = <<>> /\ DOMAIN s = {}
    BY <2>1
  <2>3. FlattenSeq(s) \in Seq(X) /\ DOMAIN FlattenSeq(s) = {}
    BY <2>2
  <2> QED
    BY <2>2, <2>3 DEF ToSet, Ordered
<1>3. CASE N > 0
  <2>1. PICK f : Joins(f, s, N) /\ FlattenSeq(s) = f[N]
    BY <1>1, <1>3, FlattenIs
  <2> DEFINE Upto(n) == UNION {ToSet(s[j]) : j \in 1 .. n}
             P == {k \in 0 .. N - 1 : /\ f[k + 1] \in Seq(X)
                                      /\ ToSet(f[k + 1]) = Upto(k + 1)
                                      /\ Ordered(f[k + 1], R)}
  <2>2. 0 \in P
    <3>1. f[0 + 1] = s[1] /\ 0 \in 0 .. N - 1 /\ 1 \in 1 .. N
      BY <1>1, <1>3, <2>1 DEF Joins
    <3>2. ToSet(s[1]) = Upto(0 + 1)
      OBVIOUS
    <3> QED
      BY <1>1, <3>1, <3>2
  <2>3. ASSUME NEW k \in 0 .. (N - 1) - 1, k \in P PROVE k + 1 \in P
    <3> DEFINE n == k + 1
    <3>1. n \in 1 .. N - 1 /\ n \in 0 .. N - 1 /\ n + 1 \in 1 .. N /\ n + 1 # 1 /\ (n + 1) - 1 = n
      BY <1>1
    <3>2. f[n] \in Seq(X) /\ ToSet(f[n]) = Upto(n) /\ Ordered(f[n], R)
      BY <2>3
    <3> HIDE DEF n
    <3>3. f[n + 1] = f[n] \o s[n + 1]
      BY <2>1, <3>1 DEF Joins
    <3>4. s[n + 1] \in Seq(X) /\ Ordered(s[n + 1], R)
      BY <1>1, <3>1
    <3>5. Follows(f[n], s[n + 1], R)
      <4> SUFFICES ASSUME NEW x \in ToSet(f[n]), NEW y \in ToSet(s[n + 1])
                   PROVE  <<x, y>> \in R
        BY DEF Follows
      <4>1. PICK j \in 1 .. n : x \in ToSet(s[j])
        BY <3>2
      <4>2. j \in 1 .. N /\ j < n + 1
        BY <1>1, <3>1
      <4>3. Follows(s[j], s[n + 1], R)
        BY <1>1, <3>1, <4>2
      <4> QED
        BY <4>1, <4>3 DEF Follows
    <3>6. /\ f[n + 1] \in Seq(X) /\ ToSet(f[n + 1]) = ToSet(f[n]) \cup ToSet(s[n + 1])
          /\ Ordered(f[n + 1], R)
      BY <3>2, <3>3, <3>4, <3>5, JoinTwo
    <3>7. Upto(n + 1) = Upto(n) \cup ToSet(s[n + 1])
      <4>1. 1 .. n + 1 = (1 .. n) \cup {n + 1}
        BY <3>1
      <4> QED
        BY <4>1
    <3>8. n \in P
      BY <3>1, <3>2, <3>6, <3>7
    <3> QED
      BY <3>8 DEF n
  <2>4. N - 1 \in P
    <3>1. N - 1 \in Nat /\ N - 1 \in 0 .. N - 1
      BY <1>1, <1>3
    <3> HIDE DEF P, N
    <3>2. 0 .. N - 1 \subseteq P
      BY <2>2, <2>3, <3>1, UpTo
    <3> QED
      BY <3>1, <3>2
  <2>5. (N - 1) + 1 = N
    BY <1>1
  <2> QED
    BY <1>1, <2>1, <2>4, <2>5
<1> QED
  BY <1>1, <1>2, <1>3

\* The places of items in a document are finitely many.
LEMMA SpotsFinite ==
  ASSUME NEW N \in Nat
  PROVE  IsFiniteSet((1 .. N) \X {0, 1})
<1>1. IsFiniteSet(1 .. N)
  BY FS_Interval
<1>2. IsFiniteSet({0, 1})
  <2>1. IsFiniteSet({0})
    BY FS_Singleton, Zenon
  <2>2. IsFiniteSet({0} \cup {1})
    BY <2>1, FS_AddElement, Zenon
  <2>3. {0} \cup {1} = {0, 1}
    OBVIOUS
  <2> QED
    BY <2>2, <2>3
<1> QED
  BY <1>1, <1>2, FS_Product

-------------------------------------------------------------------------------
(***************************************************************************)
(* Pages follow each other in the document, so what stands on one page is  *)
(* before what stands on a later one.                                      *)
(***************************************************************************)
DocOK == doc \in Seq(Paragraphs) /\ Len(doc) <= MaxParagraphs

ItemsOn(n) == TextItems(ParasOn(n)) \cup PicItems(ParasOn(n))

\* A quotient does not shrink when the dividend grows.
LEMMA QuotientGrows ==
  ASSUME NEW a \in Nat, NEW b \in Nat, a <= b, NEW c \in Nat \ {0}
  PROVE  a \div c \in Nat /\ a \div c <= b \div c
OBVIOUS

\* The page number does not shrink from a paragraph to the next.
LEMMA PageOfGrows ==
  ASSUME DocOK, NEW p \in DOMAIN doc, NEW q \in DOMAIN doc, p <= q
  PROVE  PageOf(p) \in Nat /\ PageOf(q) \in Nat /\ PageOf(p) <= PageOf(q)
<1>1. p \in Nat \ {0} /\ q \in Nat \ {0}
  BY DEF DocOK
<1>2. CASE Len(doc) > LargeDocument
  <2>1. p - 1 \in Nat /\ q - 1 \in Nat /\ p - 1 <= q - 1
    BY <1>1
  <2>2. /\ (p - 1) \div ParasPerPage \in Nat
        /\ (q - 1) \div ParasPerPage \in Nat
        /\ (p - 1) \div ParasPerPage <= (q - 1) \div ParasPerPage
    BY <2>1, QuotientGrows, BoundsAssumption
  <2> QED
    BY <1>2, <2>2 DEF PageOf
<1>3. CASE ~ (Len(doc) > LargeDocument)
  <2>1. Breaks(p) \in SUBSET Breaks(q) /\ Breaks(q) \in SUBSET (1 .. q - 1)
    BY <1>1 DEF Breaks
  <2>2. IsFiniteSet(1 .. q - 1)
    BY <1>1, FS_Interval
  <2>3. IsFiniteSet(Breaks(q))
    BY <2>1, <2>2, FS_Subset
  <2>4. IsFiniteSet(Breaks(p)) /\ Cardinality(Breaks(p)) <= Cardinality(Breaks(q))
    BY <2>1, <2>3, FS_Subset
  <2>5. Cardinality(Breaks(p)) \in Nat /\ Cardinality(Breaks(q)) \in Nat
    BY <2>3, <2>4, FS_CardinalityType
  <2> QED
    BY <1>3, <2>4, <2>5 DEF PageOf
<1> QED
  BY <1>2, <1>3

\* What the items of a page are.
LEMMA ItemsOnPage ==
  ASSUME DocOK, NEW n
  PROVE  /\ ItemsOn(n) \in SUBSET Items
         /\ IsFiniteSet(ItemsOn(n))
         /\ \A x \in ItemsOn(n) : x[1] \in DOMAIN doc /\ PageOf(x[1]) = n
         /\ PicsOf(ItemsOn(n)) = PicItems(ParasOn(n))
         /\ ItemsOn(n) \ PicsOf(ItemsOn(n)) = TextItems(ParasOn(n))
<1>1. /\ Len(doc) \in Nat /\ DOMAIN doc = 1 .. Len(doc)
      /\ MaxParagraphs \in Nat /\ Len(doc) <= MaxParagraphs
  BY BoundsAssumption DEF DocOK
<1>2. \A x \in ItemsOn(n) : /\ x \in (1 .. Len(doc)) \X {0, 1}
                            /\ x[1] \in DOMAIN doc /\ PageOf(x[1]) = n
  BY <1>1 DEF ItemsOn, TextItems, PicItems, ParasOn
<1>3. \A x \in ItemsOn(n) : x \in Items
  BY <1>1, <1>2 DEF Items
<1>4. IsFiniteSet(ItemsOn(n))
  <2>1. IsFiniteSet((1 .. Len(doc)) \X {0, 1})
    BY <1>1, SpotsFinite
  <2>2. ItemsOn(n) \in SUBSET ((1 .. Len(doc)) \X {0, 1})
    BY <1>2
  <2> QED
    BY <2>1, <2>2, FS_Subset
<1>5. (\A x \in PicItems(ParasOn(n)) : IsPic(x)) /\ \A x \in TextItems(ParasOn(n)) : ~ IsPic(x)
  BY DEF PicItems, TextItems, IsPic
<1>6. /\ PicsOf(ItemsOn(n)) = PicItems(ParasOn(n))
      /\ ItemsOn(n) \ PicsOf(ItemsOn(n)) = TextItems(ParasOn(n))
  BY <1>5 DEF PicsOf, ItemsOn
<1> QED
  BY <1>2, <1>3, <1>4, <1>6

\* An earlier page is before a later one.
LEMMA PagesFollow ==
  ASSUME DocOK, NEW n \in Nat, NEW m \in Nat, n < m,
         NEW x \in ItemsOn(n), NEW y \in ItemsOn(m)
  PROVE  Before(x, y)
<1>1. /\ x[1] \in DOMAIN doc /\ PageOf(x[1]) = n
      /\ y[1] \in DOMAIN doc /\ PageOf(y[1]) = m
  BY ItemsOnPage
<1>2. ~ (y[1] <= x[1])
  <2> SUFFICES ASSUME y[1] <= x[1] PROVE FALSE
    OBVIOUS
  <2>1. PageOf(y[1]) <= PageOf(x[1])
    BY <1>1, PageOfGrows
  <2> QED
    BY <1>1, <2>1
<1>3. x[1] \in Nat /\ y[1] \in Nat
  BY <1>1 DEF DocOK
<1>4. x[1] < y[1]
  BY <1>2, <1>3
<1> QED
  BY <1>4 DEF Before

\* The pictures that were saved for one page.
LEMMA SavedOnOne ==
  ASSUME NEW n
  PROVE  /\ \A item : item \in SavedOn({n}) <=> item \in ToSet(content[n]) /\ IsPic(item)
         /\ content[n] = <<>> => SavedOn({n}) = {}
<1>1. \A item : item \in SavedOn({n}) <=> item \in ToSet(content[n]) /\ IsPic(item)
  BY DEF SavedOn
<1>2. ToSet(<<>>) = {}
  BY DEF ToSet
<1> QED
  BY <1>1, <1>2

-------------------------------------------------------------------------------
(***************************************************************************)
(* A page that was read: only what stands on it, all of its texts, the     *)
(* texts in their order, and everything in its place when every picture    *)
(* could be saved.                                                         *)
(***************************************************************************)
TextOrder == {r \in Items \X Items : IsText(r[1]) /\ IsText(r[2]) => Before(r[1], r[2])}

WellRead(c, n) ==
  /\ c \in Seq(ItemsOn(n))
  /\ TextItems(ParasOn(n)) \subseteq ToSet(c)
  /\ Ordered(c, TextOrder)
  /\ PicItems(ParasOn(n)) \subseteq ToSet(c) => Ordered(c, DocOrder(Items))

\* A sequence of items is one of items.
LEMMA ItemsAreItems ==
  ASSUME DocOK, NEW n, NEW c \in Seq(ItemsOn(n))
  PROVE  /\ c \in Seq(Items)
         /\ \A i \in DOMAIN c : c[i] \in Items /\ c[i] \in ItemsOn(n)
<1>1. ItemsOn(n) \in SUBSET Items
  BY ItemsOnPage
<1> QED
  BY <1>1

\* What a process makes of its page.
LEMMA ReadIsWell ==
  ASSUME DocOK, NEW n, NEW ok \in SUBSET PicItems(ParasOn(n))
  PROVE  WellRead(Filled(ContentOf(n), Sorted(ok, Before)), n)
<1> DEFINE S == ItemsOn(n)
           f == Filled(Sorted(S, Before), Sorted(ok, Before))
<1>1. ContentOf(n) = Sorted(S, Before)
  BY DEF ContentOf, ItemsOn
<1>2. S \in SUBSET Items /\ IsFiniteSet(S) /\ PicsOf(S) = PicItems(ParasOn(n))
      /\ S \ PicsOf(S) = TextItems(ParasOn(n))
  BY ItemsOnPage
<1> HIDE DEF S
<1>3. /\ f \in Seq(S)
      /\ \A x \in ToSet(f) : IsPic(x) => x \in ok
      /\ S \ PicsOf(S) \subseteq ToSet(f)
      /\ \A i, j \in DOMAIN f :
           i < j /\ ~ IsPic(f[i]) /\ ~ IsPic(f[j]) => Before(f[i], f[j])
      /\ ok = PicsOf(S) =>
           \A i, j \in DOMAIN f : i < j => Before(f[i], f[j])
  BY <1>2, FilledFacts
<1> HIDE DEF f
<1>4. \A i \in DOMAIN f : f[i] \in Items
  BY <1>2, <1>3
<1>5. Ordered(f, TextOrder)
  BY <1>3, <1>4 DEF Ordered, TextOrder, IsText
<1>6. ASSUME PicItems(ParasOn(n)) \subseteq ToSet(f)
      PROVE  Ordered(f, DocOrder(Items))
  <2>1. \A x \in PicsOf(S) : x \in ok
    BY <1>2, <1>3, <1>6 DEF PicsOf
  <2>2. ok = PicsOf(S)
    BY <1>2, <2>1
  <2>3. \A i, j \in DOMAIN f : i < j => Before(f[i], f[j])
    BY <1>3, <2>2
  <2> QED
    BY <1>4, <2>3 DEF Ordered, DocOrder
<1>7. TextItems(ParasOn(n)) \subseteq ToSet(f)
  BY <1>2, <1>3
<1>8. WellRead(f, n)
  BY <1>3, <1>5, <1>6, <1>7 DEF WellRead, S
<1> QED
  BY <1>1, <1>8 DEF f

\* What is shown of a page that was read.
LEMMA ShownFacts ==
  ASSUME DocOK, NEW n, NEW c, c = content[n], c \in Seq(Items), NEW urls
  PROVE  /\ Shown(n, urls) \in Seq(Items)
         /\ \A x \in ToSet(Shown(n, urls)) : x \in ToSet(c)
         /\ \A x \in ToSet(c) : IsText(x) => x \in ToSet(Shown(n, urls))
         /\ \A R : Ordered(c, R) => Ordered(Shown(n, urls), R)
<1> DEFINE places == {i \in DOMAIN c : IsPic(c[i]) => c[i] \in urls}
           a == Shown(n, urls)
<1>1. a = At(c, places)
  BY DEF Shown
<1>2. /\ Len(c) \in Nat /\ DOMAIN c = 1 .. Len(c)
      /\ \A i \in DOMAIN c : c[i] \in Items
  OBVIOUS
<1>3. places \in SUBSET (1 .. Len(c)) /\ places \subseteq DOMAIN c
  BY <1>2
<1>4. \A i \in DOMAIN c : IsText(c[i]) => i \in places
  BY DEF IsText
<1> HIDE DEF places, a
<1>5. Taken(a, c, places)
  <2>1. Taken(At(c, places), c, places)
    BY <1>2, <1>3, AtFacts
  <2> QED
    BY <1>1, <2>1
<1>6. a \in Seq(Items)
  <2>1. PICK k \in Nat : DOMAIN a = 1 .. k /\ a = [i \in 1 .. k |-> a[i]]
    BY <1>5 DEF Taken
  <2>2. \A i \in 1 .. k : a[i] \in Items
    BY <1>2, <1>3, <1>5, <2>1 DEF Taken
  <2> QED
    BY <2>1, <2>2
<1>7. \A x \in ToSet(a) : x \in ToSet(c)
  BY <1>3, <1>5 DEF Taken, ToSet
<1>8. \A x \in ToSet(c) : IsText(x) => x \in ToSet(a)
  BY <1>4, <1>5 DEF Taken, ToSet
<1>9. ASSUME NEW R, Ordered(c, R) PROVE Ordered(a, R)
  <2> SUFFICES ASSUME NEW k \in DOMAIN a, NEW m \in DOMAIN a, k < m
               PROVE  <<a[k], a[m]>> \in R
    BY DEF Ordered
  <2>1. PICK i \in places, j \in places : i < j /\ a[k] = c[i] /\ a[m] = c[j]
    BY <1>5 DEF Taken
  <2>2. <<c[i], c[j]>> \in R
    BY <1>3, <1>9, <2>1 DEF Ordered
  <2> QED
    BY <2>1, <2>2
<1> QED
  BY <1>6, <1>7, <1>8, <1>9 DEF a

-------------------------------------------------------------------------------
(***************************************************************************)
(* The order of the lines.                                                 *)
(***************************************************************************)

\* A bounded set of numbers has a largest member.
LEMMA LargestIn ==
  ASSUME NEW N \in Nat, NEW S \in SUBSET (1 .. N), S # {}
  PROVE  \E m \in S : \A k \in S : k <= m
<1> DEFINE T == {x \in 0 .. N : N - x \in S}
<1>1. T \in SUBSET Nat /\ T # {}
  <2>1. PICK s \in S : TRUE
    OBVIOUS
  <2>2. N - s \in 0 .. N /\ N - (N - s) = s
    OBVIOUS
  <2>3. N - s \in T
    BY <2>2
  <2>4. T \in SUBSET Nat
    OBVIOUS
  <2> QED
    BY <2>3, <2>4
<1>2. PICK t \in T : \A y \in T : t <= y
  <2> HIDE DEF T
  <2> QED
    BY <1>1, SmallestIn
<1>3. N - t \in S
  OBVIOUS
<1>4. ASSUME NEW k \in S PROVE k <= N - t
  <2>1. N - k \in 0 .. N /\ N - (N - k) = k
    OBVIOUS
  <2>2. N - k \in T
    BY <2>1
  <2>3. t <= N - k /\ t \in 0 .. N /\ k \in 1 .. N
    BY <1>2, <2>2
  <2> QED
    BY <2>3
<1> QED
  BY <1>3, <1>4

\* The number a line is sorted by is a page number, and its own when it has content.
LEMMA PageNumberFacts ==
  ASSUME results \in Seq(Pages), NEW i \in DOMAIN results
  PROVE  /\ PageNumber(i) \in Nat
         /\ content[results[i]] # <<>> => PageNumber(i) = results[i]
<1>1. /\ Len(results) \in Nat /\ DOMAIN results = 1 .. Len(results)
      /\ \A j \in DOMAIN results : results[j] \in Nat
  BY BoundsAssumption DEF Pages
<1> DEFINE N == Len(results)
           full == {j \in 1 .. i : content[results[j]] # <<>>}
<1>2. full \in SUBSET (1 .. N) /\ full \in SUBSET (1 .. i)
  BY <1>1
<1>3. HasPictures => LastPictureLine \in DOMAIN results
  <2> SUFFICES ASSUME HasPictures PROVE LastPictureLine \in DOMAIN results
    OBVIOUS
  <2> DEFINE S == {j \in DOMAIN results : SavedOn({results[j]}) # {}}
  <2>1. S \in SUBSET (1 .. N)
    BY <1>1
  <2>2. S # {}
    <3>1. PICK n \in Returned : \E item : item \in ToSet(content[n]) /\ IsPic(item)
      BY DEF HasPictures, SavedOn
    <3>2. SavedOn({n}) # {}
      BY <3>1, SavedOnOne
    <3>3. PICK j \in DOMAIN results : results[j] = n
      BY DEF Returned, ToSet
    <3> QED
      BY <3>2, <3>3
  <2>3. PICK m \in S : \A k \in S : k <= m
    <3> HIDE DEF S
    <3> QED
      BY <1>1, <2>1, <2>2, LargestIn
  <2>4. /\ m \in DOMAIN results /\ SavedOn({results[m]}) # {}
        /\ \A j \in DOMAIN results : j > m => SavedOn({results[j]}) = {}
    <3>1. \A j \in DOMAIN results : j > m => j \notin S
      <4> SUFFICES ASSUME NEW j \in DOMAIN results, j > m, j \in S PROVE FALSE
        OBVIOUS
      <4>1. j <= m /\ j \in Nat /\ m \in Nat
        BY <1>1, <2>3
      <4> QED
        BY <4>1
    <3> QED
      BY <2>3, <3>1
  <2>5. \E l \in DOMAIN results :
          /\ SavedOn({results[l]}) # {}
          /\ \A j \in DOMAIN results : j > l => SavedOn({results[j]}) = {}
    BY <2>4
  <2> QED
    BY <2>5 DEF LastPictureLine
<1>4. full # {} => \E j \in full : \A k \in full : k <= j
  <2> HIDE DEF full
  <2> QED
    BY <1>1, <1>2, LargestIn
<1> DEFINE last == CHOOSE j \in full : \A k \in full : k <= j
<1>5. full # {} => last \in full /\ \A k \in full : k <= last
  <2> HIDE DEF full
  <2> QED
    BY <1>4
<1>6. PageNumber(i) = IF ~ HasPictures THEN results[i]
                      ELSE IF full = {} THEN results[LastPictureLine]
                      ELSE results[last]
  BY DEF PageNumber
<1>7. full # {} => last \in DOMAIN results
  BY <1>1, <1>2, <1>5
<1>8. content[results[i]] # <<>> => full # {} /\ last = i
  <2> SUFFICES ASSUME content[results[i]] # <<>> PROVE full # {} /\ last = i
    OBVIOUS
  <2>1. i \in full
    BY <1>1
  <2> HIDE DEF full, last
  <2>2. last \in 1 .. i /\ i <= last
    BY <1>2, <1>5, <2>1
  <2> QED
    BY <1>1, <2>1, <2>2
<1> HIDE DEF full, last
<1> QED
  BY <1>1, <1>3, <1>6, <1>7, <1>8

\* The lines are sorted by these numbers, and those with the same stay in order.
LEMMA LineOrderFacts ==
  ASSUME results \in Seq(Pages)
  PROVE  /\ \A k \in DOMAIN results : LineOrder[k] \in DOMAIN results
         /\ \A i \in DOMAIN results : \E k \in DOMAIN results : LineOrder[k] = i
         /\ \A k, m \in DOMAIN results : k < m => SortedBefore(LineOrder[k], LineOrder[m])
<1> DEFINE S == DOMAIN results
           N == Len(results)
           R == {r \in S \X S : SortedBefore(r[1], r[2])}
<1>1. N \in Nat /\ S = 1 .. N
  OBVIOUS
<1>2. IsFiniteSet(S) /\ Cardinality(S) = N
  <2>1. IsFiniteSet(1 .. N) /\ Cardinality(1 .. N) = N
    BY <1>1, FS_Interval, SMTT(30)
  <2> QED
    BY <1>1, <2>1
<1>3. \A x \in S : PageNumber(x) \in Nat /\ x \in Nat
  BY <1>1, PageNumberFacts
<1>4. \A x, y \in S : <<x, y>> \in R <=> SortedBefore(x, y)
  OBVIOUS
<1> HIDE DEF R, S, N
<1>5. Orders(R, S)
  <2>1. \A x \in S : <<x, x>> \notin R
    BY <1>3, <1>4 DEF SortedBefore
  <2>2. \A x, y \in S : x # y => <<x, y>> \in R \/ <<y, x>> \in R
    BY <1>3, <1>4 DEF SortedBefore
  <2>3. \A x, y, z \in S : <<x, y>> \in R /\ <<y, z>> \in R => <<x, z>> \in R
    BY <1>3, <1>4 DEF SortedBefore
  <2> QED
    BY <2>1, <2>2, <2>3 DEF Orders
<1>6. \A x \in S : Below(x, S, R) = {y \in S : SortedBefore(y, x)}
  BY <1>4 DEF Below
<1>7. LineOrder = Ranked(S, R)
  <2> DEFINE E(k) == CHOOSE x \in S : Cardinality({y \in S : SortedBefore(y, x)}) = k - 1
             G(k) == CHOOSE x \in S : Cardinality(Below(x, S, R)) = k - 1
  <2>1. ASSUME NEW k PROVE E(k) = G(k)
    <3>1. \A x : x \in S /\ Cardinality({y \in S : SortedBefore(y, x)}) = k - 1
                 <=> x \in S /\ Cardinality(Below(x, S, R)) = k - 1
      BY <1>6
    <3> QED
      BY <3>1
  <2>2. /\ LineOrder = [k \in 1 .. Cardinality(S) |-> E(k)]
        /\ Ranked(S, R) = [k \in 1 .. Cardinality(S) |-> G(k)]
    BY DEF LineOrder, Sorted, Ranked, S
  <2> HIDE DEF E, G
  <2> QED
    BY <2>1, <2>2
<1>8. /\ Ranked(S, R) \in Seq(S) /\ ToSet(Ranked(S, R)) = S
      /\ DOMAIN Ranked(S, R) = S
      /\ \A k, m \in S : k < m => <<Ranked(S, R)[k], Ranked(S, R)[m]>> \in R
  <2>1. /\ Ranked(S, R) \in Seq(S) /\ ToSet(Ranked(S, R)) = S
        /\ DOMAIN Ranked(S, R) = 1 .. Cardinality(S)
        /\ \A k, m \in 1 .. Cardinality(S) :
             k < m => <<Ranked(S, R)[k], Ranked(S, R)[m]>> \in R
    BY <1>2, <1>5, RankedFacts
  <2> QED
    BY <1>1, <1>2, <2>1
<1>9. \A k \in S : LineOrder[k] \in S
  BY <1>7, <1>8
<1>10. \A i \in S : \E k \in S : LineOrder[k] = i
  BY <1>7, <1>8 DEF ToSet
<1>11. \A k, m \in S : k < m => SortedBefore(LineOrder[k], LineOrder[m])
  BY <1>4, <1>7, <1>8, <1>9
<1> QED
  BY <1>9, <1>10, <1>11 DEF S

\* All lines: each in order, each before the next, with the texts of all pages
\* that came back, and with everything in its place when all could be saved.
LinesOK ==
  /\ lines \in Seq(Seq(Items))
  /\ \A k \in DOMAIN lines : Ordered(lines[k], TextOrder)
  /\ AllSaved => \A k \in DOMAIN lines : Ordered(lines[k], DocOrder(Items))
  /\ \A k, m \in DOMAIN lines : k < m => Follows(lines[k], lines[m], DocOrder(Items))
  /\ {x \in UNION {ToSet(lines[k]) : k \in DOMAIN lines} : IsText(x)} =
       UNION {TextItems(ParasOn(n)) : n \in Returned}

\* No page is collected twice.
Distinct == \A i, j \in DOMAIN results : results[i] = results[j] => i = j

LinesWith(urls) == [k \in 1 .. Len(results) |-> Shown(results[LineOrder[k]], urls)]

\* The lines have been made of the pages that came back.
LinesMade ==
  /\ DocOK
  /\ results \in Seq(Pages)
  /\ Distinct
  /\ \A n \in Returned : WellRead(content[n], n)
  /\ \E urls : lines = LinesWith(urls)

\* The lines the parent makes of the pages, whatever pictures it can read back.
LEMMA LinesAreOK == LinesMade => LinesOK
<1> SUFFICES ASSUME LinesMade, NEW urls, lines = LinesWith(urls) PROVE LinesOK
  BY DEF LinesMade
<1> USE DEF LinesMade, LinesWith
<1> DEFINE page(k) == results[LineOrder[k]]
           D == DOMAIN results
<1>1. /\ Len(results) \in Nat /\ D = 1 .. Len(results)
      /\ \A i \in D : results[i] \in Returned /\ results[i] \in Nat
  BY BoundsAssumption DEF Returned, ToSet, Pages
<1>2. /\ \A k \in D : LineOrder[k] \in D
      /\ \A i \in D : \E k \in D : LineOrder[k] = i
      /\ \A k, m \in D : k < m => SortedBefore(LineOrder[k], LineOrder[m])
  BY LineOrderFacts
<1>3. DOMAIN lines = D /\ \A k \in D : lines[k] = Shown(page(k), urls)
  BY <1>1
<1>4. \A k \in D : page(k) \in Returned /\ page(k) \in Nat
  BY <1>1, <1>2
<1> HIDE DEF page, D
<1>5. ASSUME NEW k \in D
      PROVE  /\ content[page(k)] \in Seq(Items)
             /\ \A x \in ToSet(content[page(k)]) : x \in ItemsOn(page(k))
             /\ TextItems(ParasOn(page(k))) \subseteq ToSet(content[page(k)])
             /\ Ordered(content[page(k)], TextOrder)
             /\ PicItems(ParasOn(page(k))) \subseteq ToSet(content[page(k)])
                  => Ordered(content[page(k)], DocOrder(Items))
  <2> DEFINE n == page(k)
             c == content[n]
  <2>1. WellRead(c, n)
    BY <1>4
  <2> HIDE DEF n, c
  <2>2. c \in Seq(Items) /\ c \in Seq(ItemsOn(n))
    BY <2>1, ItemsAreItems DEF WellRead
  <2>3. \A x \in ToSet(c) : x \in ItemsOn(n)
    BY <2>2 DEF ToSet
  <2> QED
    BY <2>1, <2>2, <2>3 DEF WellRead, n, c
<1>6. ASSUME NEW k \in D
      PROVE  /\ lines[k] \in Seq(Items)
             /\ \A x \in ToSet(lines[k]) : x \in ToSet(content[page(k)])
             /\ \A x \in ToSet(content[page(k)]) : IsText(x) => x \in ToSet(lines[k])
             /\ \A R : Ordered(content[page(k)], R) => Ordered(lines[k], R)
  <2> DEFINE n == page(k)
             c == content[n]
  <2>1. c \in Seq(Items) /\ lines[k] = Shown(n, urls)
    BY <1>3, <1>5
  <2>2. c = content[n]
    OBVIOUS
  <2> HIDE DEF n, c
  <2>3. /\ Shown(n, urls) \in Seq(Items)
        /\ \A x \in ToSet(Shown(n, urls)) : x \in ToSet(c)
        /\ \A x \in ToSet(c) : IsText(x) => x \in ToSet(Shown(n, urls))
        /\ \A R : Ordered(c, R) => Ordered(Shown(n, urls), R)
    BY <2>1, <2>2, ShownFacts
  <2> QED
    BY <2>1, <2>3 DEF n, c
<1>7. lines \in Seq(Seq(Items))
  <2>1. lines \in [1 .. Len(results) -> Seq(Items)]
    <3>1. lines = [k \in 1 .. Len(results) |-> lines[k]]
      BY <1>1, <1>3
    <3> QED
      BY <1>1, <1>6, <3>1
  <2> QED
    BY <1>1, <2>1
<1>8. \A k \in DOMAIN lines : Ordered(lines[k], TextOrder)
  BY <1>3, <1>5, <1>6
<1>9. ASSUME AllSaved, NEW k \in DOMAIN lines
      PROVE  Ordered(lines[k], DocOrder(Items))
  <2>1. SavedOn({page(k)}) = PicItems(ParasOn(page(k)))
    BY <1>3, <1>4, <1>9 DEF AllSaved
  <2>2. PicItems(ParasOn(page(k))) \subseteq ToSet(content[page(k)])
    BY <2>1, SavedOnOne
  <2> QED
    BY <1>3, <1>5, <1>6, <2>2
<1>10. ASSUME NEW k \in DOMAIN lines, NEW m \in DOMAIN lines, k < m
       PROVE  Follows(lines[k], lines[m], DocOrder(Items))
  <2> SUFFICES ASSUME NEW x \in ToSet(lines[k]), NEW y \in ToSet(lines[m])
               PROVE  <<x, y>> \in DocOrder(Items)
    BY DEF Follows
  <2> DEFINE a == LineOrder[k]
             b == LineOrder[m]
  <2>1. /\ x \in ToSet(content[page(k)]) /\ x \in ItemsOn(page(k))
        /\ y \in ToSet(content[page(m)]) /\ y \in ItemsOn(page(m))
    BY <1>3, <1>5, <1>6
  <2>2. content[page(k)] # <<>> /\ content[page(m)] # <<>>
    BY <2>1 DEF ToSet
  <2>3. a \in D /\ b \in D /\ SortedBefore(a, b) /\ page(k) = results[a] /\ page(m) = results[b]
    BY <1>2, <1>3, <1>10 DEF page
  <2> HIDE DEF a, b
  <2>4. PageNumber(a) = page(k) /\ PageNumber(b) = page(m)
    BY <2>2, <2>3, PageNumberFacts DEF D
  <2>5. a \in Nat /\ b \in Nat /\ page(k) \in Nat /\ page(m) \in Nat
    BY <1>1, <1>3, <1>4, <2>3
  <2>6. page(k) = page(m) => a = b
    BY <2>3 DEF Distinct, D
  <2>7. page(k) < page(m)
    BY <2>3, <2>4, <2>5, <2>6 DEF SortedBefore
  <2>8. Before(x, y)
    BY <2>1, <2>5, <2>7, PagesFollow
  <2>9. x \in Items /\ y \in Items
    BY <2>1, ItemsOnPage
  <2> QED
    BY <2>8, <2>9 DEF DocOrder
<1>11. {x \in UNION {ToSet(lines[k]) : k \in DOMAIN lines} : IsText(x)} =
         UNION {TextItems(ParasOn(n)) : n \in Returned}
  <2>1. ASSUME NEW k \in DOMAIN lines, NEW x \in ToSet(lines[k]), IsText(x)
        PROVE  x \in UNION {TextItems(ParasOn(n)) : n \in Returned}
    <3>1. x \in ItemsOn(page(k)) /\ page(k) \in Returned
      BY <1>3, <1>4, <1>5, <1>6
    <3>2. x \in TextItems(ParasOn(page(k)))
      BY <2>1, <3>1 DEF ItemsOn, PicItems, IsText, IsPic
    <3> QED
      BY <3>1, <3>2
  <2>2. ASSUME NEW n \in Returned, NEW x \in TextItems(ParasOn(n))
        PROVE  IsText(x) /\ \E k \in DOMAIN lines : x \in ToSet(lines[k])
    <3>1. IsText(x)
      BY DEF TextItems, IsText, IsPic
    <3>2. PICK i \in D : results[i] = n
      BY DEF Returned, ToSet, D
    <3>3. PICK k \in D : LineOrder[k] = i
      BY <1>2
    <3>4. page(k) = n
      BY <3>2, <3>3 DEF page
    <3>5. x \in ToSet(content[page(k)])
      BY <1>5, <3>4
    <3> QED
      BY <1>3, <1>6, <3>1, <3>5
  <2> QED
    BY <2>1, <2>2
<1> QED
  BY <1>7, <1>8, <1>9, <1>10, <1>11 DEF LinesOK

\* What PagesInOrder says of the answer.
AnswerOK ==
  /\ answer \in Seq(Items)
  /\ \A i, j \in DOMAIN answer :
       i < j /\ IsText(answer[i]) /\ IsText(answer[j]) => Before(answer[i], answer[j])
  /\ {item \in ToSet(answer) : IsText(item)} =
       UNION {TextItems(ParasOn(n)) : n \in Returned}
  /\ AllSaved => InOrder(answer)

\* The lines joined are such an answer.
LEMMA JoinedIsOK == LinesOK /\ answer = FlattenSeq(lines) => AnswerOK
<1> SUFFICES ASSUME LinesOK, answer = FlattenSeq(lines) PROVE AnswerOK
  OBVIOUS
<1>1. /\ lines \in Seq(Seq(Items))
      /\ \A k \in DOMAIN lines : Ordered(lines[k], TextOrder)
      /\ \A k, m \in DOMAIN lines : k < m => Follows(lines[k], lines[m], DocOrder(Items))
  BY DEF LinesOK
<1>2. \A k, m \in DOMAIN lines : k < m => Follows(lines[k], lines[m], TextOrder)
  <2>1. DocOrder(Items) \subseteq TextOrder
    BY DEF DocOrder, TextOrder
  <2> QED
    BY <1>1, <2>1 DEF Follows
<1>3. /\ answer \in Seq(Items)
      /\ ToSet(answer) = UNION {ToSet(lines[k]) : k \in DOMAIN lines}
      /\ Ordered(answer, TextOrder)
  BY <1>1, <1>2, FlattenFacts
<1>4. AllSaved => InOrder(answer)
  <2> SUFFICES ASSUME AllSaved PROVE InOrder(answer)
    OBVIOUS
  <2>1. \A k \in DOMAIN lines : Ordered(lines[k], DocOrder(Items))
    BY DEF LinesOK
  <2>2. Ordered(answer, DocOrder(Items))
    BY <1>1, <2>1, FlattenFacts
  <2>3. DOMAIN answer = 1 .. Len(answer)
    BY <1>3
  <2> QED
    BY <2>2, <2>3 DEF Ordered, DocOrder, InOrder
<1>5. \A i, j \in DOMAIN answer :
        i < j /\ IsText(answer[i]) /\ IsText(answer[j]) => Before(answer[i], answer[j])
  BY <1>3 DEF Ordered, TextOrder
<1>6. {item \in ToSet(answer) : IsText(item)} =
        UNION {TextItems(ParasOn(n)) : n \in Returned}
  BY <1>3 DEF LinesOK
<1> QED
  BY <1>3, <1>4, <1>5, <1>6 DEF AnswerOK
-------------------------------------------------------------------------------

\* The parent is inside of the with statement of the pool.
InPool == pc \in {"submit", "collect", "clean", "leave", "give up"}

\* A process that will still open the shared copy.
Needs(n) == proc[n] \in {"queued", "loading"}

(***************************************************************************)
(* The shared copy is there as long as the parent is in the with           *)
(* statement, and no process needs it after that.                          *)
(***************************************************************************)
PoolInv ==
  /\ proc \in [Pages -> ProcStates]
  /\ InPool => shared
  /\ \A n \in Pages : Needs(n) => InPool

\* At the start there is no pool.
LEMMA InitPoolInv == Init => PoolInv
BY DEF Init, PoolInv, InPool, Needs, ProcStates

\* What the parent does without the pool.
LEMMA ParentKeeps ==
  ASSUME PoolInv, ParentMoves
  PROVE  PoolInv'
<1> USE DEF poolVars
<1>1. CASE Load
  BY <1>1 DEF Load, PoolInv, InPool, Needs
<1>2. CASE ShareDocument
  BY <1>2 DEF ShareDocument, PoolInv, InPool, Needs
<1>3. CASE SubmitPage
  <2>1. PICK n : /\ proc' = [proc EXCEPT ![n] = "queued"]
                 /\ UNCHANGED <<pc, shared>> /\ pc = "submit"
    BY <1>3 DEF SubmitPage
  <2> QED
    BY <2>1 DEF PoolInv, InPool, Needs, ProcStates
<1>4. CASE SubmitRaises \/ AllSubmitted \/ ProcessResults \/ CleanImages
  <2>1. InPool /\ InPool' /\ UNCHANGED <<proc, shared>>
    BY <1>4 DEF SubmitRaises, AllSubmitted, ProcessResults, CleanImages, InPool
  <2> QED
    BY <2>1 DEF PoolInv, Needs
<1>5. CASE \E n \in Pages : Collect(n)
  BY <1>5 DEF Collect, PoolInv, InPool, Needs
<1>6. CASE LeavePool
  <2>1. \A n \in Pages : ~ Needs(n)
    BY <1>6 DEF LeavePool, Running, Queued, Busy, Needs
  <2>2. ~ InPool' /\ UNCHANGED <<proc, shared>>
    BY <1>6 DEF LeavePool, InPool
  <2> QED
    BY <2>1, <2>2 DEF PoolInv, Needs
<1>7. CASE Unshare \/ ProcessTables \/ Combine \/ ParseSimply
  <2>1. ~ InPool /\ ~ InPool' /\ proc' = proc
    BY <1>7 DEF Unshare, ProcessTables, Combine, ParseSimply, InPool
  <2> QED
    BY <2>1 DEF PoolInv, Needs
<1> QED
  BY <1>1, <1>2, <1>3, <1>4, <1>5, <1>6, <1>7 DEF ParentMoves

\* What a process does: only a queued one is given the copy to open.
LEMMA PoolKeeps ==
  ASSUME PoolInv, NEW n \in Pages, PoolStep(n) \/ Death(n)
  PROVE  PoolInv'
<1>1. UNCHANGED <<pc, shared>>
  BY DEF PoolStep, Death
<1>2. /\ proc' \in [Pages -> ProcStates]
      /\ \A m \in Pages : proc'[m] \in {"queued", "loading"} => Needs(m)
  <2>1. CASE TakePage(n)
    <3>1. proc[n] = "queued"
      <4>1. Queued # {} /\ n = Smallest(Queued)
        BY <2>1 DEF TakePage
      <4>2. Queued \in SUBSET Nat
        BY BoundsAssumption DEF Queued, Pages
      <4>3. n \in Queued
        BY <4>1, <4>2, SmallestIn
      <4> QED
        BY <4>3 DEF Queued
    <3> QED
      BY <2>1, <3>1 DEF TakePage, PoolInv, ProcStates, Busy, Needs
  <2>2. CASE LoadPage(n) \/ ReadNothing(n) \/ ReadPage(n) \/ SendPage(n) \/ Terminate(n)
    <3>1. PICK s \in {"reading", "sending", "gone"} : proc' = [proc EXCEPT ![n] = s]
      BY <2>2 DEF LoadPage, ReadNothing, ReadPage, SendPage, Terminate
    <3> QED
      BY <3>1 DEF PoolInv, ProcStates, Busy, Needs
  <2>3. CASE Die(n)
    BY <2>3 DEF Die, PoolInv, ProcStates, Busy, Needs
  <2> QED
    BY <2>1, <2>2, <2>3 DEF PoolStep, Death, WorkerMoves
<1> QED
  BY <1>1, <1>2 DEF PoolInv, InPool, Needs

\* Every step keeps it.
LEMMA StepKeepsPool == PoolInv /\ [Next]_vars => PoolInv'
<1> SUFFICES ASSUME PoolInv, [Next]_vars PROVE PoolInv'
  OBVIOUS
<1>1. CASE ParentMoves
  BY <1>1, ParentKeeps
<1>2. CASE \E n \in Pages : PoolStep(n) \/ Death(n)
  BY <1>2, PoolKeeps
<1>3. CASE UNCHANGED vars
  BY <1>3 DEF vars, poolVars, PoolInv, InPool, Needs
<1> QED
  BY <1>1, <1>2, <1>3 DEF Next, Progress

\* A process that is about to open the shared copy finds it: the parent leaves
\* the with statement only when the pool is empty, and removes the copy after.
THEOREM CopyIsThere == Spec => []SharedWhileNeeded
<1>1. PoolInv => SharedWhileNeeded
  BY DEF PoolInv, SharedWhileNeeded, Needs
<1> QED
  BY <1>1, InitPoolInv, StepKeepsPool, PTL DEF Spec

-------------------------------------------------------------------------------
(***************************************************************************)
(* What is left on disk.  The pages have their own pictures, so a process  *)
(* that goes on after the pictures were removed adds none to a page that   *)
(* has come back; and every page that has not come back is empty or lost.  *)
(***************************************************************************)
TypesOK ==
  /\ doc \in Seq(Paragraphs) /\ Len(doc) <= MaxParagraphs
  /\ proc \in [Pages -> ProcStates]
  /\ future \in [Pages -> {"none", "pending", "lines", "empty", "lost"}]
  /\ content = [n \in Pages |-> content[n]]
  /\ collected \subseteq Pages
  /\ results \in Seq(Pages)

PageOK(n) ==
  /\ future[n] = "none" <=> proc[n] = "idle"
  /\ proc[n] \in {"idle", "queued", "loading", "reading"} => content[n] = <<>>
  /\ future[n] = "empty" => content[n] = <<>> /\ proc[n] = "gone"
  /\ future[n] = "lines" => proc[n] = "gone"
  /\ \A item \in SavedOn({n}) : item[1] \in DOMAIN doc /\ PageOf(item[1]) = n

\* All pages have been looked at, and those that came back have no pictures,
\* where the parent remembers them.
Cleaned ==
  /\ collected = Submitted
  /\ TmpIsDefault =>
       \A n \in Pages : future[n] = "lines" => images \cap SavedOn({n}) = {}

BooksOK ==
  /\ collected \subseteq Completed
  /\ Returned = {n \in collected : future[n] = "lines"}
  /\ pc \in {"load", "share"} =>
       collected = {} /\ images = {} /\ \A n \in Pages : future[n] = "none"
  /\ pc = "clean" => collected = Submitted
  /\ pc = "give up" => "submit" \in faults
  /\ /\ pc \in {"leave", "unshare", "tables", "combine", "done", "simple", "simply done"}
     /\ "remove" \notin faults /\ "submit" \notin faults
     => Cleaned

CopyOK ==
  /\ pc \in {"load", "share", "tables", "combine", "done", "simple", "simply done"}
  /\ faults = {}
  => ~ shared

LeftInv ==
  /\ TypesOK
  /\ \A n \in Pages : PageOK(n)
  /\ BooksOK
  /\ CopyOK

\* At the start nothing is on disk.
LEMMA InitLeftInv == Init => LeftInv
<1> SUFFICES ASSUME Init PROVE LeftInv
  OBVIOUS
<1>1. doc \in Seq(Paragraphs) /\ Len(doc) <= MaxParagraphs
  <2>1. PICK n \in 0 .. MaxParagraphs : doc \in [1 .. n -> Paragraphs]
    BY DEF Init, BoundedSeq, SeqOf
  <2> QED
    BY <2>1, BoundsAssumption
<1>2. TypesOK
  BY <1>1 DEF Init, TypesOK, ProcStates
<1>3. \A n \in Pages : PageOK(n)
  BY DEF Init, PageOK, SavedOn, ToSet
<1>4. BooksOK
  <2>1. Returned = {}
    BY DEF Init, Returned, ToSet
  <2> QED
    BY <2>1 DEF Init, BooksOK
<1>5. CopyOK
  BY DEF Init, CopyOK
<1> QED
  BY <1>2, <1>3, <1>4, <1>5 DEF LeftInv

\* What the pool has no part in stays.
LEMMA SamePool ==
  ASSUME UNCHANGED <<doc, proc, future, content>>
  PROVE  /\ Submitted' = Submitted /\ Completed' = Completed
         /\ \A ns : SavedOn(ns)' = SavedOn(ns)
         /\ \A n : PageOf(n)' = PageOf(n)
         /\ \A n : PageOK(n)' = PageOK(n)
<1>1. Submitted' = Submitted /\ Completed' = Completed
  BY DEF Submitted, Completed
<1>2. \A ns : SavedOn(ns)' = SavedOn(ns)
  BY DEF SavedOn
<1>3. \A n : PageOf(n)' = PageOf(n)
  BY DEF PageOf, Breaks
<1> QED
  BY <1>1, <1>2, <1>3 DEF PageOK

-------------------------------------------------------------------------------
\* The parent, up to the pool.
LEMMA ParentBeforePool ==
  ASSUME LeftInv, Load \/ ShareDocument
  PROVE  LeftInv'
<1> USE DEF poolVars
<1>1. /\ UNCHANGED <<doc, proc, future, content, collected, results, images>>
      /\ pc \in {"load", "share"}
      /\ \/ pc' = "share" /\ shared' = shared /\ faults' = faults
         \/ pc' = "simple" /\ shared' = shared /\ faults' = faults
         \/ pc' = "submit"
         \/ pc' = "simple" /\ faults' # {}
  BY DEF Load, ShareDocument
<1>2. TypesOK'
  BY <1>1 DEF LeftInv, TypesOK
<1>3. \A n \in Pages : PageOK(n)'
  BY <1>1, SamePool DEF LeftInv
<1>4. BooksOK'
  <2>1. collected = {} /\ images = {} /\ \A n \in Pages : future[n] = "none"
    BY <1>1 DEF LeftInv, BooksOK
  <2>2. Submitted' = {} /\ Completed' = Completed
    BY <1>1, <2>1 DEF Submitted, Completed
  <2>3. Cleaned'
    BY <1>1, <2>1, <2>2 DEF Cleaned
  <2>4. Returned' = Returned
    BY <1>1 DEF Returned
  <2>5. pc' \in {"share", "simple", "submit"}
    BY <1>1
  <2> QED
    BY <1>1, <2>1, <2>2, <2>3, <2>4, <2>5 DEF LeftInv, BooksOK
<1>5. CopyOK'
  BY <1>1 DEF LeftInv, CopyOK
<1> QED
  BY <1>2, <1>3, <1>4, <1>5 DEF LeftInv

\* A page goes to the pool.
LEMMA SubmitKeepsLeft ==
  ASSUME LeftInv, SubmitPage
  PROVE  LeftInv'
<1> DEFINE n == Smallest(ToSubmit)
<1>1. n \in Pages => future[n] = "none"
  <2>1. ToSubmit # {} /\ ToSubmit \in SUBSET Nat
    <3>1. \A p \in DOMAIN doc : PageOf(p) \in Nat
      <4> SUFFICES ASSUME NEW p \in DOMAIN doc PROVE PageOf(p) \in Nat
        OBVIOUS
      <4>1. p \in Nat \ {0}
        BY DEF LeftInv, TypesOK
      <4>2. (p - 1) \div ParasPerPage \in Nat
        BY <4>1, BoundsAssumption
      <4>3. Cardinality(Breaks(p)) \in Nat
        <5>1. Breaks(p) \in SUBSET (1 .. p - 1) /\ IsFiniteSet(1 .. p - 1)
          BY <4>1, FS_Interval DEF Breaks
        <5>2. IsFiniteSet(Breaks(p))
          BY <5>1, FS_Subset
        <5> QED
          BY <5>2, FS_CardinalityType
      <4> QED
        BY <4>2, <4>3 DEF PageOf
    <3>2. MappedPages \in SUBSET Nat
      BY <3>1 DEF MappedPages
    <3> QED
      BY <3>2 DEF SubmitPage, ToSubmit, PagesToProcess
  <2>2. n \in ToSubmit
    BY <2>1, SmallestIn
  <2> QED
    BY <2>2 DEF ToSubmit, Submitted
<1>2. /\ proc' = [proc EXCEPT ![n] = "queued"]
      /\ future' = [future EXCEPT ![n] = "pending"]
      /\ UNCHANGED <<doc, pc, content, shared, images, collected, results, faults>>
      /\ pc = "submit"
  BY DEF SubmitPage
<1> HIDE DEF n
<1>3. TypesOK'
  BY <1>2 DEF LeftInv, TypesOK, ProcStates
<1>4. /\ \A ns : SavedOn(ns)' = SavedOn(ns)
      /\ \A m : PageOf(m)' = PageOf(m)
  BY <1>2 DEF SavedOn, PageOf, Breaks
<1>5. ASSUME NEW m \in Pages PROVE PageOK(m)'
  <2>1. CASE m = n
    BY <1>1, <1>2, <1>4, <2>1 DEF LeftInv, TypesOK, PageOK
  <2>2. CASE m # n
    <3>1. proc'[m] = proc[m] /\ future'[m] = future[m]
      BY <1>2, <2>2 DEF LeftInv, TypesOK
    <3> QED
      BY <1>2, <1>4, <3>1 DEF LeftInv, PageOK
  <2> QED
    BY <2>1, <2>2
<1>6. BooksOK'
  <2>1. Returned' = Returned
    BY <1>2 DEF Returned
  <2>2. \A m \in collected : future'[m] = future[m] /\ future[m] # "none" /\ future[m] # "pending"
    BY <1>1, <1>2 DEF LeftInv, BooksOK, TypesOK, Completed, Submitted
  <2>3. collected \subseteq Completed'
    BY <2>2 DEF LeftInv, TypesOK, Completed, Submitted
  <2> QED
    BY <1>2, <2>1, <2>2, <2>3 DEF LeftInv, BooksOK
<1>7. CopyOK'
  BY <1>2 DEF LeftInv, CopyOK
<1> QED
  BY <1>3, <1>5, <1>6, <1>7 DEF LeftInv

\* The parent with the pool, up to the pictures.
LEMMA ParentInPool ==
  ASSUME LeftInv, SubmitRaises \/ AllSubmitted \/ ProcessResults
  PROVE  LeftInv'
<1> USE DEF poolVars
<1>1. /\ UNCHANGED <<doc, proc, future, content, collected, results, images, shared>>
      /\ \/ pc' = "give up" /\ "submit" \in faults'
         \/ pc' = "collect"
         \/ pc' = "clean" /\ collected = Submitted
  BY DEF SubmitRaises, AllSubmitted, ProcessResults
<1>2. TypesOK'
  BY <1>1 DEF LeftInv, TypesOK
<1>3. (\A n \in Pages : PageOK(n)') /\ Submitted' = Submitted /\ Completed' = Completed
  BY <1>1, SamePool DEF LeftInv
<1>4. BooksOK'
  <2>1. Returned' = Returned
    BY <1>1 DEF Returned
  <2> QED
    BY <1>1, <1>3, <2>1 DEF LeftInv, BooksOK
<1>5. CopyOK'
  BY <1>1 DEF CopyOK
<1> QED
  BY <1>2, <1>3, <1>4, <1>5 DEF LeftInv

\* A completed page is looked at.
LEMMA CollectKeepsLeft ==
  ASSUME LeftInv, NEW n \in Pages, Collect(n)
  PROVE  LeftInv'
<1> USE DEF poolVars
<1>1. /\ UNCHANGED <<doc, proc, future, content, images, shared, pc, faults>>
      /\ pc = "collect" /\ n \in Completed /\ collected' = collected \cup {n}
      /\ results' = IF future[n] = "lines" THEN Append(results, n) ELSE results
  BY DEF Collect
<1>2. TypesOK'
  BY <1>1 DEF LeftInv, TypesOK
<1>3. (\A m \in Pages : PageOK(m)') /\ Completed' = Completed
  BY <1>1, SamePool DEF LeftInv
<1>4. Returned' = IF future[n] = "lines" THEN Returned \cup {n} ELSE Returned
  <2>1. CASE future[n] = "lines"
    <3>1. results \in Seq(Pages) /\ results' = Append(results, n)
      BY <1>1, <2>1 DEF LeftInv, TypesOK
    <3>2. /\ Len(results) \in Nat
          /\ DOMAIN results = 1 .. Len(results)
          /\ DOMAIN results' = 1 .. Len(results) + 1
          /\ results'[Len(results) + 1] = n
          /\ \A k \in 1 .. Len(results) : results'[k] = results[k]
      BY <3>1
    <3>3. ToSet(results') = ToSet(results) \cup {n}
      BY <3>2 DEF ToSet
    <3> QED
      BY <2>1, <3>3 DEF Returned
  <2> QED
    BY <1>1, <2>1 DEF Returned
<1>5. BooksOK'
  BY <1>1, <1>3, <1>4 DEF LeftInv, BooksOK
<1>6. CopyOK'
  BY <1>1 DEF CopyOK
<1> QED
  BY <1>2, <1>3, <1>5, <1>6 DEF LeftInv

\* The pictures of the pages that came back are removed.
LEMMA CleanKeepsLeft ==
  ASSUME LeftInv, CleanImages
  PROVE  LeftInv'
<1> USE DEF poolVars
<1>1. PICK stuck \in SUBSET Remembered :
        /\ images' = images \ (Remembered \ stuck)
        /\ faults' = IF stuck = {} THEN faults ELSE faults \cup {"remove"}
  BY DEF CleanImages
<1>2. /\ UNCHANGED <<doc, proc, future, content, collected, results, shared>>
      /\ pc = "clean" /\ pc' = "leave"
  BY DEF CleanImages
<1>3. TypesOK'
  BY <1>2 DEF LeftInv, TypesOK
<1>4. /\ (\A m \in Pages : PageOK(m)') /\ Completed' = Completed
      /\ Submitted' = Submitted /\ (\A ns : SavedOn(ns)' = SavedOn(ns))
  BY <1>2, SamePool DEF LeftInv
<1>5. "remove" \notin faults' => Cleaned'
  <2> SUFFICES ASSUME "remove" \notin faults' PROVE Cleaned'
    OBVIOUS
  <2>1. TmpIsDefault => images' = images \ SavedOn(Returned)
    BY <1>1 DEF Remembered
  <2>2. collected = Submitted /\ Returned = {n \in collected : future[n] = "lines"}
    BY <1>2 DEF LeftInv, BooksOK
  <2>3. ASSUME NEW n \in Pages, future[n] = "lines"
        PROVE  SavedOn({n}) \subseteq SavedOn(Returned)
    <3>1. n \in Returned
      BY <2>2, <2>3 DEF Submitted
    <3> QED
      BY <3>1 DEF SavedOn
  <2> QED
    BY <1>2, <1>4, <2>1, <2>2, <2>3 DEF Cleaned
<1>6. BooksOK'
  <2>1. Returned' = Returned
    BY <1>2 DEF Returned
  <2> QED
    BY <1>2, <1>4, <1>5, <2>1 DEF LeftInv, BooksOK
<1>7. CopyOK'
  BY <1>2 DEF CopyOK
<1> QED
  BY <1>3, <1>4, <1>6, <1>7 DEF LeftInv

\* The parent after the pictures.
LEMMA ParentAfterPool ==
  ASSUME LeftInv, LeavePool \/ Unshare \/ ProcessTables \/ Combine \/ ParseSimply
  PROVE  LeftInv'
<1> USE DEF poolVars
<1>1. /\ UNCHANGED <<doc, proc, future, content, collected, results, images>>
      /\ faults \subseteq faults'
  BY DEF LeavePool, Unshare, ProcessTables, Combine, ParseSimply
<1>2. /\ \/ pc \in {"leave", "unshare", "tables", "combine", "simple"}
         \/ pc = "give up"
      /\ pc' \in {"unshare", "tables", "combine", "done", "simple", "simply done"}
  BY DEF LeavePool, Unshare, ProcessTables, Combine, ParseSimply
<1>3. TypesOK'
  BY <1>1 DEF LeftInv, TypesOK
<1>4. /\ (\A m \in Pages : PageOK(m)') /\ Completed' = Completed
      /\ Submitted' = Submitted /\ (\A ns : SavedOn(ns)' = SavedOn(ns))
  BY <1>1, SamePool DEF LeftInv
<1>5. BooksOK'
  <2>1. Returned' = Returned
    BY <1>1 DEF Returned
  <2>2. Cleaned' = Cleaned
    BY <1>1, <1>4 DEF Cleaned
  <2>3. "remove" \notin faults' /\ "submit" \notin faults' => Cleaned
    BY <1>1, <1>2 DEF LeftInv, BooksOK
  <2> QED
    BY <1>1, <1>2, <1>4, <2>1, <2>2, <2>3 DEF LeftInv, BooksOK
<1>6. CopyOK'
  <2>1. CASE LeavePool
    <3>1. pc = "give up" => "submit" \in faults
      BY DEF LeftInv, BooksOK
    <3>2. \/ pc' = "unshare"
          \/ pc' = "simple" /\ pc = "give up" /\ faults' = faults
      BY <2>1 DEF LeavePool
    <3> QED
      BY <3>1, <3>2 DEF CopyOK
  <2>2. CASE Unshare
    BY <2>2 DEF Unshare, CopyOK
  <2>3. CASE ProcessTables \/ Combine \/ ParseSimply
    <3>1. pc \in {"tables", "combine", "simple"} /\ UNCHANGED <<shared, faults>>
      BY <2>3 DEF ProcessTables, Combine, ParseSimply
    <3> QED
      BY <3>1 DEF LeftInv, CopyOK
  <2> QED
    BY <2>1, <2>2, <2>3
<1> QED
  BY <1>3, <1>4, <1>5, <1>6 DEF LeftInv

-------------------------------------------------------------------------------
(***************************************************************************)
(* The pool settles futures that are open, and adds pictures only to a     *)
(* page that has not come back.                                            *)
(***************************************************************************)
LEMMA PoolKeepsBooks ==
  ASSUME LeftInv, TypesOK',
         UNCHANGED <<doc, pc, shared, collected, results, faults>>,
         \A m \in Pages :
           future'[m] = future[m] \/ (future[m] = "pending" /\ future'[m] # "none" /\ future'[m] # "pending"),
         \/ images' = images
         \/ \E m \in Pages : future[m] # "none",
         \A m \in Pages : future[m] = "lines" =>
           images' \cap SavedOn({m})' \subseteq images \cap SavedOn({m})
  PROVE  BooksOK' /\ CopyOK'
<1>1. Submitted' = Submitted
  BY DEF Submitted
<1>2. \A m \in collected : m \in Pages /\ future[m] # "pending" /\ future'[m] = future[m]
  BY DEF LeftInv, BooksOK, TypesOK, Completed, Submitted
<1>3. collected \subseteq Completed'
  <2>1. \A m \in collected : m \in Submitted
    BY DEF LeftInv, BooksOK, Completed
  <2> QED
    BY <1>1, <1>2, <2>1 DEF Completed
<1>4. Returned' = Returned
  BY DEF Returned
<1>5. Returned = {n \in collected : future'[n] = "lines"}
  BY <1>2 DEF LeftInv, BooksOK
<1>6. Cleaned => Cleaned'
  <2> SUFFICES ASSUME Cleaned PROVE Cleaned'
    OBVIOUS
  <2>1. \A m \in Pages : future'[m] = "lines" => future[m] = "lines"
    <3> SUFFICES ASSUME NEW m \in Pages, future'[m] = "lines", future[m] # "lines"
                 PROVE  FALSE
      OBVIOUS
    <3>1. future[m] = "pending"
      OBVIOUS
    <3>2. m \in collected
      BY <3>1 DEF Cleaned, Submitted
    <3> QED
      BY <1>2, <3>1, <3>2
  <2>2. TmpIsDefault =>
          \A m \in Pages : future'[m] = "lines" => images' \cap SavedOn({m})' = {}
    BY <2>1 DEF Cleaned
  <2> QED
    BY <1>1, <2>2 DEF Cleaned
<1>7. BooksOK'
  <2>1. pc \in {"load", "share"} => images' = {} /\ \A m \in Pages : future'[m] = "none"
    BY DEF LeftInv, BooksOK
  <2> QED
    BY <1>1, <1>3, <1>4, <1>5, <1>6, <2>1 DEF LeftInv, BooksOK
<1>8. CopyOK'
  BY DEF LeftInv, CopyOK
<1> QED
  BY <1>7, <1>8

\* A process that reads no picture, and the death of one.
LEMMA PoolSettles ==
  ASSUME LeftInv, NEW n \in Pages,
         UNCHANGED <<doc, pc, shared, collected, results, faults>>,
         \/ TakePage(n) \/ LoadPage(n) \/ ReadNothing(n) \/ SendPage(n)
         \/ Terminate(n) \/ Die(n)
  PROVE  LeftInv'
<1>1. /\ proc \in [Pages -> ProcStates]
      /\ future \in [Pages -> {"none", "pending", "lines", "empty", "lost"}]
  BY DEF LeftInv, TypesOK
<1>2. UNCHANGED <<content, images>>
  BY DEF TakePage, LoadPage, ReadNothing, SendPage, Terminate, Die
<1>3. /\ \A ns : SavedOn(ns)' = SavedOn(ns)
      /\ \A m : PageOf(m)' = PageOf(m)
  BY <1>2 DEF SavedOn, PageOf, Breaks
<1>4. /\ proc' \in [Pages -> ProcStates]
      /\ future' \in [Pages -> {"none", "pending", "lines", "empty", "lost"}]
      /\ \A m \in Pages :
           future'[m] = future[m] \/ (future[m] = "pending" /\ future'[m] # "none" /\ future'[m] # "pending")
      /\ \A m \in Pages :
           /\ future'[m] = "none" <=> proc'[m] = "idle"
           /\ proc'[m] \in {"idle", "queued", "loading", "reading"} => content[m] = <<>>
           /\ future'[m] = "empty" => content[m] = <<>> /\ proc'[m] = "gone"
           /\ future'[m] = "lines" => proc'[m] = "gone"
  <2>1. \A m \in Pages :
           /\ future[m] = "none" <=> proc[m] = "idle"
           /\ proc[m] \in {"idle", "queued", "loading", "reading"} => content[m] = <<>>
           /\ future[m] = "empty" => content[m] = <<>> /\ proc[m] = "gone"
           /\ future[m] = "lines" => proc[m] = "gone"
    BY DEF LeftInv, PageOK
  <2>2. CASE TakePage(n)
    <3>1. Queued # {} /\ n = Smallest(Queued)
      BY <2>2 DEF TakePage
    <3>2. Queued \in SUBSET Nat
      BY BoundsAssumption DEF Queued, Pages
    <3>3. proc[n] = "queued"
      <4>1. n \in Queued
        BY <3>1, <3>2, SmallestIn
      <4> QED
        BY <4>1 DEF Queued
    <3> QED
      BY <1>1, <2>1, <2>2, <3>3 DEF TakePage, ProcStates, Busy
  <2>3. CASE LoadPage(n)
    BY <1>1, <2>1, <2>3 DEF LoadPage, Settle, ProcStates, Busy
  <2>4. CASE ReadNothing(n)
    BY <1>1, <2>1, <2>4 DEF ReadNothing, Settle, ProcStates, Busy
  <2>5. CASE SendPage(n)
    BY <1>1, <2>1, <2>5 DEF SendPage, Settle, ProcStates, Busy
  <2>6. CASE Terminate(n)
    BY <1>1, <2>1, <2>6 DEF Terminate, ProcStates, Busy
  <2>7. CASE Die(n)
    BY <1>1, <2>1, <2>7 DEF Die, ProcStates, Busy
  <2> QED
    BY <2>2, <2>3, <2>4, <2>5, <2>6, <2>7
<1>5. TypesOK'
  BY <1>2, <1>4 DEF LeftInv, TypesOK
<1>6. \A m \in Pages : PageOK(m)'
  BY <1>2, <1>3, <1>4 DEF LeftInv, PageOK
<1>7. BooksOK' /\ CopyOK'
  <2>1. \A m \in Pages : future[m] = "lines" =>
           images' \cap SavedOn({m})' \subseteq images \cap SavedOn({m})
    BY <1>2, <1>3
  <2> QED
    BY <1>2, <1>4, <1>5, <2>1, PoolKeepsBooks
<1> QED
  BY <1>5, <1>6, <1>7 DEF LeftInv

\* A page is read: its pictures are its own.
LEMMA ReadKeepsLeft ==
  ASSUME LeftInv, NEW n \in Pages, ReadPage(n),
         UNCHANGED <<doc, pc, shared, collected, results, faults>>
  PROVE  LeftInv'
<1>1. /\ proc \in [Pages -> ProcStates]
      /\ future \in [Pages -> {"none", "pending", "lines", "empty", "lost"}]
      /\ content = [m \in Pages |-> content[m]]
      /\ DOMAIN doc = 1 .. Len(doc) /\ Len(doc) \in Nat /\ Len(doc) <= MaxParagraphs
  BY DEF LeftInv, TypesOK
<1>2. PICK ok \in SUBSET PicItems(ParasOn(n)) :
        /\ content' = [content EXCEPT ![n] = Filled(ContentOf(n), Sorted(ok, Before))]
        /\ images' = images \cup ok
  BY DEF ReadPage
<1>3. /\ proc[n] = "reading" /\ proc' = [proc EXCEPT ![n] = "sending"] /\ future' = future
  BY DEF ReadPage
<1>4. \A item \in ok : /\ item[1] \in DOMAIN doc /\ PageOf(item[1]) = n
                       /\ item \in (1 .. Len(doc)) \X {0, 1}
  BY <1>1 DEF PicItems, ParasOn
<1> DEFINE new == Filled(ContentOf(n), Sorted(ok, Before))
<1>6. \A item \in ToSet(new) : IsPic(item) => item \in ok
  <2> DEFINE S == ItemsOn(n)
  <2>1. S \in SUBSET Items /\ IsFiniteSet(S) /\ ok \in SUBSET PicsOf(S)
    BY <1>1, ItemsOnPage DEF LeftInv, TypesOK, DocOK
  <2>2. ContentOf(n) = Sorted(S, Before)
    BY DEF ContentOf, ItemsOn
  <2> HIDE DEF S
  <2>3. \A x \in ToSet(Filled(Sorted(S, Before), Sorted(ok, Before))) : IsPic(x) => x \in ok
    BY <2>1, FilledFacts
  <2> QED
    BY <2>2, <2>3
<1> HIDE DEF new
<1>7. content' = [m \in Pages |-> IF m = n THEN new ELSE content[m]]
  <2>1. content' = [content EXCEPT ![n] = new]
    BY <1>2 DEF new
  <2> QED
    BY <1>1, <2>1
<1>8. SavedOn({n})' \subseteq ok /\ \A m \in Pages : m # n => SavedOn({m})' = SavedOn({m})
  <2>1. \A m \in Pages : \A item : item \in SavedOn({m})' <=> item \in ToSet(content'[m]) /\ IsPic(item)
    BY DEF SavedOn
  <2>2. content'[n] = new /\ \A m \in Pages : m # n => content'[m] = content[m]
    BY <1>7
  <2> QED
    BY <1>6, <2>1, <2>2, SavedOnOne
<1>9. \A m : PageOf(m)' = PageOf(m)
  BY DEF PageOf, Breaks
<1>10. TypesOK'
  <2>1. content' = [m \in Pages |-> content'[m]]
    BY <1>7
  <2> QED
    BY <1>3, <2>1 DEF LeftInv, TypesOK, ProcStates, Busy
<1>11. ASSUME NEW m \in Pages PROVE PageOK(m)'
  <2>1. CASE m = n
    <3>1. future[n] \notin {"none", "empty", "lines"} /\ proc'[n] = "sending"
      BY <1>1, <1>3 DEF LeftInv, PageOK
    <3> QED
      BY <1>3, <1>4, <1>8, <1>9, <2>1, <3>1 DEF PageOK
  <2>2. CASE m # n
    <3>1. proc'[m] = proc[m] /\ content'[m] = content[m]
      BY <1>1, <1>3, <1>7, <2>2
    <3> QED
      BY <1>3, <1>8, <1>9, <2>2, <3>1 DEF LeftInv, PageOK
  <2> QED
    BY <2>1, <2>2
<1>12. BooksOK' /\ CopyOK'
  <2>1. future[n] # "none" /\ future[n] # "lines"
    BY <1>3 DEF LeftInv, PageOK
  <2>2. ASSUME NEW m \in Pages, future[m] = "lines"
        PROVE  images' \cap SavedOn({m})' \subseteq images \cap SavedOn({m})
    <3>1. m # n /\ SavedOn({m})' = SavedOn({m})
      BY <1>8, <2>1, <2>2
    <3>2. ok \cap SavedOn({m}) = {}
      BY <1>4, <3>1 DEF LeftInv, PageOK
    <3> QED
      BY <1>2, <3>1, <3>2
  <2> QED
    BY <1>3, <1>10, <2>1, <2>2, PoolKeepsBooks
<1> QED
  BY <1>10, <1>11, <1>12 DEF LeftInv

\* Every step keeps it.
LEMMA StepKeepsLeft == LeftInv /\ [Next]_vars => LeftInv'
<1> SUFFICES ASSUME LeftInv, [Next]_vars PROVE LeftInv'
  OBVIOUS
<1>1. CASE ParentMoves
  BY <1>1, ParentBeforePool, SubmitKeepsLeft, ParentInPool, CollectKeepsLeft,
     CleanKeepsLeft, ParentAfterPool DEF ParentMoves
<1>2. CASE \E n \in Pages : PoolStep(n) \/ Death(n)
  <2>1. PICK n \in Pages : PoolStep(n) \/ Death(n)
    BY <1>2
  <2>2. UNCHANGED <<doc, pc, shared, collected, results, faults>>
    BY <2>1 DEF PoolStep, Death
  <2>3. CASE ReadPage(n)
    BY <2>2, <2>3, ReadKeepsLeft
  <2>4. CASE ~ ReadPage(n)
    BY <2>1, <2>2, <2>4, PoolSettles DEF PoolStep, Death, WorkerMoves
  <2> QED
    BY <2>3, <2>4
<1>3. CASE UNCHANGED vars
  <2>1. UNCHANGED <<doc, pc, proc, future, content, shared, images, collected, results, faults>>
    BY <1>3 DEF vars, poolVars
  <2>2. TypesOK' /\ CopyOK'
    BY <2>1 DEF LeftInv, TypesOK, CopyOK
  <2>3. /\ (\A m \in Pages : PageOK(m)') /\ Completed' = Completed
        /\ Submitted' = Submitted /\ (\A ns : SavedOn(ns)' = SavedOn(ns))
    BY <2>1, SamePool DEF LeftInv
  <2>4. Returned' = Returned /\ Cleaned' = Cleaned
    BY <2>1, <2>3 DEF Returned, Cleaned
  <2> QED
    BY <2>1, <2>2, <2>3, <2>4 DEF LeftInv, BooksOK
<1> QED
  BY <1>1, <1>2, <1>3 DEF Next, Progress

\* When every removal worked, a call leaves the shared copy only if the copy or
\* a submission raised, and a picture, where temporary files go to /tmp, only
\* after such a submission or of a page that did not come back.
THEOREM LittleIsLeft == Spec => []NothingLeftBehind
<1>1. LeftInv => NothingLeftBehind
  <2> SUFFICES ASSUME LeftInv, Ended, "remove" \notin faults
               PROVE  /\ shared => faults # {}
                      /\ \A n \in Pages :
                           TmpIsDefault /\ images \cap SavedOn({n}) # {}
                           => "submit" \in faults \/ future[n] = "lost"
    BY DEF NothingLeftBehind
  <2>1. shared => faults # {}
    BY DEF LeftInv, CopyOK, Ended
  <2>2. ASSUME NEW n \in Pages, "submit" \notin faults, future[n] # "lost", TmpIsDefault
        PROVE  images \cap SavedOn({n}) = {}
    <3>1. Cleaned
      BY <2>2 DEF LeftInv, BooksOK, Ended
    <3>2. CASE future[n] = "lines"
      BY <2>2, <3>1, <3>2 DEF Cleaned
    <3>3. CASE future[n] \in {"none", "empty"}
      <4>1. content[n] = <<>>
        BY <3>3 DEF LeftInv, PageOK
      <4> QED
        BY <4>1, SavedOnOne
    <3>4. CASE future[n] = "pending"
      <4>1. n \in collected
        BY <3>1, <3>4 DEF Cleaned, Submitted
      <4> QED
        BY <3>4, <4>1 DEF LeftInv, BooksOK, Completed
    <3> QED
      BY <2>2, <3>2, <3>3, <3>4 DEF LeftInv, TypesOK
  <2> QED
    BY <2>1, <2>2
<1> QED
  BY <1>1, InitLeftInv, StepKeepsLeft, PTL DEF Spec
-------------------------------------------------------------------------------
(***************************************************************************)
(* The types.  That the lines are sequences of items rests on the order of *)
(* the lines naming lines there are; that a page is one rests on what      *)
(* Filled() makes of it.                                                   *)
(***************************************************************************)

\* Nothing has been read at the start.
LEMMA InitTypes == Init => TypeOK
<1> SUFFICES ASSUME Init PROVE TypeOK
  OBVIOUS
<1>1. doc \in Seq(Paragraphs) /\ Len(doc) <= MaxParagraphs
  BY InitLeftInv DEF LeftInv, TypesOK
<1>2. /\ proc \in [Pages -> ProcStates]
      /\ future \in [Pages -> {"none", "pending", "lines", "empty", "lost"}]
      /\ content \in [Pages -> Seq(Items)]
  BY DEF Init, ProcStates
<1>3. /\ results \in Seq(Pages) /\ lines \in Seq(Seq(Items)) /\ answer \in Seq(Items)
  BY DEF Init
<1>4. /\ pc = "load" /\ broken \in BOOLEAN /\ shared \in BOOLEAN
      /\ images \subseteq Items /\ collected \subseteq Pages
      /\ faults \subseteq {"share", "submit", "remove"}
  BY DEF Init
<1> QED
  BY <1>1, <1>2, <1>3, <1>4 DEF TypeOK

\* The parent, where it makes no lines.
LEMMA ParentKeepsTypes ==
  ASSUME TypeOK,
         \/ Load \/ ShareDocument \/ SubmitPage \/ SubmitRaises \/ AllSubmitted
         \/ (\E n \in Pages : Collect(n)) \/ CleanImages \/ LeavePool \/ Unshare
         \/ ProcessTables
  PROVE  TypeOK'
<1> USE DEF poolVars
<1>1. CASE Load \/ ShareDocument \/ SubmitRaises \/ AllSubmitted \/ LeavePool \/ Unshare
           \/ ProcessTables
  <2>1. /\ UNCHANGED <<doc, proc, future, broken, content, images, collected, results,
                       lines, answer>>
        /\ pc' \in {"share", "simple", "submit", "give up", "collect", "unshare",
                    "tables", "combine"}
        /\ shared' \in BOOLEAN
        /\ faults' \subseteq {"share", "submit", "remove"}
    BY <1>1 DEF TypeOK, Load, ShareDocument, SubmitRaises, AllSubmitted, LeavePool,
                Unshare, ProcessTables
  <2> QED
    BY <2>1 DEF TypeOK
<1>2. CASE SubmitPage
  <2>1. PICK n : /\ proc' = [proc EXCEPT ![n] = "queued"]
                 /\ future' = [future EXCEPT ![n] = "pending"]
    BY <1>2 DEF SubmitPage
  <2>2. proc' \in [Pages -> ProcStates]
    BY <2>1 DEF TypeOK, ProcStates
  <2>3. future' \in [Pages -> {"none", "pending", "lines", "empty", "lost"}]
    BY <2>1 DEF TypeOK
  <2>4. UNCHANGED <<doc, pc, broken, content, shared, images, collected, results, lines,
                    answer, faults>>
    BY <1>2 DEF SubmitPage
  <2> QED
    BY <2>2, <2>3, <2>4 DEF TypeOK
<1>3. ASSUME NEW n \in Pages, Collect(n)
      PROVE  TypeOK'
  <2>1. /\ UNCHANGED <<doc, pc, proc, future, broken, content, shared, images, lines,
                       answer, faults>>
        /\ collected' = collected \cup {n}
        /\ results' = Append(results, n) \/ results' = results
    BY <1>3 DEF Collect
  <2>2. results' \in Seq(Pages)
    <3>1. results \in Seq(Pages)
      BY DEF TypeOK
    <3>2. Append(results, n) \in Seq(Pages)
      BY <3>1
    <3> QED
      BY <2>1, <3>1, <3>2
  <2> QED
    BY <2>1, <2>2 DEF TypeOK
<1>4. CASE CleanImages
  <2>1. /\ UNCHANGED <<doc, proc, future, broken, content, shared, collected, results,
                       lines, answer>>
        /\ pc' = "leave" /\ images' \subseteq images
        /\ faults' \subseteq faults \cup {"remove"}
    BY <1>4 DEF CleanImages
  <2> QED
    BY <2>1 DEF TypeOK
<1> QED
  BY <1>1, <1>2, <1>3, <1>4

\* Where it does.
LEMMA LinesKeepTypes ==
  ASSUME TypeOK, ProcessResults \/ Combine \/ ParseSimply
  PROVE  TypeOK'
<1> USE DEF poolVars
<1>1. DocOK /\ results \in Seq(Pages) /\ lines \in Seq(Seq(Items))
  BY DEF TypeOK, DocOK
<1>2. CASE ProcessResults
  <2>1. PICK urls : lines' = [k \in 1 .. Len(results) |-> Shown(results[LineOrder[k]], urls)]
    BY <1>2 DEF ProcessResults
  <2>2. Len(results) \in Nat /\ DOMAIN results = 1 .. Len(results)
    BY <1>1
  <2>3. ASSUME NEW k \in 1 .. Len(results)
        PROVE  Shown(results[LineOrder[k]], urls) \in Seq(Items)
    <3> DEFINE n == results[LineOrder[k]]
    <3>1. LineOrder[k] \in DOMAIN results
      BY <1>1, <2>2, LineOrderFacts
    <3>2. n \in Pages
      BY <1>1, <3>1
    <3> HIDE DEF n
    <3>3. content[n] \in Seq(Items)
      BY <3>2 DEF TypeOK
    <3>4. Shown(n, urls) \in Seq(Items)
      BY <1>1, <3>3, ShownFacts
    <3> QED
      BY <3>4 DEF n
  <2>4. lines' \in [1 .. Len(results) -> Seq(Items)]
    BY <2>1, <2>3
  <2>5. lines' \in Seq(Seq(Items))
    BY <2>2, <2>4
  <2>6. /\ UNCHANGED <<doc, proc, future, broken, content, shared, images, collected,
                       results, answer, faults>>
        /\ pc' = "clean"
    BY <1>2 DEF ProcessResults
  <2> QED
    BY <2>5, <2>6 DEF TypeOK
<1>3. CASE Combine
  <2>1. FlattenSeq(lines) \in Seq(Items)
    <3> DEFINE R == Items \X Items
    <3>1. \A k \in DOMAIN lines : lines[k] \in Seq(Items)
      BY <1>1
    <3>2. \A k \in DOMAIN lines : Ordered(lines[k], R)
      BY <3>1 DEF Ordered
    <3>3. \A k, m \in DOMAIN lines : k < m => Follows(lines[k], lines[m], R)
      <4>1. \A k \in DOMAIN lines : ToSet(lines[k]) \subseteq Items
        BY <3>1 DEF ToSet
      <4> QED
        BY <4>1 DEF Follows
    <3> HIDE DEF R
    <3> QED
      BY <1>1, <3>2, <3>3, FlattenFacts
  <2>2. /\ UNCHANGED <<doc, proc, future, broken, content, shared, images, collected,
                       results, lines, faults>>
        /\ pc' \in {"simple", "done"}
        /\ answer' = FlattenSeq(lines)
    BY <1>3 DEF Combine
  <2> QED
    BY <2>1, <2>2 DEF TypeOK
<1>4. CASE ParseSimply
  <2> DEFINE T == TextItems(DOMAIN doc)
  <2>1. T \in SUBSET Items /\ IsFiniteSet(T)
    <3>1. /\ Len(doc) \in Nat /\ DOMAIN doc = 1 .. Len(doc)
          /\ Len(doc) <= MaxParagraphs /\ MaxParagraphs \in Nat
      BY <1>1, BoundsAssumption DEF DocOK
    <3>2. T \in SUBSET ((1 .. Len(doc)) \X {0, 1})
      BY <3>1 DEF TextItems
    <3>3. IsFiniteSet((1 .. Len(doc)) \X {0, 1})
      BY <3>1, SpotsFinite
    <3>4. IsFiniteSet(T)
      <4> HIDE DEF T
      <4> QED
        BY <3>2, <3>3, FS_Subset
    <3>5. \A x \in T : x \in Items
      BY <3>1, <3>2 DEF Items
    <3> QED
      BY <3>4, <3>5
  <2> HIDE DEF T
  <2>2. Sorted(T, Before) \in Seq(Items) /\ <<>> \in Seq(Items)
    <3>1. Sorted(T, Before) \in Seq(T)
      BY <2>1, SortedItems
    <3> QED
      BY <2>1, <3>1
  <2>3. /\ UNCHANGED <<doc, proc, future, broken, content, shared, images, collected,
                       results, lines, faults>>
        /\ pc' = "simply done"
        /\ answer' \in {Sorted(T, Before), <<>>}
    BY <1>4 DEF ParseSimply, T
  <2> QED
    BY <2>2, <2>3 DEF TypeOK
<1> QED
  BY <1>2, <1>3, <1>4

\* The pool.
LEMMA PoolKeepsTypes ==
  ASSUME TypeOK, NEW n \in Pages, PoolStep(n) \/ Death(n)
  PROVE  TypeOK'
<1>1. /\ UNCHANGED <<doc, pc, shared, collected, results, lines, answer, faults>>
      /\ WorkerMoves(n) \/ Die(n)
  BY DEF PoolStep, Death
<1>2. /\ proc' \in [Pages -> ProcStates]
      /\ future' \in [Pages -> {"none", "pending", "lines", "empty", "lost"}]
      /\ broken' \in BOOLEAN
  <2>1. /\ proc \in [Pages -> ProcStates]
        /\ future \in [Pages -> {"none", "pending", "lines", "empty", "lost"}]
        /\ broken \in BOOLEAN
    BY DEF TypeOK
  <2>2. CASE Die(n)
    BY <2>1, <2>2 DEF Die, ProcStates
  <2>3. CASE WorkerMoves(n)
    BY <2>1, <2>3 DEF WorkerMoves, TakePage, LoadPage, ReadNothing, ReadPage, SendPage,
                      Terminate, Settle, ProcStates, Busy
  <2> QED
    BY <1>1, <2>2, <2>3
<1>3. content' \in [Pages -> Seq(Items)] /\ images' \subseteq Items
  <2>1. CASE ReadPage(n)
    <3>1. PICK ok \in SUBSET PicItems(ParasOn(n)) :
            /\ content' = [content EXCEPT ![n] = Filled(ContentOf(n), Sorted(ok, Before))]
            /\ images' = images \cup ok
      BY <2>1 DEF ReadPage
    <3>2. DocOK
      BY DEF TypeOK, DocOK
    <3> DEFINE new == Filled(ContentOf(n), Sorted(ok, Before))
    <3>3. new \in Seq(Items)
      <4>1. WellRead(new, n)
        BY <3>2, ReadIsWell
      <4> HIDE DEF new
      <4> QED
        BY <3>2, <4>1, ItemsAreItems DEF WellRead
    <3>4. content' = [content EXCEPT ![n] = new]
      BY <3>1
    <3> HIDE DEF new
    <3>5. content' \in [Pages -> Seq(Items)]
      BY <3>3, <3>4 DEF TypeOK
    <3>6. ok \subseteq Items
      BY <3>2, ItemsOnPage DEF ItemsOn
    <3> QED
      BY <3>1, <3>5, <3>6 DEF TypeOK
  <2>2. CASE ~ ReadPage(n)
    <3>1. UNCHANGED <<content, images>>
      BY <1>1, <2>2 DEF WorkerMoves, TakePage, LoadPage, ReadNothing, SendPage, Terminate, Die
    <3> QED
      BY <3>1 DEF TypeOK
  <2> QED
    BY <2>1, <2>2
<1> QED
  BY <1>1, <1>2, <1>3 DEF TypeOK

\* Every step keeps the types.
LEMMA StepKeepsTypes == TypeOK /\ [Next]_vars => TypeOK'
<1> SUFFICES ASSUME TypeOK, [Next]_vars PROVE TypeOK'
  OBVIOUS
<1>1. CASE ParentMoves
  BY <1>1, ParentKeepsTypes, LinesKeepTypes DEF ParentMoves
<1>2. CASE \E n \in Pages : PoolStep(n) \/ Death(n)
  BY <1>2, PoolKeepsTypes
<1>3. CASE UNCHANGED vars
  BY <1>3 DEF vars, poolVars, TypeOK
<1> QED
  BY <1>1, <1>2, <1>3 DEF Next, Progress

\* The variables have their types, for every document and every pool.
THEOREM DocxTypesCorrect == Spec => []TypeOK
BY InitTypes, StepKeepsTypes, PTL DEF Spec

-------------------------------------------------------------------------------
(***************************************************************************)
(* The order of the answer.  A page that came back was read whole, no page *)
(* came back twice, and from the lines on nothing changes that they were   *)
(* made of: what the pool still does concerns pages that are lost.         *)
(***************************************************************************)
PagesRead ==
  \A n \in Pages : future[n] = "lines" \/ proc[n] = "sending" => WellRead(content[n], n)

HasLines == pc \in {"clean", "leave", "unshare", "tables", "combine"}

OrderInv ==
  /\ TypeOK
  /\ LeftInv
  /\ PagesRead
  /\ Distinct
  /\ HasLines => LinesOK
  /\ pc = "done" => AnswerOK

\* Nothing has been read at the start.
LEMMA InitOrder == Init => OrderInv
<1> SUFFICES ASSUME Init PROVE OrderInv
  OBVIOUS
<1>1. PagesRead
  BY DEF Init, PagesRead
<1>2. Distinct
  BY DEF Init, Distinct
<1>3. ~ HasLines /\ pc # "done"
  BY DEF Init, HasLines
<1> QED
  BY <1>1, <1>2, <1>3, InitTypes, InitLeftInv DEF OrderInv

\* The items of a page depend on the document alone.
LEMMA SameDocument ==
  ASSUME doc' = doc
  PROVE  /\ \A n : ParasOn(n)' = ParasOn(n)
         /\ \A n : TextItems(ParasOn(n))' = TextItems(ParasOn(n))
         /\ \A n : PicItems(ParasOn(n))' = PicItems(ParasOn(n))
         /\ \A n : ItemsOn(n)' = ItemsOn(n)
<1>1. \A p : PageOf(p)' = PageOf(p)
  BY DEF PageOf, Breaks
<1>2. \A n : ParasOn(n)' = ParasOn(n)
  BY <1>1 DEF ParasOn
<1>3. /\ \A n : TextItems(ParasOn(n))' = TextItems(ParasOn(n))
      /\ \A n : PicItems(ParasOn(n))' = PicItems(ParasOn(n))
  BY <1>2 DEF TextItems, PicItems
<1> QED
  BY <1>2, <1>3 DEF ItemsOn

\* A page that keeps its content stays read.
LEMMA StaysRead ==
  ASSUME doc' = doc, NEW n, content'[n] = content[n], WellRead(content[n], n)
  PROVE  WellRead(content[n], n)'
BY SameDocument DEF WellRead

\* What the lines and the answer say rests on the pages that came back.
LEMMA SamePages ==
  ASSUME UNCHANGED <<doc, results>>,
         \A n \in Returned : content'[n] = content[n]
  PROVE  /\ Distinct' = Distinct
         /\ AllSaved' = AllSaved
         /\ UNION {TextItems(ParasOn(n)) : n \in Returned}' =
              UNION {TextItems(ParasOn(n)) : n \in Returned}
         /\ lines' = lines /\ LinesOK => LinesOK'
         /\ answer' = answer /\ AnswerOK => AnswerOK'
<1>1. Returned' = Returned
  BY DEF Returned
<1>2. Distinct' = Distinct
  BY DEF Distinct
<1>3. \A n \in Returned : SavedOn({n})' = SavedOn({n})
  BY DEF SavedOn
<1>4. AllSaved' = AllSaved
  BY <1>1, <1>3, SameDocument DEF AllSaved
<1>5. UNION {TextItems(ParasOn(n)) : n \in Returned}' =
        UNION {TextItems(ParasOn(n)) : n \in Returned}
  BY <1>1, SameDocument
<1>6. lines' = lines /\ LinesOK => LinesOK'
  BY <1>4, <1>5 DEF LinesOK
<1>7. answer' = answer /\ AnswerOK => AnswerOK'
  BY <1>4, <1>5 DEF AnswerOK
<1> QED
  BY <1>2, <1>4, <1>5, <1>6, <1>7

\* A page that came back was read, and its process is gone.
LEMMA ReturnedIsRead ==
  ASSUME OrderInv, NEW n \in Returned
  PROVE  n \in Pages /\ future[n] = "lines" /\ proc[n] = "gone" /\ WellRead(content[n], n)
<1>1. n \in collected /\ future[n] = "lines"
  BY DEF OrderInv, LeftInv, BooksOK
<1>2. n \in Pages
  BY <1>1 DEF OrderInv, TypeOK
<1> QED
  BY <1>1, <1>2 DEF OrderInv, LeftInv, PageOK, PagesRead

\* The parent, where it makes no lines.
LEMMA ParentKeepsOrder ==
  ASSUME OrderInv, TypeOK', LeftInv',
         \/ Load \/ ShareDocument \/ SubmitPage \/ SubmitRaises \/ AllSubmitted
         \/ CleanImages \/ LeavePool \/ Unshare \/ ProcessTables \/ ParseSimply
  PROVE  OrderInv'
<1> USE DEF poolVars
<1>1. /\ UNCHANGED <<doc, content, results, lines>>
      /\ HasLines' => HasLines
      /\ pc' # "done"
  BY DEF HasLines, Load, ShareDocument, SubmitPage, SubmitRaises, AllSubmitted,
         CleanImages, LeavePool, Unshare, ProcessTables, ParseSimply
<1>2. ASSUME NEW n \in Pages, future'[n] = "lines" \/ proc'[n] = "sending"
      PROVE  future[n] = "lines" \/ proc[n] = "sending"
  <2>1. CASE SubmitPage
    <3>1. PICK m : /\ proc' = [proc EXCEPT ![m] = "queued"]
                   /\ future' = [future EXCEPT ![m] = "pending"]
      BY <2>1 DEF SubmitPage
    <3>2. /\ proc \in [Pages -> ProcStates]
          /\ future \in [Pages -> {"none", "pending", "lines", "empty", "lost"}]
      BY DEF OrderInv, TypeOK
    <3> QED
      BY <1>2, <3>1, <3>2
  <2>2. CASE ~ SubmitPage
    <3>1. UNCHANGED <<proc, future>>
      BY <2>2 DEF Load, ShareDocument, SubmitRaises, AllSubmitted, CleanImages, LeavePool,
                  Unshare, ProcessTables, ParseSimply
    <3> QED
      BY <1>2, <3>1
  <2> QED
    BY <2>1, <2>2
<1>3. PagesRead'
  BY <1>1, <1>2, StaysRead DEF OrderInv, PagesRead
<1>4. Distinct' /\ (HasLines' => LinesOK')
  BY <1>1, SamePages DEF OrderInv
<1> QED
  BY <1>1, <1>3, <1>4 DEF OrderInv

\* A page is collected: it has not been before.
LEMMA CollectKeepsOrder ==
  ASSUME OrderInv, TypeOK', LeftInv', NEW n \in Pages, Collect(n)
  PROVE  OrderInv'
<1> USE DEF poolVars
<1>1. /\ UNCHANGED <<doc, pc, proc, future, content>>
      /\ pc = "collect" /\ n \notin collected
      /\ results' = IF future[n] = "lines" THEN Append(results, n) ELSE results
  BY DEF Collect
<1>2. PagesRead'
  BY <1>1, StaysRead DEF OrderInv, PagesRead
<1>3. results \in Seq(Pages)
  BY DEF OrderInv, TypeOK
<1>4. n \notin Returned
  BY <1>1 DEF OrderInv, LeftInv, BooksOK
<1>5. \A i \in DOMAIN results : results[i] # n
  BY <1>4 DEF Returned, ToSet
<1>6. Distinct'
  <2>1. \A i, j \in DOMAIN results : results[i] = results[j] => i = j
    BY DEF OrderInv, Distinct
  <2>2. CASE results' = Append(results, n)
    <3>1. /\ Len(results) \in Nat
          /\ DOMAIN results = 1 .. Len(results)
          /\ DOMAIN results' = 1 .. Len(results) + 1
          /\ results'[Len(results) + 1] = n
          /\ \A k \in 1 .. Len(results) : results'[k] = results[k]
      BY <1>3, <2>2
    <3>2. \A k \in 1 .. Len(results) + 1 : k \in 1 .. Len(results) \/ k = Len(results) + 1
      BY <3>1
    <3>3. ASSUME NEW i \in DOMAIN results', NEW j \in DOMAIN results',
                 results'[i] = results'[j]
          PROVE  i = j
      BY <1>5, <2>1, <3>1, <3>2, <3>3
    <3> QED
      BY <3>3 DEF Distinct
  <2>3. CASE results' = results
    BY <2>1, <2>3 DEF Distinct
  <2> QED
    BY <1>1, <2>2, <2>3
<1>7. ~ HasLines' /\ pc' # "done"
  BY <1>1 DEF HasLines
<1> QED
  BY <1>2, <1>6, <1>7 DEF OrderInv

\* The lines are made.
LEMMA ProcessKeepsOrder ==
  ASSUME OrderInv, TypeOK', LeftInv', ProcessResults
  PROVE  OrderInv'
<1> USE DEF poolVars
<1>1. UNCHANGED <<doc, proc, future, content, results>> /\ pc' = "clean"
  BY DEF ProcessResults
<1>2. PagesRead' /\ Distinct'
  BY <1>1, StaysRead, SamePages DEF OrderInv, PagesRead
<1>3. PICK urls : lines' = [k \in 1 .. Len(results) |-> Shown(results[LineOrder[k]], urls)]
  BY DEF ProcessResults
<1>4. LinesOK'
  <2>1. DocOK' /\ (results \in Seq(Pages))'
    BY DEF TypeOK, DocOK
  <2>2. Returned' = Returned
    BY <1>1 DEF Returned
  <2>3. \A n \in Returned : WellRead(content[n], n)'
    BY <1>1, ReturnedIsRead, StaysRead
  <2>4. LineOrder' = LineOrder
    <3>1. \A ns : SavedOn(ns)' = SavedOn(ns)
      BY <1>1 DEF SavedOn
    <3>2. HasPictures' = HasPictures /\ LastPictureLine' = LastPictureLine
      BY <1>1, <2>2, <3>1 DEF HasPictures, LastPictureLine
    <3>3. \A i : PageNumber(i)' = PageNumber(i)
      BY <1>1, <3>2 DEF PageNumber
    <3>4. \A i, j : SortedBefore(i, j)' = SortedBefore(i, j)
      BY <3>3 DEF SortedBefore
    <3> QED
      BY <1>1, <3>4 DEF LineOrder, Sorted
  <2>5. \A n : Shown(n, urls)' = Shown(n, urls)
    BY <1>1 DEF Shown, At, Sorted
  <2>6. LinesWith(urls)' = LinesWith(urls)
    BY <1>1, <2>4, <2>5 DEF LinesWith
  <2>7. LinesMade'
    BY <1>2, <1>3, <2>1, <2>2, <2>3, <2>6 DEF LinesMade, LinesWith
  <2>8. (LinesMade => LinesOK)'
    BY LinesAreOK, PTL
  <2> QED
    BY <2>7, <2>8
<1>5. pc' # "done"
  BY <1>1
<1> QED
  BY <1>2, <1>4, <1>5 DEF OrderInv

\* The lines are joined.
LEMMA CombineKeepsOrder ==
  ASSUME OrderInv, TypeOK', LeftInv', Combine
  PROVE  OrderInv'
<1> USE DEF poolVars
<1>1. /\ UNCHANGED <<doc, proc, future, content, results, lines>>
      /\ pc = "combine" /\ pc' \in {"simple", "done"}
      /\ answer' = FlattenSeq(lines)
  BY DEF Combine
<1>2. PagesRead' /\ Distinct'
  BY <1>1, StaysRead, SamePages DEF OrderInv, PagesRead
<1>3. LinesOK
  BY <1>1 DEF OrderInv, HasLines
<1>4. LinesOK'
  BY <1>1, <1>3, SamePages
<1>5. answer' = FlattenSeq(lines')
  BY <1>1
<1>6. AnswerOK'
  <2>1. (LinesOK /\ answer = FlattenSeq(lines) => AnswerOK)'
    BY JoinedIsOK, PTL
  <2> QED
    BY <1>4, <1>5, <2>1
<1>7. ~ HasLines'
  BY <1>1 DEF HasLines
<1> QED
  BY <1>2, <1>6, <1>7 DEF OrderInv

\* The pool: a page is read whole, and a page that came back stays as it is.
LEMMA PoolKeepsOrder ==
  ASSUME OrderInv, TypeOK', LeftInv', NEW n \in Pages, PoolStep(n) \/ Death(n)
  PROVE  OrderInv'
<1>1. /\ UNCHANGED <<doc, pc, results, lines, answer>>
      /\ WorkerMoves(n) \/ Die(n)
  BY DEF PoolStep, Death
<1>2. /\ proc \in [Pages -> ProcStates]
      /\ future \in [Pages -> {"none", "pending", "lines", "empty", "lost"}]
      /\ content \in [Pages -> Seq(Items)]
      /\ DocOK
  BY DEF OrderInv, TypeOK, DocOK
<1>3. CASE ReadPage(n)
  <2>1. PICK ok \in SUBSET PicItems(ParasOn(n)) :
          content' = [content EXCEPT ![n] = Filled(ContentOf(n), Sorted(ok, Before))]
    BY <1>3 DEF ReadPage
  <2>2. /\ proc[n] = "reading" /\ proc' = [proc EXCEPT ![n] = "sending"]
        /\ future' = future
    BY <1>3 DEF ReadPage
  <2> DEFINE new == Filled(ContentOf(n), Sorted(ok, Before))
  <2>3. WellRead(new, n)
    BY <1>2, ReadIsWell
  <2>4. content' = [content EXCEPT ![n] = new]
    BY <2>1
  <2> HIDE DEF new
  <2>5. content'[n] = new /\ \A m \in Pages : m # n => content'[m] = content[m]
    BY <1>2, <2>4
  <2>6. WellRead(content[n], n)'
    BY <1>1, <2>3, <2>5, SameDocument DEF WellRead
  <2>7. ASSUME NEW m \in Pages, m # n, future'[m] = "lines" \/ proc'[m] = "sending"
        PROVE  WellRead(content[m], m)'
    <3>1. future[m] = "lines" \/ proc[m] = "sending"
      BY <1>2, <2>2, <2>7
    <3>2. WellRead(content[m], m)
      BY <3>1 DEF OrderInv, PagesRead
    <3> QED
      BY <1>1, <2>5, <2>7, <3>2, StaysRead
  <2>8. PagesRead'
    BY <2>6, <2>7 DEF PagesRead
  <2>9. \A m \in Returned : content'[m] = content[m]
    BY <2>2, <2>5, ReturnedIsRead
  <2>10. Distinct' /\ (HasLines' => LinesOK') /\ (pc' = "done" => AnswerOK')
    BY <1>1, <2>9, SamePages DEF OrderInv, HasLines
  <2> QED
    BY <2>8, <2>10 DEF OrderInv
<1>4. CASE ~ ReadPage(n)
  <2>1. content' = content
    BY <1>1, <1>4 DEF WorkerMoves, TakePage, LoadPage, ReadNothing, SendPage, Terminate, Die
  <2>2. ASSUME NEW m \in Pages, future'[m] = "lines" \/ proc'[m] = "sending"
        PROVE  future[m] = "lines" \/ proc[m] = "sending"
    <3>1. CASE Die(n)
      BY <1>2, <2>2, <3>1 DEF Die
    <3>2. CASE WorkerMoves(n)
      BY <1>2, <1>4, <2>2, <3>2 DEF WorkerMoves, TakePage, LoadPage, ReadNothing, SendPage,
                                    Terminate, Settle
    <3> QED
      BY <1>1, <3>1, <3>2
  <2>3. PagesRead'
    BY <1>1, <2>1, <2>2, StaysRead DEF OrderInv, PagesRead
  <2>4. Distinct' /\ (HasLines' => LinesOK') /\ (pc' = "done" => AnswerOK')
    BY <1>1, <2>1, SamePages DEF OrderInv, HasLines
  <2> QED
    BY <2>3, <2>4 DEF OrderInv
<1> QED
  BY <1>3, <1>4

\* Every step keeps it.
LEMMA StepKeepsOrder == OrderInv /\ [Next]_vars => OrderInv'
<1> SUFFICES ASSUME OrderInv, [Next]_vars PROVE OrderInv'
  OBVIOUS
<1>1. TypeOK' /\ LeftInv'
  BY StepKeepsTypes, StepKeepsLeft DEF OrderInv
<1>2. CASE ParentMoves
  BY <1>1, <1>2, ParentKeepsOrder, CollectKeepsOrder, ProcessKeepsOrder, CombineKeepsOrder
     DEF ParentMoves
<1>3. CASE \E n \in Pages : PoolStep(n) \/ Death(n)
  BY <1>1, <1>3, PoolKeepsOrder
<1>4. CASE UNCHANGED vars
  <2>1. UNCHANGED <<doc, pc, proc, future, content, results, lines, answer>>
    BY <1>4 DEF vars, poolVars
  <2>2. PagesRead'
    BY <2>1, StaysRead DEF OrderInv, PagesRead
  <2>3. Distinct' /\ (HasLines' => LinesOK') /\ (pc' = "done" => AnswerOK')
    BY <2>1, SamePages DEF OrderInv, HasLines
  <2> QED
    BY <1>1, <2>2, <2>3 DEF OrderInv
<1> QED
  BY <1>2, <1>3, <1>4 DEF Next, Progress

\* The document made of pages has the texts of every page that came back, once
\* and in order, in whatever order the pages were collected and whatever was
\* lost; and all pictures in their places when all of them could be saved.
THEOREM PagesInOrderCorrect == Spec => []PagesInOrder
<1>1. OrderInv => PagesInOrder
  BY DEF OrderInv, AnswerOK, PagesInOrder
<1> QED
  BY <1>1, InitOrder, StepKeepsOrder, PTL DEF Spec

===============================================================================

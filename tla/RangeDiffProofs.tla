-------------------------- MODULE RangeDiffProofs --------------------------
(***************************************************************************)
(* The range diff, proved for series of every length: an assignment that   *)
(* costs the least never tears apart what the first phase paired, so the   *)
(* matchings that it leaves stale are none, and every commit is listed     *)
(* once.                                                                   *)
(*                                                                         *)
(* Each argument is an exchange: change the assignment in one or two       *)
(* places, and it would have cost less.  Hence the lemmas about sums.      *)
(***************************************************************************)
EXTENDS RangeDiff, FiniteSetTheorems, WellFoundedInduction, TLAPS

(***************************************************************************)
(* Sums over finite domains.                                               *)
(***************************************************************************)

LEMMA LeastOf ==
  ASSUME NEW T \in SUBSET Nat, T # {}
  PROVE  Min(T) \in T /\ \A y \in T : Min(T) <= y
  <1>1. PICK x \in T : \A y \in T : ~ (<<y, x>> \in OpToRel(<, Nat))
    BY NatLessThanWellFounded, WFMin
  <1>2. \A y \in T : <<y, x>> \in OpToRel(<, Nat) <=> y < x
    BY DEF OpToRel
  <1>3. \A y \in T : ~ (y < x)
    BY <1>1, <1>2
  <1>4. \A y \in T : x \in Nat /\ y \in Nat
    OBVIOUS
  <1>5. \A y \in T : x <= y
    BY <1>3, <1>4
  <1>6. QED
    BY <1>5 DEF Min

\* A family of subsets of a finite set has a smallest member.
LEMMA SmallestSet ==
  ASSUME NEW D, IsFiniteSet(D), NEW F \in SUBSET SUBSET D, F # {}
  PROVE  \E s \in F : \A t \in F : Cardinality(s) <= Cardinality(t)
  <1> DEFINE sizes == {Cardinality(s) : s \in F}
  <1>1. \A s \in F : Cardinality(s) \in Nat
    BY FS_Subset, FS_CardinalityType
  <1>2. sizes \in SUBSET Nat /\ sizes # {}
    BY <1>1
  <1>3. Min(sizes) \in sizes /\ \A n \in sizes : Min(sizes) <= n
    BY <1>2, LeastOf
  <1> DEFINE m == Min(sizes)
  <1> HIDE DEF m
  <1>4. PICK s \in F : Cardinality(s) = m
    BY <1>3 DEF m
  <1>5. \A t \in F : m <= Cardinality(t)
    BY <1>3 DEF m
  <1>6. QED
    BY <1>4, <1>5

First(s) == CHOOSE x \in s : TRUE

LEMMA FirstIn ==
  ASSUME NEW s, s # {}
  PROVE  First(s) \in s
  BY DEF First

LEMMA OneLess ==
  ASSUME NEW D, IsFiniteSet(D), NEW s \in SUBSET D, NEW x \in s
  PROVE  /\ s \ {x} \in SUBSET D
         /\ Cardinality(s) \in Nat /\ Cardinality(s \ {x}) = Cardinality(s) - 1
  BY FS_Subset, FS_CardinalityType, FS_RemoveElement

\* What the fold of a sum computes, subset by subset.
Summing(D, h, g) ==
  g = [s \in SUBSET D |-> IF s = {} THEN 0 ELSE h[First(s)] + g[s \ {First(s)}]]

\* The sets of at most n elements, and the sum over those.
Small(D, n) == {s \in SUBSET D : Cardinality(s) <= n}
SummingUpTo(D, h, n, g) ==
  g = [s \in Small(D, n) |-> IF s = {} THEN 0 ELSE h[First(s)] + g[s \ {First(s)}]]

LEMMA SumNext ==
  ASSUME NEW D, IsFiniteSet(D), NEW h, NEW n \in Nat, NEW g, SummingUpTo(D, h, n, g)
  PROVE  \E k : SummingUpTo(D, h, n + 1, k)
  <1> DEFINE Term(k, s) == IF s = {} THEN 0 ELSE h[First(s)] + k[s \ {First(s)}]
             k == [s \in Small(D, n + 1) |-> Term(g, s)]
  <1>1. ASSUME NEW s \in Small(D, n + 1), s # {}
        PROVE  s \ {First(s)} \in Small(D, n)
    <2>1. s \in SUBSET D /\ First(s) \in s /\ Cardinality(s) <= n + 1
      BY <1>1, FirstIn DEF Small
    <2>2. /\ s \ {First(s)} \in SUBSET D
          /\ Cardinality(s) \in Nat /\ Cardinality(s \ {First(s)}) = Cardinality(s) - 1
      BY <2>1, OneLess
    <2>3. QED
      BY <2>1, <2>2 DEF Small
  <1>2. ASSUME NEW s \in Small(D, n)
        PROVE  s \in Small(D, n + 1) /\ g[s] = Term(g, s)
    <2>1. Cardinality(s) \in Nat /\ s \in SUBSET D /\ Cardinality(s) <= n
      BY FS_Subset, FS_CardinalityType DEF Small
    <2>2. s \in Small(D, n + 1)
      BY <2>1 DEF Small
    <2>3. g[s] = Term(g, s)
      BY DEF SummingUpTo
    <2>4. QED
      BY <2>2, <2>3
  <1>3. ASSUME NEW s \in Small(D, n)
        PROVE  k[s] = g[s]
    BY <1>2
  <1>4. ASSUME NEW s \in Small(D, n + 1)
        PROVE  Term(k, s) = Term(g, s)
    <2>1. CASE s = {}
      BY <2>1
    <2>2. CASE s # {}
      <3>1. s \ {First(s)} \in Small(D, n)
        BY <1>1, <2>2
      <3> HIDE DEF k
      <3>2. k[s \ {First(s)}] = g[s \ {First(s)}]
        BY <1>3, <3>1
      <3>3. QED
        BY <2>2, <3>2
    <2>3. QED
      BY <2>1, <2>2
  <1>5. k = [s \in Small(D, n + 1) |-> Term(k, s)]
    BY <1>4
  <1>6. SummingUpTo(D, h, n + 1, k)
    BY <1>5 DEF SummingUpTo
  <1>7. QED
    BY <1>6

LEMMA SumExists ==
  ASSUME NEW D, IsFiniteSet(D), NEW h
  PROVE  \E g : Summing(D, h, g)
  <1> DEFINE missing == {n \in Nat : ~ \E g : SummingUpTo(D, h, n, g)}
  <1>1. missing = {}
    <2> SUFFICES ASSUME missing # {}
                 PROVE  FALSE
      OBVIOUS
    <2> DEFINE m == Min(missing)
    <2>1. m \in missing /\ \A n \in missing : m <= n
      BY LeastOf
    <2> HIDE DEF m
    <2>2. m \in Nat /\ ~ \E g : SummingUpTo(D, h, m, g)
      BY <2>1
    <2>3. CASE m = 0
      <3>1. ASSUME NEW s \in Small(D, 0)
            PROVE  s = {}
        BY FS_Subset, FS_EmptySet, FS_CardinalityType DEF Small
      <3> DEFINE g == [s \in Small(D, 0) |-> 0]
      <3>2. g = [s \in Small(D, 0) |-> IF s = {} THEN 0 ELSE h[First(s)] + g[s \ {First(s)}]]
        BY <3>1
      <3>3. SummingUpTo(D, h, 0, g)
        BY <3>2 DEF SummingUpTo
      <3>4. QED
        BY <2>2, <2>3, <3>3
    <2>4. CASE m # 0
      <3>1. m - 1 \in Nat /\ m - 1 \notin missing
        BY <2>1, <2>2, <2>4
      <3>2. PICK g : SummingUpTo(D, h, m - 1, g)
        BY <3>1
      <3>3. \E k : SummingUpTo(D, h, m - 1 + 1, k)
        BY <3>1, <3>2, SumNext
      <3>4. QED
        BY <2>2, <3>3
    <2>5. QED
      BY <2>3, <2>4
  <1>2. Cardinality(D) \in Nat
    BY FS_CardinalityType
  <1>3. Small(D, Cardinality(D)) = SUBSET D
    BY FS_Subset DEF Small
  <1>4. PICK g : SummingUpTo(D, h, Cardinality(D), g)
    BY <1>1, <1>2
  <1>5. Summing(D, h, g)
    BY <1>3, <1>4 DEF SummingUpTo, Summing
  <1>6. QED
    BY <1>5

\* A sum does not depend on the order in which it is taken.
LEMMA SumAnyOrder ==
  ASSUME NEW D, IsFiniteSet(D), NEW h \in [D -> Nat], NEW g, Summing(D, h, g)
  PROVE  \A s \in SUBSET D : g[s] \in Nat /\ \A x \in s : g[s] = h[x] + g[s \ {x}]
  <1> DEFINE Right(s) == g[s] \in Nat /\ \A x \in s : g[s] = h[x] + g[s \ {x}]
             wrong == {s \in SUBSET D : ~ Right(s)}
  <1> SUFFICES ASSUME wrong # {}
               PROVE  FALSE
    OBVIOUS
  <1>1. PICK s \in wrong : \A t \in wrong : Cardinality(s) <= Cardinality(t)
    BY SmallestSet
  <1>2. s \in SUBSET D /\ ~ Right(s)
    BY <1>1
  <1>3. ASSUME NEW x \in s
        PROVE  s \ {x} \in SUBSET D /\ Right(s \ {x})
    <2>1. s \ {x} \in SUBSET D /\ ~ (Cardinality(s) <= Cardinality(s \ {x}))
      BY <1>2, OneLess
    <2>2. QED
      BY <1>1, <2>1
  <1>4. CASE s = {}
    <2>1. g[{}] = 0
      BY DEF Summing
    <2>2. QED
      BY <1>2, <1>4, <2>1
  <1>5. CASE s # {}
    <2> DEFINE c == First(s)
    <2>1. c \in s
      BY <1>5, FirstIn
    <2>2. g[s] = h[c] + g[s \ {c}]
      BY <1>2, <1>5 DEF Summing
    <2> HIDE DEF c
    <2>3. h[c] \in Nat /\ g[s \ {c}] \in Nat /\ c \in D
      BY <1>2, <1>3, <2>1
    <2>4. g[s] \in Nat
      BY <2>2, <2>3
    <2>5. ASSUME NEW x \in s, x # c
          PROVE  g[s] = h[x] + g[s \ {x}]
      <3>1. g[s \ {c}] = h[x] + g[(s \ {c}) \ {x}]
        BY <1>3, <2>1, <2>5
      <3>2. g[s \ {x}] = h[c] + g[(s \ {x}) \ {c}]
        BY <1>3, <2>1, <2>5
      <3>3. (s \ {c}) \ {x} = (s \ {x}) \ {c}
        OBVIOUS
      <3>4. h[x] \in Nat /\ g[s \ {x}] \in Nat /\ g[(s \ {x}) \ {c}] \in Nat
        <4>1. x \in D
          BY <1>2
        <4>2. g[s \ {x}] \in Nat
          BY <1>3
        <4>3. s \ {c} \in SUBSET D /\ x \in s \ {c} /\ Right(s \ {c})
          BY <1>3, <2>1, <2>5
        <4>4. g[(s \ {c}) \ {x}] \in Nat
          <5>1. (s \ {c}) \ {x} \in SUBSET D
            BY <4>3
          <5>2. /\ Cardinality(s \ {c}) = Cardinality(s) - 1 /\ Cardinality(s) \in Nat
                /\ Cardinality((s \ {c}) \ {x}) = Cardinality(s \ {c}) - 1
            BY <1>2, <2>1, <4>3, OneLess
          <5>3. (s \ {c}) \ {x} \notin wrong
            <6>1. ~ (Cardinality(s) <= Cardinality((s \ {c}) \ {x}))
              BY <5>2
            <6>2. QED
              BY <1>1, <6>1, Zenon
          <5>4. QED
            BY <5>1, <5>3
        <4>5. QED
          BY <3>3, <4>1, <4>2, <4>4
      <3> DEFINE rest == g[(s \ {x}) \ {c}]
      <3>5. /\ g[s] = h[c] + (h[x] + rest) /\ g[s \ {x}] = h[c] + rest
            /\ h[x] \in Nat /\ h[c] \in Nat /\ rest \in Nat
        BY <2>2, <2>3, <3>1, <3>2, <3>3, <3>4
      <3> HIDE DEF rest
      <3>6. QED
        BY <3>5
    <2>6. Right(s)
      BY <2>2, <2>4, <2>5
    <2>7. QED
      BY <1>2, <2>6
  <1>6. QED
    BY <1>4, <1>5

\* SumFunction of the library is that sum.
LEMMA SumIs ==
  ASSUME NEW D, IsFiniteSet(D), NEW h \in [D -> Nat]
  PROVE  \E g : Summing(D, h, g) /\ SumFunction(h) = g[D]
  <1> DEFINE g == CHOOSE k : Summing(D, h, k)
  <1>1. Summing(D, h, g)
    BY SumExists
  <1>2. SumFunction(h) = g[DOMAIN h]
    BY DEF SumFunction, SumFunctionOnSet, FoldFunctionOnSet, MapThenFoldSet, Summing, First
  <1>3. QED
    BY <1>1, <1>2

LEMMA SumWithout ==
  ASSUME NEW D, IsFiniteSet(D), NEW h \in [D -> Nat], NEW g, Summing(D, h, g),
         NEW S \in SUBSET D, NEW x \in S
  PROVE  g[S] \in Nat /\ g[S] = h[x] + g[S \ {x}] /\ g[S \ {x}] \in Nat
  <1>1. S \ {x} \in SUBSET D
    OBVIOUS
  <1>2. g[S] \in Nat
    BY SumAnyOrder
  <1>3. g[S \ {x}] \in Nat
    BY <1>1, SumAnyOrder
  <1>4. g[S] = h[x] + g[S \ {x}]
    BY SumAnyOrder
  <1>5. QED
    BY <1>2, <1>3, <1>4

\* Sums that agree on the elements of a set agree on the set.
LEMMA SumSame ==
  ASSUME NEW D, IsFiniteSet(D), NEW h \in [D -> Nat], NEW k \in [D -> Nat],
         NEW g, Summing(D, h, g), NEW f, Summing(D, k, f),
         NEW S \in SUBSET D, \A x \in S : h[x] = k[x]
  PROVE  g[S] = f[S]
  <1> DEFINE differ == {s \in SUBSET S : g[s] # f[s]}
  <1>1. CASE differ = {}
    BY <1>1
  <1>2. CASE differ # {}
    <2>1. differ \in SUBSET SUBSET D
      OBVIOUS
    <2>2. PICK s \in differ : \A t \in differ : Cardinality(s) <= Cardinality(t)
      BY <1>2, <2>1, SmallestSet
    <2>3. s \in SUBSET S /\ s \in SUBSET D /\ g[s] # f[s]
      BY <2>2
    <2>4. s # {}
      <3>1. g[{}] = 0 /\ f[{}] = 0
        BY DEF Summing
      <3>2. QED
        BY <2>3, <3>1
    <2>5. PICK x \in s : TRUE
      BY <2>4
    <2>6. g[s] = h[x] + g[s \ {x}]
      BY <2>3, SumWithout
    <2>7. f[s] = k[x] + f[s \ {x}]
      BY <2>3, SumWithout
    <2>8. s \ {x} \in SUBSET S /\ ~ (Cardinality(s) <= Cardinality(s \ {x}))
      BY <2>3, OneLess
    <2>9. g[s \ {x}] = f[s \ {x}]
      BY <2>2, <2>8
    <2>10. QED
      BY <2>3, <2>6, <2>7, <2>9
  <1>3. QED
    BY <1>1, <1>2

\* Changing one summand changes the sum by as much.
LEMMA SumChanged ==
  ASSUME NEW D, IsFiniteSet(D), NEW h \in [D -> Nat], NEW k \in [D -> Nat],
         NEW x \in D, \A y \in D \ {x} : k[y] = h[y]
  PROVE  /\ SumFunction(h) \in Nat /\ SumFunction(k) \in Nat
         /\ SumFunction(k) + h[x] = SumFunction(h) + k[x]
  <1>2. PICK g : Summing(D, h, g) /\ SumFunction(h) = g[D]
    BY SumIs
  <1>3. PICK f : Summing(D, k, f) /\ SumFunction(k) = f[D]
    BY SumIs
  <1>4. D \in SUBSET D /\ D \ {x} \in SUBSET D
    OBVIOUS
  <1>5. g[D] \in Nat /\ g[D] = h[x] + g[D \ {x}] /\ g[D \ {x}] \in Nat
    BY <1>2, SumWithout
  <1>6. f[D] \in Nat /\ f[D] = k[x] + f[D \ {x}] /\ f[D \ {x}] \in Nat
    BY <1>3, SumWithout
  <1>7. g[D \ {x}] = f[D \ {x}]
    BY <1>2, <1>3, <1>4, SumSame
  <1>8. h[x] \in Nat /\ k[x] \in Nat
    OBVIOUS
  <1>9. QED
    BY <1>2, <1>3, <1>5, <1>6, <1>7, <1>8

LEMMA SumTyped ==
  ASSUME NEW D, IsFiniteSet(D), NEW h \in [D -> Nat]
  PROVE  SumFunction(h) \in Nat
  BY SumIs, SumAnyOrder
-----------------------------------------------------------------------------
(***************************************************************************)
(* The inductive invariant.                                                *)
(***************************************************************************)

RangeTypeOK ==
  /\ a \in Olds /\ b \in News
  /\ ma \in [DOMAIN a -> {0} \cup DOMAIN b]
  /\ mb \in [DOMAIN b -> {0} \cup DOMAIN a]
  /\ step \in {"exact", "solve", "output", "shown"}

Twins(i, j) == a[i].sha = b[j].sha
AllDistinct == Distinct(a) /\ Distinct(b)
AllShort == Short(a) /\ Short(b)
Allowed(j) == (b[j].size * 60) \div 100
Apart(i, j) == Distance(a[i].size, b[j].size)

\* The first phase matches commits of the same content, and all of them if no
\* content is there twice.
ExactInv ==
  /\ \A i \in DOMAIN a : ma[i] # 0 => Twins(i, ma[i])
  /\ \A j \in DOMAIN b : mb[j] # 0 => Twins(mb[j], j)
  /\ AllDistinct => \A i \in DOMAIN a, j \in DOMAIN b : Twins(i, j) => ma[i] = j /\ mb[j] = i

\* After the second phase an entry of b whose Matching is stale has a twin; with
\* no content twice there is none, and the two sides are each other's inverse.
SettledInv ==
  /\ \A j \in DOMAIN b : mb[j] # 0 => Twins(mb[j], j) \/ ma[mb[j]] = j
  /\ AllDistinct => \A i \in DOMAIN a, j \in DOMAIN b : ma[i] = j <=> mb[j] = i
  /\ AllDistinct /\ AllShort =>
       \A i \in DOMAIN a, j \in DOMAIN b :
         /\ Twins(i, j) => ma[i] = j
         /\ ma[i] = j /\ ~Twins(i, j) => Apart(i, j) <= Allowed(j)
         /\ ma[i] = 0 /\ mb[j] = 0 => Apart(i, j) >= Allowed(j)

Listing ==
  {RemovedEntry(i) : i \in {k \in DOMAIN a : ma[k] = 0}}
  \cup {AddedEntry(j) : j \in {k \in DOMAIN b : mb[k] = 0}}
  \cup {PairEntry(j) : j \in {k \in DOMAIN b : mb[k] # 0}}

RangeInv ==
  /\ RangeTypeOK
  /\ step = "solve" => ExactInv
  /\ step \in {"output", "shown"} => SettledInv
  /\ step = "shown" => out = Listing
-----------------------------------------------------------------------------
(***************************************************************************)
(* Types, and what the assignment costs.                                   *)
(***************************************************************************)

\* The last of some positions is one of them.
LEMMA LastOfIs ==
  ASSUME NEW D, D \subseteq Nat \ {0}, NEW n \in Nat, \A x \in D : x <= n, NEW P \in SUBSET D
  PROVE  IF P = {} THEN LastOf(P) = 0 ELSE LastOf(P) \in P
  <1>1. CASE P = {}
    BY <1>1 DEF LastOf
  <1>2. CASE P # {}
    <2> DEFINE below == {n - x : x \in P}
    <2>1. \A x \in P : x \in Nat /\ n - x \in Nat
      OBVIOUS
    <2>2. below \in SUBSET Nat /\ below # {}
      BY <1>2, <2>1
    <2>3. PICK m \in below : \A y \in below : m <= y
      BY <2>2, LeastOf
    <2>4. PICK x \in P : m = n - x
      BY <2>3
    <2>5. ASSUME NEW y \in P
          PROVE  x >= y
      <3>1. m <= n - y
        BY <2>3
      <3>2. QED
        BY <2>1, <2>4, <3>1
    <2>6. Max(P) \in P
      BY <2>5 DEF Max
    <2>7. QED
      BY <1>2, <2>6 DEF LastOf
  <1>3. QED
    BY <1>1, <1>2

LEMMA SeriesIs ==
  ASSUME NEW s \in Olds \cup News
  PROVE  /\ IsFiniteSet(DOMAIN s) /\ DOMAIN s \subseteq Nat \ {0} /\ 0 \notin DOMAIN s
         /\ \A i \in DOMAIN s : s[i].size \in Nat /\ IsSeries(s[i].files)
         /\ \A P \in SUBSET DOMAIN s : IF P = {} THEN LastOf(P) = 0 ELSE LastOf(P) \in P
  <1>1. s \in Seq(Range(s)) /\ \A i \in DOMAIN s : s[i].size \in Nat /\ IsSeries(s[i].files)
    BY SeriesAssumption DEF IsSeries
  <1>2. Len(s) \in Nat /\ DOMAIN s = 1 .. Len(s)
    BY <1>1
  <1>3. IsFiniteSet(1 .. Len(s))
    BY <1>2, FS_Interval
  <1>4. DOMAIN s \subseteq Nat \ {0} /\ \A x \in DOMAIN s : x <= Len(s)
    BY <1>2
  <1>5. \A P \in SUBSET DOMAIN s : IF P = {} THEN LastOf(P) = 0 ELSE LastOf(P) \in P
    BY <1>2, <1>4, LastOfIs
  <1>6. QED
    BY <1>1, <1>2, <1>3, <1>4, <1>5

LEMMA AllowedTyped ==
  ASSUME RangeTypeOK, NEW j \in DOMAIN b
  PROVE  Allowed(j) \in Nat /\ Allowed(j) <= CreationMax
  <1>1. Allowed(j) <= CreationMax
    BY CostAssumption DEF RangeTypeOK, Allowed
  <1>2. b[j].size \in Nat
    BY SeriesIs DEF RangeTypeOK
  <1> DEFINE n == b[j].size * 60
  <1>3. n \in Nat
    BY <1>2
  <1> HIDE DEF n
  <1>4. n \div 100 \in Nat
    BY <1>3
  <1>5. QED
    BY <1>1, <1>4 DEF n, Allowed

LEMMA Sizes ==
  ASSUME RangeTypeOK, NEW i \in DOMAIN a, NEW j \in DOMAIN b
  PROVE  Apart(i, j) \in Nat /\ (AllShort => Apart(i, j) <= CostMax)
  <1>1. a[i].size \in Nat /\ b[j].size \in Nat
    BY SeriesIs DEF RangeTypeOK
  <1>2. QED
    BY <1>1, CostAssumption DEF Apart, Distance, AllShort, Short

LEMMA CreationTyped ==
  ASSUME RangeTypeOK, NEW j \in DOMAIN b
  PROVE  /\ CreationCost(j) \in Nat /\ CreationCost(j) <= CreationMax
         /\ CreationCost(j) = IF mb[j] = 0 THEN Allowed(j) ELSE CreationMax
  <1>1. CreationCost(j) = IF mb[j] = 0 THEN Allowed(j) ELSE CreationMax
    BY DEF CreationCost, Allowed
  <1>2. QED
    BY <1>1, AllowedTyped, CostAssumption

LEMMA Costs ==
  ASSUME RangeTypeOK, NEW i \in DOMAIN a, NEW j \in DOMAIN b
  PROVE  /\ PairCost(i, j) \in Nat /\ CreationCost(j) \in Nat
         /\ CreationCost(j) <= CreationMax
         /\ ma[i] = j => PairCost(i, j) = 0
         /\ ma[i] = 0 /\ mb[j] = 0 => PairCost(i, j) = Apart(i, j)
         /\ ma[i] # j /\ (ma[i] # 0 \/ mb[j] # 0) => PairCost(i, j) = CostMax
         /\ AllShort => PairCost(i, j) <= CostMax
         /\ CreationCost(j) = IF mb[j] = 0 THEN Allowed(j) ELSE CreationMax
  <1>1. j # 0
    BY SeriesIs DEF RangeTypeOK
  <1>2. PairCost(i, j) = IF ma[i] = j THEN 0
                         ELSE IF ma[i] = 0 /\ mb[j] = 0 THEN Apart(i, j) ELSE CostMax
    BY <1>1 DEF PairCost, Apart
  <1>3. QED
    BY <1>1, <1>2, CreationTyped, Sizes, CostAssumption
-----------------------------------------------------------------------------
(***************************************************************************)
(* What it costs to change an assignment.                                  *)
(***************************************************************************)

Rows(f) == [i \in DOMAIN a |-> RowCost(i, f[i])]
Columns(f) == [j \in DOMAIN b |-> IF j \in Range(f) THEN 0 ELSE CreationCost(j)]

LEMMA Typed ==
  ASSUME RangeTypeOK, NEW f \in Assignments
  PROVE  /\ IsFiniteSet(DOMAIN a) /\ IsFiniteSet(DOMAIN b) /\ 0 \notin DOMAIN b
         /\ \A i \in DOMAIN a, j \in {0} \cup DOMAIN b : RowCost(i, j) \in Nat
         /\ Rows(f) \in [DOMAIN a -> Nat] /\ Columns(f) \in [DOMAIN b -> Nat]
         /\ Cost(f) = SumFunction(Rows(f)) + SumFunction(Columns(f))
         /\ Cost(f) \in Nat
  <1>1. IsFiniteSet(DOMAIN a) /\ IsFiniteSet(DOMAIN b) /\ 0 \notin DOMAIN b
    BY SeriesIs DEF RangeTypeOK
  <1>2. ASSUME NEW i \in DOMAIN a, NEW j \in {0} \cup DOMAIN b
        PROVE  RowCost(i, j) \in Nat
    BY Costs DEF RowCost
  <1>3. \A i \in DOMAIN a : f[i] \in {0} \cup DOMAIN b
    BY DEF Assignments
  <1>4. Rows(f) \in [DOMAIN a -> Nat]
    BY <1>2, <1>3 DEF Rows
  <1>5. ASSUME NEW j \in DOMAIN b
        PROVE  (IF j \in Range(f) THEN 0 ELSE CreationCost(j)) \in Nat
    BY CreationTyped
  <1>6. Columns(f) \in [DOMAIN b -> Nat]
    BY <1>5 DEF Columns
  <1>7. Cost(f) = SumFunction(Rows(f)) + SumFunction(Columns(f))
    BY DEF Cost, Rows, Columns
  <1>8. SumFunction(Rows(f)) \in Nat /\ SumFunction(Columns(f)) \in Nat
    BY <1>1, <1>4, <1>6, SumTyped
  <1>9. QED
    BY <1>1, <1>2, <1>4, <1>6, <1>7, <1>8

LEMMA CheapestIs ==
  ASSUME RangeTypeOK, NEW f \in Cheapest
  PROVE  f \in Assignments /\ \A h \in Assignments : Cost(f) <= Cost(h)
  <1> DEFINE costs == {Cost(h) : h \in Assignments}
  <1>1. f \in Assignments /\ Cost(f) = Min(costs)
    BY DEF Cheapest
  <1>2. costs \in SUBSET Nat /\ costs # {}
    BY <1>1, Typed
  <1>3. \A c \in costs : Min(costs) <= c
    BY <1>2, LeastOf
  <1>4. QED
    BY <1>1, <1>3

LEMMA GivenRange ==
  ASSUME NEW f \in Assignments, NEW i \in DOMAIN a, NEW j \in DOMAIN b, 0 \notin DOMAIN b,
         NEW x \in DOMAIN b
  PROVE  x \in Range([f EXCEPT ![i] = j]) <=> (x \in Range(f) /\ x # f[i]) \/ x = j
  <1> DEFINE h == [f EXCEPT ![i] = j]
  <1>1. f \in [DOMAIN a -> {0} \cup DOMAIN b]
    BY DEF Assignments
  <1>2. \A m \in DOMAIN a : h[m] = IF m = i THEN j ELSE f[m]
    BY <1>1
  <1>3. x \in Range(f) <=> \E m \in DOMAIN a : f[m] = x
    BY <1>1 DEF Range
  <1>4. x \in Range(h) <=> \E m \in DOMAIN a : h[m] = x
    BY <1>1 DEF Range
  <1>5. ASSUME x \in Range(f), x # f[i]
        PROVE  x \in Range(h)
    BY <1>2, <1>3, <1>4, <1>5
  <1>6. ASSUME x \in Range(h), x # j
        PROVE  x \in Range(f) /\ x # f[i]
    <2>1. PICK m \in DOMAIN a : h[m] = x
      BY <1>4, <1>6
    <2>2. m # i /\ f[m] = x
      BY <1>2, <1>6, <2>1
    <2>3. f[i] # x
      BY <2>2 DEF Assignments
    <2>4. QED
      BY <1>3, <2>2, <2>3
  <1>7. j \in Range(h)
    BY <1>2, <1>1 DEF Range
  <1>8. QED
    BY <1>5, <1>6, <1>7

\* Give row i, which had column k (or none, 0), a column j that was free.
LEMMA GiveColumn ==
  ASSUME RangeTypeOK, NEW f \in Cheapest, NEW i \in DOMAIN a, NEW j \in DOMAIN b \ Range(f)
  PROVE  RowCost(i, f[i]) + CreationCost(j)
           <= PairCost(i, j) + (IF f[i] = 0 THEN 0 ELSE CreationCost(f[i]))
  <1> DEFINE h == [f EXCEPT ![i] = j]
             k == f[i]
  <1>1. f \in Assignments /\ j # 0 /\ k \in {0} \cup DOMAIN b /\ j # k
        /\ f \in [DOMAIN a -> {0} \cup DOMAIN b]
    BY CheapestIs, SeriesIs DEF RangeTypeOK, Assignments, Range
  <1>2. h \in Assignments
    BY <1>1 DEF Assignments, Range
  <1>3. Cost(f) <= Cost(h)
    BY <1>2, CheapestIs
  <1>4. /\ Rows(f)[i] = RowCost(i, k) /\ Rows(h)[i] = PairCost(i, j)
        /\ \A x \in DOMAIN a \ {i} : Rows(h)[x] = Rows(f)[x]
    BY <1>1 DEF Rows, RowCost
  <1>5. \A x \in DOMAIN b : x \in Range(h) <=> (x \in Range(f) /\ x # k) \/ x = j
    BY <1>1, Typed, GivenRange
  <1> HIDE DEF h
  <1>6. /\ IsFiniteSet(DOMAIN a) /\ IsFiniteSet(DOMAIN b) /\ 0 \notin DOMAIN b
        /\ Rows(f) \in [DOMAIN a -> Nat] /\ Rows(h) \in [DOMAIN a -> Nat]
        /\ Columns(f) \in [DOMAIN b -> Nat] /\ Columns(h) \in [DOMAIN b -> Nat]
        /\ Cost(f) = SumFunction(Rows(f)) + SumFunction(Columns(f))
        /\ Cost(h) = SumFunction(Rows(h)) + SumFunction(Columns(h))
    BY <1>1, <1>2, Typed
  <1>7. /\ SumFunction(Rows(h)) + RowCost(i, k) = SumFunction(Rows(f)) + PairCost(i, j)
        /\ SumFunction(Rows(h)) \in Nat /\ SumFunction(Rows(f)) \in Nat
        /\ RowCost(i, k) \in Nat /\ PairCost(i, j) \in Nat
    <2>1. /\ SumFunction(Rows(f)) \in Nat /\ SumFunction(Rows(h)) \in Nat
          /\ SumFunction(Rows(h)) + Rows(f)[i] = SumFunction(Rows(f)) + Rows(h)[i]
      BY <1>4, <1>6, SumChanged
    <2>2. RowCost(i, k) \in Nat /\ PairCost(i, j) \in Nat
      BY <1>1, Costs, Typed
    <2>3. QED
      BY <1>4, <2>1, <2>2
  <1> DEFINE onto == [Columns(f) EXCEPT ![j] = 0]
  <1>8. /\ onto \in [DOMAIN b -> Nat] /\ onto[j] = 0 /\ Columns(f)[j] = CreationCost(j)
        /\ \A x \in DOMAIN b \ {j} : onto[x] = Columns(f)[x]
    BY <1>6 DEF Columns
  <1> HIDE DEF onto
  <1>9. /\ SumFunction(onto) + CreationCost(j) = SumFunction(Columns(f))
        /\ SumFunction(onto) \in Nat /\ SumFunction(Columns(f)) \in Nat
        /\ CreationCost(j) \in Nat
    <2>1. /\ SumFunction(Columns(f)) \in Nat /\ SumFunction(onto) \in Nat
          /\ SumFunction(onto) + Columns(f)[j] = SumFunction(Columns(f)) + onto[j]
      BY <1>6, <1>8, SumChanged
    <2>2. CreationCost(j) \in Nat
      BY CreationTyped
    <2>3. QED
      BY <1>8, <2>1, <2>2
  <1>10. \A x \in DOMAIN b : Columns(h)[x] = IF x \in Range(h) THEN 0 ELSE CreationCost(x)
    BY DEF Columns
  <1>11. \A x \in DOMAIN b : Columns(f)[x] = IF x \in Range(f) THEN 0 ELSE CreationCost(x)
    BY DEF Columns
  <1>12. CASE k = 0
    <2>1. \A x \in DOMAIN b : Columns(h)[x] = onto[x]
      BY <1>5, <1>6, <1>8, <1>10, <1>11, <1>12
    <2>2. Columns(h) = onto
      BY <1>6, <1>8, <2>1
    <2>3. QED
      BY <1>3, <1>6, <1>7, <1>9, <1>12, <2>2
  <1>13. CASE k # 0
    <2>1. k \in DOMAIN b /\ k \in Range(f) /\ k # j /\ CreationCost(k) \in Nat
      BY <1>1, <1>13, CreationTyped DEF Range
    <2>2. onto[k] = 0 /\ Columns(h)[k] = CreationCost(k)
      BY <1>5, <1>8, <1>10, <1>11, <2>1
    <2>3. \A x \in DOMAIN b \ {k} : Columns(h)[x] = onto[x]
      BY <1>5, <1>8, <1>10, <1>11
    <2>4. /\ SumFunction(Columns(h)) \in Nat /\ SumFunction(onto) \in Nat
          /\ SumFunction(Columns(h)) + onto[k] = SumFunction(onto) + Columns(h)[k]
      BY <1>6, <1>8, <2>1, <2>3, SumChanged
    <2>5. SumFunction(Columns(h)) = SumFunction(onto) + CreationCost(k)
      BY <2>2, <2>4
    <2> DEFINE rf == SumFunction(Rows(f))
               rh == SumFunction(Rows(h))
               cf == SumFunction(Columns(f))
               so == SumFunction(onto)
    <2>6. /\ rf \in Nat /\ rh \in Nat /\ cf \in Nat /\ so \in Nat
          /\ rf + cf <= rh + (so + CreationCost(k))
          /\ rh + RowCost(i, k) = rf + PairCost(i, j)
          /\ so + CreationCost(j) = cf
      BY <1>3, <1>6, <1>7, <1>9, <2>5
    <2> HIDE DEF rf, rh, cf, so
    <2>7. RowCost(i, k) + CreationCost(j) <= PairCost(i, j) + CreationCost(k)
      BY <1>7, <1>9, <2>1, <2>6
    <2>8. QED
      BY <1>13, <2>7
  <1>14. QED
    BY <1>12, <1>13

\* Leave row i without the column it had.
LEMMA LeaveColumn ==
  ASSUME RangeTypeOK, NEW f \in Cheapest, NEW i \in DOMAIN a, f[i] # 0
  PROVE  PairCost(i, f[i]) <= CreationCost(f[i])
  <1> DEFINE h == [f EXCEPT ![i] = 0]
             k == f[i]
  <1>1. /\ f \in Assignments /\ k \in DOMAIN b /\ f \in [DOMAIN a -> {0} \cup DOMAIN b]
        /\ 0 \notin DOMAIN b
    BY CheapestIs, Typed DEF Assignments
  <1>2. h \in Assignments
    BY <1>1 DEF Assignments
  <1>3. Cost(f) <= Cost(h)
    BY <1>2, CheapestIs
  <1>4. /\ Rows(f)[i] = PairCost(i, k) /\ Rows(h)[i] = 0 /\ PairCost(i, k) \in Nat
        /\ \A x \in DOMAIN a \ {i} : Rows(h)[x] = Rows(f)[x]
    BY <1>1, Costs DEF Rows, RowCost
  <1>5. /\ IsFiniteSet(DOMAIN a) /\ IsFiniteSet(DOMAIN b)
        /\ Rows(f) \in [DOMAIN a -> Nat] /\ Rows(h) \in [DOMAIN a -> Nat]
        /\ Columns(f) \in [DOMAIN b -> Nat] /\ Columns(h) \in [DOMAIN b -> Nat]
        /\ Cost(f) = SumFunction(Rows(f)) + SumFunction(Columns(f))
        /\ Cost(h) = SumFunction(Rows(h)) + SumFunction(Columns(h))
    BY <1>1, <1>2, Typed
  <1>6. /\ SumFunction(Rows(f)) \in Nat /\ SumFunction(Rows(h)) \in Nat
        /\ SumFunction(Rows(h)) + Rows(f)[i] = SumFunction(Rows(f)) + Rows(h)[i]
    <2> HIDE DEF h
    <2>1. QED
      BY <1>4, <1>5, SumChanged
  <1>7. \A x \in DOMAIN b : x \in Range(h) <=> x \in Range(f) /\ x # k
    <2> TAKE x \in DOMAIN b
    <2>1. \A m \in DOMAIN a : h[m] = IF m = i THEN 0 ELSE f[m]
      BY <1>1
    <2>2. x \in Range(f) <=> \E m \in DOMAIN a : f[m] = x
      BY <1>1 DEF Range
    <2>3. x \in Range(h) <=> \E m \in DOMAIN a : h[m] = x
      BY <1>1 DEF Range
    <2>4. ASSUME NEW m \in DOMAIN a, f[m] = x, x # k
          PROVE  h[m] = x
      BY <2>1, <2>4
    <2>5. ASSUME NEW m \in DOMAIN a, h[m] = x
          PROVE  f[m] = x /\ x # k
      <3>1. m # i /\ f[m] = x
        BY <1>1, <2>1, <2>5
      <3>2. QED
        BY <1>1, <3>1 DEF Assignments
    <2>6. QED
      BY <2>2, <2>3, <2>4, <2>5
  <1> HIDE DEF h
  <1>8. /\ Columns(f)[k] = 0 /\ Columns(h)[k] = CreationCost(k) /\ CreationCost(k) \in Nat
        /\ \A x \in DOMAIN b \ {k} : Columns(h)[x] = Columns(f)[x]
    <2>1. k \in Range(f)
      BY <1>1 DEF Range
    <2>2. QED
      BY <1>1, <1>7, <2>1, CreationTyped DEF Columns
  <1>9. /\ SumFunction(Columns(f)) \in Nat /\ SumFunction(Columns(h)) \in Nat
        /\ SumFunction(Columns(h)) + Columns(f)[k] = SumFunction(Columns(f)) + Columns(h)[k]
    BY <1>1, <1>5, <1>8, SumChanged
  <1>10. QED
    BY <1>3, <1>4, <1>5, <1>6, <1>8, <1>9

\* Let rows i and m exchange what they have, a column or none.
LEMMA SwapColumns ==
  ASSUME RangeTypeOK, NEW f \in Cheapest, NEW i \in DOMAIN a, NEW m \in DOMAIN a, i # m
  PROVE  RowCost(i, f[i]) + RowCost(m, f[m]) <= RowCost(i, f[m]) + RowCost(m, f[i])
  <1> DEFINE j == f[m]
             k == f[i]
             half == [f EXCEPT ![i] = j]
             h == [half EXCEPT ![m] = k]
  <1>1. /\ f \in Assignments /\ k \in {0} \cup DOMAIN b /\ j \in {0} \cup DOMAIN b
        /\ f \in [DOMAIN a -> {0} \cup DOMAIN b]
    BY CheapestIs DEF Assignments
  <1>2. /\ h \in [DOMAIN a -> {0} \cup DOMAIN b]
        /\ \A x \in DOMAIN a : h[x] = IF x = m THEN k ELSE IF x = i THEN j ELSE f[x]
    BY <1>1
  <1>3. h \in Assignments
    <2>1. ASSUME NEW x \in DOMAIN a, NEW y \in DOMAIN a, h[x] = h[y], h[x] # 0
          PROVE  x = y
      BY <1>1, <1>2, <2>1 DEF Assignments
    <2>2. QED
      BY <1>2, <2>1 DEF Assignments
  <1>4. Cost(f) <= Cost(h)
    BY <1>3, CheapestIs
  <1>5. Range(h) = Range(f)
    <2>1. \A y : y \in Range(f) <=> \E x \in DOMAIN a : f[x] = y
      BY <1>1 DEF Range
    <2>2. \A y : y \in Range(h) <=> \E x \in DOMAIN a : h[x] = y
      BY <1>2 DEF Range
    <2>3. ASSUME NEW x \in DOMAIN a
          PROVE  f[x] \in Range(h) /\ h[x] \in Range(f)
      <3>1. h[i] = f[m] /\ h[m] = f[i] /\ (x # i /\ x # m => h[x] = f[x])
        BY <1>2
      <3>2. QED
        BY <2>1, <2>2, <3>1
    <2>4. QED
      BY <2>1, <2>2, <2>3
  <1>6. Columns(h) = Columns(f)
    BY <1>5 DEF Columns
  <1> DEFINE r == Rows(f)
             s == [r EXCEPT ![i] = RowCost(i, j)]
             t == [s EXCEPT ![m] = RowCost(m, k)]
  <1>7. /\ r \in [DOMAIN a -> Nat] /\ IsFiniteSet(DOMAIN a)
        /\ RowCost(i, j) \in Nat /\ RowCost(m, k) \in Nat
        /\ RowCost(i, k) \in Nat /\ RowCost(m, j) \in Nat
    BY <1>1, Typed
  <1>8. r[i] = RowCost(i, k) /\ r[m] = RowCost(m, j)
    BY DEF Rows
  <1>9. Rows(h) = t
    BY <1>2 DEF Rows
  <1>10. /\ Cost(f) = SumFunction(r) + SumFunction(Columns(f))
         /\ Cost(h) = SumFunction(Rows(h)) + SumFunction(Columns(h))
         /\ SumFunction(Columns(f)) \in Nat
    BY <1>1, <1>3, Typed, SumTyped
  <1> HIDE DEF h, r, half
  <1>11. /\ s \in [DOMAIN a -> Nat] /\ s[i] = RowCost(i, j) /\ s[m] = r[m]
         /\ \A x \in DOMAIN a \ {i} : s[x] = r[x]
    BY <1>7
  <1> HIDE DEF s
  <1>12. /\ t \in [DOMAIN a -> Nat] /\ t[m] = RowCost(m, k)
         /\ \A x \in DOMAIN a \ {m} : t[x] = s[x]
    BY <1>7, <1>11
  <1> HIDE DEF t
  <1>13. /\ SumFunction(r) \in Nat /\ SumFunction(s) \in Nat
         /\ SumFunction(s) + r[i] = SumFunction(r) + s[i]
    BY <1>7, <1>11, SumChanged
  <1>14. /\ SumFunction(t) \in Nat
         /\ SumFunction(t) + s[m] = SumFunction(s) + t[m]
    BY <1>7, <1>11, <1>12, SumChanged
  <1>15. QED
    BY <1>4, <1>6, <1>7, <1>8, <1>9, <1>10, <1>11, <1>12, <1>13, <1>14
-----------------------------------------------------------------------------
(***************************************************************************)
(* The assignment respects what the first phase paired.                    *)
(***************************************************************************)

LEMMA Matched ==
  ASSUME RangeTypeOK, ExactInv, AllDistinct, NEW i \in DOMAIN a, NEW j \in DOMAIN b, Twins(i, j)
  PROVE  /\ ma[i] = j /\ mb[j] = i /\ i # 0 /\ j # 0
         /\ PairCost(i, j) = 0 /\ CreationCost(j) = CreationMax
         /\ \A k \in DOMAIN b : k # j => PairCost(i, k) = CostMax
         /\ \A m \in DOMAIN a : m # i => PairCost(m, j) = CostMax
  <1>1. ma[i] = j /\ mb[j] = i
    BY DEF ExactInv
  <1>2. i # 0 /\ j # 0
    BY SeriesIs DEF RangeTypeOK
  <1>3. PairCost(i, j) = 0 /\ CreationCost(j) = CreationMax
    BY <1>1, <1>2, Costs
  <1>4. ASSUME NEW k \in DOMAIN b, k # j
        PROVE  PairCost(i, k) = CostMax
    BY <1>1, <1>2, <1>4, Costs
  <1>5. ASSUME NEW m \in DOMAIN a, m # i
        PROVE  PairCost(m, j) = CostMax
    <2>1. ma[m] # j
      BY <1>2, <1>5 DEF ExactInv, Twins, AllDistinct, Distinct
    <2>2. QED
      BY <1>1, <1>2, <2>1, Costs
  <1>6. QED
    BY <1>1, <1>2, <1>3, <1>4, <1>5

\* A commit with a twin is not shown as new ...
LEMMA TwinTaken ==
  ASSUME RangeTypeOK, ExactInv, AllDistinct, NEW i \in DOMAIN a, NEW j \in DOMAIN b, Twins(i, j),
         NEW f \in Cheapest
  PROVE  j \in Range(f)
  <1> SUFFICES ASSUME j \notin Range(f)
               PROVE  FALSE
    OBVIOUS
  <1> DEFINE k == f[i]
  <1>1. RowCost(i, k) + CreationCost(j) <= PairCost(i, j) + (IF k = 0 THEN 0 ELSE CreationCost(k))
    BY GiveColumn
  <1>2. f \in Assignments /\ k \in {0} \cup DOMAIN b /\ k # j
    BY CheapestIs DEF Assignments, Range
  <1>3. PairCost(i, j) = 0 /\ CreationCost(j) = CreationMax
    BY Matched
  <1>4. RowCost(i, k) \in Nat /\ CreationMax \in Nat \ {0} /\ CostMax \in Nat \ {0}
    BY <1>2, Typed, CostAssumption
  <1> HIDE DEF k
  <1>5. CASE k = 0
    BY <1>1, <1>3, <1>4, <1>5
  <1>6. CASE k # 0
    <2>1. k \in DOMAIN b
      BY <1>2, <1>6
    <2>2. RowCost(i, k) = CostMax
      BY <1>2, <1>6, <2>1, Matched DEF RowCost
    <2>3. CreationCost(k) \in Nat /\ CreationCost(k) <= CreationMax
      BY <2>1, CreationTyped
    <2>4. CostMax + CreationMax <= 0 + CreationCost(k)
      BY <1>1, <1>3, <1>6, <2>2
    <2>5. QED
      BY <1>4, <2>3, <2>4
  <1>7. QED
    BY <1>5, <1>6

\* ... nor as removed ...
LEMMA TwinStays ==
  ASSUME RangeTypeOK, ExactInv, AllDistinct, NEW i \in DOMAIN a, NEW j \in DOMAIN b, Twins(i, j),
         NEW f \in Cheapest
  PROVE  f[i] # 0
  <1> SUFFICES ASSUME f[i] = 0
               PROVE  FALSE
    OBVIOUS
  <1>1. PICK m \in DOMAIN a : f[m] = j
    BY TwinTaken, CheapestIs DEF Range, Assignments
  <1>2. j # 0 /\ PairCost(i, j) = 0 /\ (m # i => PairCost(m, j) = CostMax)
    BY Matched
  <1>3. m # i
    BY <1>1, <1>2
  <1>4. RowCost(i, 0) + RowCost(m, j) <= RowCost(i, j) + RowCost(m, 0)
    BY <1>1, <1>3, SwapColumns
  <1>5. RowCost(i, 0) = 0 /\ RowCost(m, 0) = 0 /\ RowCost(i, j) = 0 /\ RowCost(m, j) = CostMax
    BY <1>2, <1>3 DEF RowCost
  <1>6. QED
    BY <1>4, <1>5, CostAssumption

\* ... and if no patch is too long, as nothing but its twin.
LEMMA TwinsTogether ==
  ASSUME RangeTypeOK, ExactInv, AllDistinct, NEW i \in DOMAIN a, NEW j \in DOMAIN b, Twins(i, j),
         NEW f \in Cheapest, AllShort
  PROVE  f[i] = j
  <1> SUFFICES ASSUME f[i] # j
               PROVE  FALSE
    OBVIOUS
  <1> DEFINE k == f[i]
  <1>1. PICK m \in DOMAIN a : f[m] = j
    BY TwinTaken, CheapestIs DEF Range, Assignments
  <1>2. k \in DOMAIN b /\ k # j /\ k # 0
    BY TwinStays, CheapestIs DEF Assignments
  <1>3. m # i
    BY <1>1, <1>2
  <1>4. RowCost(i, k) + RowCost(m, j) <= RowCost(i, j) + RowCost(m, k)
    BY <1>1, <1>3, SwapColumns
  <1>5. j # 0 /\ PairCost(i, j) = 0 /\ PairCost(m, j) = CostMax /\ PairCost(i, k) = CostMax
    BY <1>2, <1>3, Matched
  <1> HIDE DEF k
  <1>6. /\ RowCost(i, k) = CostMax /\ RowCost(m, j) = CostMax
        /\ RowCost(i, j) = 0 /\ RowCost(m, k) = PairCost(m, k)
    BY <1>2, <1>5 DEF RowCost
  <1>7. PairCost(m, k) \in Nat /\ PairCost(m, k) <= CostMax
    BY <1>2, Costs
  <1>8. QED
    BY <1>4, <1>6, <1>7, CostAssumption
-----------------------------------------------------------------------------
(***************************************************************************)
(* The steps.                                                              *)
(***************************************************************************)

LEMMA RangeInit ==
  ASSUME Init
  PROVE  RangeInv
  BY DEF Init, RangeInv, RangeTypeOK

LEMMA FindTyped ==
  ASSUME RangeTypeOK, FindExactMatches
  PROVE  /\ \A i \in DOMAIN a : IF ma'[i] = 0 THEN \A j \in DOMAIN b : ~ Twins(i, j)
                                ELSE ma'[i] \in DOMAIN b /\ Twins(i, ma'[i])
         /\ \A j \in DOMAIN b : IF mb'[j] = 0 THEN \A i \in DOMAIN a : ~ Twins(i, j)
                                ELSE mb'[j] \in DOMAIN a /\ Twins(mb'[j], j)
  <1>1. ASSUME NEW s \in Olds \cup News, NEW P \in SUBSET DOMAIN s
        PROVE  IF LastOf(P) = 0 THEN P = {} ELSE LastOf(P) \in P
    <2>1. 0 \notin DOMAIN s /\ IF P = {} THEN LastOf(P) = 0 ELSE LastOf(P) \in P
      BY SeriesIs
    <2>2. QED
      BY <2>1
  <1>2. a \in Olds \cup News /\ b \in Olds \cup News
    BY DEF RangeTypeOK
  <1>3. ASSUME NEW i \in DOMAIN a
        PROVE  IF ma'[i] = 0 THEN \A j \in DOMAIN b : ~ Twins(i, j)
               ELSE ma'[i] \in DOMAIN b /\ Twins(i, ma'[i])
    <2> DEFINE P == {j \in DOMAIN b : b[j].sha = a[i].sha}
    <2>1. ma'[i] = LastOf(P) /\ P \in SUBSET DOMAIN b
      BY DEF FindExactMatches
    <2>2. IF LastOf(P) = 0 THEN P = {} ELSE LastOf(P) \in P
      BY <1>1, <1>2, <2>1
    <2>3. QED
      BY <2>1, <2>2 DEF Twins
  <1>4. ASSUME NEW j \in DOMAIN b
        PROVE  IF mb'[j] = 0 THEN \A i \in DOMAIN a : ~ Twins(i, j)
               ELSE mb'[j] \in DOMAIN a /\ Twins(mb'[j], j)
    <2> DEFINE P == {i \in DOMAIN a : a[i].sha = b[j].sha}
    <2>1. mb'[j] = LastOf(P) /\ P \in SUBSET DOMAIN a
      BY DEF FindExactMatches
    <2>2. IF LastOf(P) = 0 THEN P = {} ELSE LastOf(P) \in P
      BY <1>1, <1>2, <2>1
    <2>3. QED
      BY <2>1, <2>2 DEF Twins
  <1>5. QED
    BY <1>3, <1>4

LEMMA FindStep ==
  ASSUME RangeTypeOK, FindExactMatches
  PROVE  RangeTypeOK' /\ ExactInv'
  <1>1. /\ \A i \in DOMAIN a : IF ma'[i] = 0 THEN \A j \in DOMAIN b : ~ Twins(i, j)
                               ELSE ma'[i] \in DOMAIN b /\ Twins(i, ma'[i])
        /\ \A j \in DOMAIN b : IF mb'[j] = 0 THEN \A i \in DOMAIN a : ~ Twins(i, j)
                               ELSE mb'[j] \in DOMAIN a /\ Twins(mb'[j], j)
    BY FindTyped
  <1>2. a' = a /\ b' = b /\ step' = "solve"
    BY DEF FindExactMatches
  <1>3. /\ ma' \in [DOMAIN a -> {0} \cup DOMAIN b]
        /\ mb' \in [DOMAIN b -> {0} \cup DOMAIN a]
    <2>1. /\ ma' = [i \in DOMAIN a |-> LastOf({j \in DOMAIN b : b[j].sha = a[i].sha})]
          /\ mb' = [j \in DOMAIN b |-> LastOf({i \in DOMAIN a : a[i].sha = b[j].sha})]
      BY DEF FindExactMatches
    <2>2. DOMAIN ma' = DOMAIN a /\ DOMAIN mb' = DOMAIN b
      BY <2>1
    <2>3. /\ \A i \in DOMAIN a : ma'[i] \in {0} \cup DOMAIN b
          /\ \A j \in DOMAIN b : mb'[j] \in {0} \cup DOMAIN a
      BY <1>1
    <2>4. /\ ma' = [i \in DOMAIN a |-> ma'[i]]
          /\ mb' = [j \in DOMAIN b |-> mb'[j]]
      BY <2>1, <2>2
    <2>5. QED
      BY <2>3, <2>4
  <1>4. RangeTypeOK'
    BY <1>2, <1>3 DEF RangeTypeOK
  <1>5. ASSUME AllDistinct, NEW i \in DOMAIN a, NEW j \in DOMAIN b, Twins(i, j)
        PROVE  ma'[i] = j /\ mb'[j] = i
    <2>1. ma'[i] \in DOMAIN b /\ Twins(i, ma'[i]) /\ mb'[j] \in DOMAIN a /\ Twins(mb'[j], j)
      BY <1>1, <1>5
    <2>2. QED
      BY <1>5, <2>1 DEF Twins, AllDistinct, Distinct
  <1>6. AllDistinct' <=> AllDistinct
    BY <1>2 DEF AllDistinct, Distinct
  <1>7. ExactInv'
    BY <1>1, <1>2, <1>5, <1>6 DEF ExactInv, Twins
  <1>8. QED
    BY <1>4, <1>7

LEMMA SolveTells ==
  ASSUME RangeTypeOK, NEW f \in Cheapest, Overwrite(f)
  PROVE  /\ f \in [DOMAIN a -> {0} \cup DOMAIN b]
         /\ \A i, k \in DOMAIN a : f[i] = f[k] /\ f[i] # 0 => i = k
         /\ \A i \in DOMAIN a : ma'[i] = IF f[i] = 0 THEN ma[i] ELSE f[i]
         /\ \A i \in DOMAIN a, j \in DOMAIN b : f[i] = j => mb'[j] = i
         /\ \A j \in DOMAIN b : (\A i \in DOMAIN a : f[i] # j) => mb'[j] = mb[j]
         /\ RangeTypeOK /\ 0 \notin DOMAIN b /\ 0 \notin DOMAIN a
         /\ ma' \in [DOMAIN a -> {0} \cup DOMAIN b]
         /\ mb' \in [DOMAIN b -> {0} \cup DOMAIN a]
  <1>1. f \in Assignments
    BY CheapestIs
  <1>2. /\ f \in [DOMAIN a -> {0} \cup DOMAIN b]
        /\ \A i, k \in DOMAIN a : f[i] = f[k] /\ f[i] # 0 => i = k
    BY <1>1 DEF Assignments
  <1>3. 0 \notin DOMAIN b /\ 0 \notin DOMAIN a
    BY SeriesIs DEF RangeTypeOK
  <1>4. \A j \in DOMAIN b : j \in Range(f) <=> \E i \in DOMAIN a : f[i] = j
    BY <1>2 DEF Range
  <1>5. \A j \in DOMAIN b :
          mb'[j] = IF j \in Range(f) THEN CHOOSE i \in DOMAIN a : f[i] = j ELSE mb[j]
    BY DEF Overwrite
  <1>6. ASSUME NEW i \in DOMAIN a, NEW j \in DOMAIN b, f[i] = j
        PROVE  mb'[j] = i
    <2>1. mb'[j] = CHOOSE k \in DOMAIN a : f[k] = j
      BY <1>4, <1>5, <1>6
    <2>2. mb'[j] \in DOMAIN a /\ f[mb'[j]] = j
      BY <1>6, <2>1
    <2>3. QED
      BY <1>2, <1>3, <1>6, <2>2
  <1>7. ASSUME NEW j \in DOMAIN b, \A i \in DOMAIN a : f[i] # j
        PROVE  mb'[j] = mb[j]
    BY <1>4, <1>5, <1>7
  <1>8. ma' = [i \in DOMAIN a |-> IF f[i] = 0 THEN ma[i] ELSE f[i]]
    BY DEF Overwrite
  <1>9. ma' \in [DOMAIN a -> {0} \cup DOMAIN b]
    BY <1>2, <1>8 DEF RangeTypeOK
  <1>10. mb' \in [DOMAIN b -> {0} \cup DOMAIN a]
    <2>1. mb' = [j \in DOMAIN b |-> mb'[j]]
      BY DEF Overwrite
    <2>2. ASSUME NEW j \in DOMAIN b
          PROVE  mb'[j] \in {0} \cup DOMAIN a
      BY <1>6, <1>7 DEF RangeTypeOK
    <2>3. QED
      BY <2>1, <2>2
  <1>11. QED
    BY <1>2, <1>3, <1>6, <1>7, <1>8, <1>9, <1>10

LEMMA SolveStep ==
  ASSUME RangeTypeOK, ExactInv, GetCorrespondences
  PROVE  RangeTypeOK' /\ SettledInv'
  <1>1. PICK f \in Cheapest : Overwrite(f)
    BY DEF GetCorrespondences
  <1>2. a' = a /\ b' = b /\ step' = "output"
    BY DEF GetCorrespondences
  <1>3. /\ f \in [DOMAIN a -> {0} \cup DOMAIN b]
        /\ \A i, k \in DOMAIN a : f[i] = f[k] /\ f[i] # 0 => i = k
        /\ \A i \in DOMAIN a : ma'[i] = IF f[i] = 0 THEN ma[i] ELSE f[i]
        /\ \A i \in DOMAIN a, j \in DOMAIN b : f[i] = j => mb'[j] = i
        /\ \A j \in DOMAIN b : (\A i \in DOMAIN a : f[i] # j) => mb'[j] = mb[j]
        /\ 0 \notin DOMAIN b /\ 0 \notin DOMAIN a
        /\ ma' \in [DOMAIN a -> {0} \cup DOMAIN b]
        /\ mb' \in [DOMAIN b -> {0} \cup DOMAIN a]
    BY <1>1, SolveTells
  <1>4. RangeTypeOK'
    BY <1>2, <1>3 DEF RangeTypeOK
  <1>5. ASSUME NEW j \in DOMAIN b, mb'[j] # 0
        PROVE  Twins(mb'[j], j) \/ ma'[mb'[j]] = j
    <2>1. CASE \E i \in DOMAIN a : f[i] = j
      BY <1>3, <2>1
    <2>2. CASE \A i \in DOMAIN a : f[i] # j
      BY <1>3, <1>5, <2>2 DEF ExactInv
    <2>3. QED
      BY <2>1, <2>2
  <1>6. ASSUME AllDistinct, NEW i \in DOMAIN a, NEW j \in DOMAIN b
        PROVE  ma'[i] = f[i] /\ (f[i] = j <=> mb'[j] = i)
    <2>1. ASSUME f[i] = 0
          PROVE  ma[i] = 0
      <3>1. ma[i] # 0 => ma[i] \in DOMAIN b /\ Twins(i, ma[i])
        BY DEF ExactInv, RangeTypeOK
      <3>2. QED
        BY <1>6, <2>1, <3>1, TwinStays
    <2>2. ma'[i] = f[i]
      BY <1>3, <2>1
    <2>3. ASSUME mb'[j] = i, f[i] # j
          PROVE  FALSE
      <3>1. \A k \in DOMAIN a : f[k] # j
        BY <1>3, <2>3
      <3>2. mb[j] = i /\ i # 0
        BY <1>3, <2>3, <3>1
      <3>3. Twins(i, j)
        BY <3>2 DEF ExactInv
      <3>4. j \in Range(f)
        BY <1>6, <3>3, TwinTaken
      <3>5. QED
        BY <1>3, <3>1, <3>4 DEF Range
    <2>4. QED
      BY <1>3, <2>2, <2>3
  <1>7. ASSUME AllDistinct, AllShort, NEW i \in DOMAIN a, NEW j \in DOMAIN b
        PROVE  /\ Twins(i, j) => f[i] = j
               /\ f[i] = j /\ ~Twins(i, j) => Apart(i, j) <= Allowed(j)
               /\ f[i] = 0 /\ mb'[j] = 0 => Apart(i, j) >= Allowed(j)
    <2>1. Twins(i, j) => f[i] = j
      BY <1>7, TwinsTogether
    <2>2. ASSUME f[i] = j, ~Twins(i, j)
          PROVE  Apart(i, j) <= Allowed(j)
      <3>1. PairCost(i, j) <= CreationCost(j)
        BY <1>3, <2>2, LeaveColumn
      <3>2. ma[i] = 0
        <4>1. ma[i] # 0 => ma[i] \in DOMAIN b /\ Twins(i, ma[i])
          BY DEF ExactInv, RangeTypeOK
        <4>2. ma[i] # 0 => f[i] = ma[i]
          BY <1>7, <4>1, TwinsTogether
        <4>3. QED
          BY <2>2, <4>1, <4>2
      <3>3. mb[j] = 0
        <4>1. mb[j] # 0 => mb[j] \in DOMAIN a /\ Twins(mb[j], j)
          BY DEF ExactInv, RangeTypeOK
        <4>2. mb[j] # 0 => f[mb[j]] = j
          BY <1>7, <4>1, TwinsTogether
        <4>3. mb[j] # 0 => mb[j] = i
          BY <1>3, <2>2, <4>1, <4>2
        <4>4. QED
          BY <2>2, <4>1, <4>3
      <3>4. QED
        BY <3>1, <3>2, <3>3, Costs
    <2>3. ASSUME f[i] = 0, mb'[j] = 0
          PROVE  Apart(i, j) >= Allowed(j)
      <3>1. \A k \in DOMAIN a : f[k] # j
        BY <1>3, <2>3
      <3>2. mb[j] = 0 /\ j \notin Range(f)
        BY <1>3, <2>3, <3>1 DEF Range
      <3>3. ma[i] = 0
        <4>1. ma[i] # 0 => ma[i] \in DOMAIN b /\ Twins(i, ma[i])
          BY DEF ExactInv, RangeTypeOK
        <4>2. QED
          BY <1>7, <2>3, <4>1, TwinStays
      <3>4. RowCost(i, 0) + CreationCost(j) <= PairCost(i, j) + 0
        BY <2>3, <3>2, GiveColumn
      <3>5. /\ RowCost(i, 0) = 0 /\ CreationCost(j) = Allowed(j) /\ PairCost(i, j) = Apart(i, j)
            /\ Allowed(j) \in Nat /\ Apart(i, j) \in Nat
        BY <3>2, <3>3, Costs, Sizes, AllowedTyped DEF RowCost
      <3> DEFINE x == Apart(i, j)
                 y == Allowed(j)
      <3>6. 0 + y <= x + 0 /\ x \in Nat /\ y \in Nat
        BY <3>4, <3>5
      <3> HIDE DEF x, y
      <3>7. x >= y
        BY <3>6
      <3>8. QED
        BY <3>7 DEF x, y
    <2>4. QED
      BY <2>1, <2>2, <2>3
  <1>8. (AllDistinct' <=> AllDistinct) /\ (AllShort' <=> AllShort)
    BY <1>2 DEF AllDistinct, Distinct, AllShort, Short
  <1>9. ASSUME NEW i, NEW j
        PROVE  /\ Twins(i, j)' <=> Twins(i, j)
               /\ Apart(i, j)' = Apart(i, j) /\ Allowed(j)' = Allowed(j)
    BY <1>2 DEF Twins, Apart, Allowed, Distance
  <1>10. (\A j \in DOMAIN b : mb[j] # 0 => Twins(mb[j], j) \/ ma[mb[j]] = j)'
    BY <1>2, <1>5 DEF Twins
  <1>11. (AllDistinct => \A i \in DOMAIN a, j \in DOMAIN b : ma[i] = j <=> mb[j] = i)'
    BY <1>2, <1>6, <1>8
  <1>12. (AllDistinct /\ AllShort =>
            \A i \in DOMAIN a, j \in DOMAIN b :
              /\ Twins(i, j) => ma[i] = j
              /\ ma[i] = j /\ ~Twins(i, j) => Apart(i, j) <= Allowed(j)
              /\ ma[i] = 0 /\ mb[j] = 0 => Apart(i, j) >= Allowed(j))'
    <2> SUFFICES ASSUME AllDistinct, AllShort, NEW i \in DOMAIN a, NEW j \in DOMAIN b
                 PROVE  /\ Twins(i, j) => ma'[i] = j
                        /\ ma'[i] = j /\ ~Twins(i, j) => Apart(i, j) <= Allowed(j)
                        /\ ma'[i] = 0 /\ mb'[j] = 0 => Apart(i, j) >= Allowed(j)
      BY <1>2, <1>8, <1>9 DEF Twins, Apart, Allowed, Distance
    <2>1. ma'[i] = f[i]
      BY <1>6
    <2>2. QED
      BY <1>7, <2>1
  <1>13. QED
    BY <1>4, <1>10, <1>11, <1>12 DEF SettledInv

LEMMA BuildStep ==
  ASSUME RangeTypeOK, SettledInv, BuildOutput
  PROVE  RangeTypeOK' /\ SettledInv' /\ (out = Listing)'
  <1>1. UNCHANGED <<a, b, ma, mb>> /\ step' = "shown"
    BY DEF BuildOutput
  <1>2. RangeTypeOK'
    BY <1>1 DEF RangeTypeOK
  <1>3. SettledInv'
    BY <1>1 DEF SettledInv, AllDistinct, Distinct, AllShort, Short, Twins, Apart, Allowed
  <1>4. Listing' = Listing
    BY <1>1 DEF Listing, RemovedEntry, AddedEntry, PairEntry
  <1>5. QED
    BY <1>2, <1>3, <1>4 DEF BuildOutput, Listing

LEMMA RangeStep ==
  ASSUME RangeInv, [Next]_vars
  PROVE  RangeInv'
  <1>1. CASE FindExactMatches
    BY <1>1, FindStep DEF RangeInv, FindExactMatches
  <1>2. CASE GetCorrespondences
    BY <1>2, SolveStep DEF RangeInv, GetCorrespondences
  <1>3. CASE BuildOutput
    BY <1>3, BuildStep DEF RangeInv, BuildOutput
  <1>4. CASE UNCHANGED vars
    <2>1. UNCHANGED <<a, b, ma, mb, out, step>>
      BY <1>4 DEF vars
    <2>2. Listing' = Listing
      BY <2>1 DEF Listing, RemovedEntry, AddedEntry, PairEntry
    <2>3. (RangeTypeOK' <=> RangeTypeOK) /\ (ExactInv' <=> ExactInv)
      BY <2>1 DEF RangeTypeOK, ExactInv, AllDistinct, Distinct, Twins
    <2>4. SettledInv' <=> SettledInv
      BY <2>1 DEF SettledInv, AllDistinct, Distinct, AllShort, Short, Twins, Apart, Allowed
    <2>5. QED
      BY <2>1, <2>2, <2>3, <2>4 DEF RangeInv
  <1>5. QED
    BY <1>1, <1>2, <1>3, <1>4 DEF Next

LEMMA RangeHolds == Spec => []RangeInv
  <1>1. Init => RangeInv
    BY RangeInit
  <1>2. RangeInv /\ [Next]_vars => RangeInv'
    BY RangeStep
  <1>3. QED
    BY <1>1, <1>2, PTL DEF Spec
-----------------------------------------------------------------------------
(***************************************************************************)
(* What the listing says.                                                  *)
(***************************************************************************)

LEMMA Listed ==
  ASSUME RangeInv, Shown
  PROVE  /\ \A e \in out :
              \/ \E i \in DOMAIN a : ma[i] = 0 /\ e.type = "rm" /\ e.old = i /\ e.new = 0
                                     /\ e = RemovedEntry(i)
              \/ \E j \in DOMAIN b : mb[j] = 0 /\ e.type = "add" /\ e.old = 0 /\ e.new = j
                                     /\ e = AddedEntry(j)
              \/ \E j \in DOMAIN b : mb[j] # 0 /\ e.old = mb[j] /\ e.new = ma[mb[j]]
                                     /\ e.type = (IF Twins(mb[j], j) THEN "equal" ELSE "changed")
                                     /\ e = PairEntry(j)
         /\ \A i \in DOMAIN a :
              ma[i] = 0 => RemovedEntry(i) \in out /\ RemovedEntry(i).old = i
         /\ \A j \in DOMAIN b : mb[j] = 0 => AddedEntry(j) \in out /\ AddedEntry(j).new = j
         /\ \A j \in DOMAIN b :
              mb[j] # 0 => /\ PairEntry(j) \in out
                           /\ PairEntry(j).old = mb[j] /\ PairEntry(j).new = ma[mb[j]]
                           /\ PairEntry(j).type =
                                (IF Twins(mb[j], j) THEN "equal" ELSE "changed")
         /\ 0 \notin DOMAIN a /\ 0 \notin DOMAIN b
         /\ RangeTypeOK /\ SettledInv
  <1>1. out = Listing /\ RangeTypeOK /\ SettledInv
    BY DEF RangeInv, Shown
  <1>2. 0 \notin DOMAIN a /\ 0 \notin DOMAIN b
    BY <1>1, SeriesIs DEF RangeTypeOK
  <1>3. \A i \in DOMAIN a : /\ RemovedEntry(i).type = "rm" /\ RemovedEntry(i).old = i
                            /\ RemovedEntry(i).new = 0
    BY DEF RemovedEntry
  <1>4. \A j \in DOMAIN b : /\ AddedEntry(j).type = "add" /\ AddedEntry(j).old = 0
                            /\ AddedEntry(j).new = j
    BY DEF AddedEntry
  <1>5. \A j \in DOMAIN b : /\ PairEntry(j).old = mb[j] /\ PairEntry(j).new = ma[mb[j]]
                            /\ PairEntry(j).type =
                                 (IF Twins(mb[j], j) THEN "equal" ELSE "changed")
    BY DEF PairEntry, Twins
  <1>6. /\ \A i \in DOMAIN a : ma[i] = 0 => RemovedEntry(i) \in out
        /\ \A j \in DOMAIN b : mb[j] = 0 => AddedEntry(j) \in out
        /\ \A j \in DOMAIN b : mb[j] # 0 => PairEntry(j) \in out
    BY <1>1 DEF Listing
  <1>7. ASSUME NEW e \in out
        PROVE  \/ \E i \in DOMAIN a : ma[i] = 0 /\ e = RemovedEntry(i)
               \/ \E j \in DOMAIN b : mb[j] = 0 /\ e = AddedEntry(j)
               \/ \E j \in DOMAIN b : mb[j] # 0 /\ e = PairEntry(j)
    BY <1>1 DEF Listing
  <1>8. ASSUME NEW e \in out
        PROVE  \/ \E i \in DOMAIN a : ma[i] = 0 /\ e.type = "rm" /\ e.old = i /\ e.new = 0
                                      /\ e = RemovedEntry(i)
               \/ \E j \in DOMAIN b : mb[j] = 0 /\ e.type = "add" /\ e.old = 0 /\ e.new = j
                                      /\ e = AddedEntry(j)
               \/ \E j \in DOMAIN b : mb[j] # 0 /\ e.old = mb[j] /\ e.new = ma[mb[j]]
                                      /\ e.type = (IF Twins(mb[j], j) THEN "equal" ELSE "changed")
                                      /\ e = PairEntry(j)
    BY <1>3, <1>4, <1>5, <1>7
  <1>9. QED
    BY <1>1, <1>2, <1>3, <1>4, <1>5, <1>6, <1>8

\* With no content twice the two sides are each other's inverse.
LEMMA InverseSides ==
  ASSUME RangeInv, Shown, AllDistinct
  PROVE  /\ \A i \in DOMAIN a : ma[i] # 0 => ma[i] \in DOMAIN b /\ mb[ma[i]] = i
         /\ \A j \in DOMAIN b : mb[j] # 0 => mb[j] \in DOMAIN a /\ ma[mb[j]] = j
         /\ \A i \in DOMAIN a, j \in DOMAIN b : ma[i] = j <=> mb[j] = i
  BY DEF RangeInv, Shown, RangeTypeOK, SettledInv

LEMMA OnlyOne ==
  ASSUME NEW S, NEW e \in S, \A d \in S : d = e
  PROVE  Cardinality(S) = 1
  <1>1. S = {e}
    OBVIOUS
  <1>2. QED
    BY <1>1, FS_Singleton

LEMMA OldOnce ==
  ASSUME RangeInv, Shown, AllDistinct, NEW i \in DOMAIN a
  PROVE  Cardinality({e \in out : e.old = i}) = 1
  <1> DEFINE S == {e \in out : e.old = i}
  <1>1. i # 0 /\ ma[i] \in {0} \cup DOMAIN b
    BY Listed DEF RangeTypeOK
  <1>2. CASE ma[i] = 0
    <2>1. RemovedEntry(i) \in S
      BY <1>2, Listed
    <2>2. \A j \in DOMAIN b : mb[j] # i
      BY <1>2, InverseSides, Listed
    <2>3. ASSUME NEW d \in S
          PROVE  d = RemovedEntry(i)
      BY <1>1, <2>2, Listed
    <2> HIDE DEF S
    <2>4. QED
      BY <2>1, <2>3, OnlyOne DEF S
  <1>3. CASE ma[i] # 0
    <2> DEFINE j == ma[i]
    <2>1. j \in DOMAIN b /\ mb[j] = i
      BY <1>3, InverseSides
    <2>2. PairEntry(j) \in S
      BY <1>1, <2>1, Listed
    <2>3. \A k \in DOMAIN b : mb[k] = i => k = j
      BY InverseSides
    <2>4. ASSUME NEW d \in S
          PROVE  d = PairEntry(j)
      BY <1>1, <1>3, <2>3, Listed
    <2> HIDE DEF S, j
    <2>5. QED
      BY <2>2, <2>4, OnlyOne DEF S
  <1>4. QED
    BY <1>2, <1>3

LEMMA NewOnce ==
  ASSUME RangeInv, Shown, AllDistinct, NEW j \in DOMAIN b
  PROVE  Cardinality({e \in out : e.new = j}) = 1
  <1> DEFINE S == {e \in out : e.new = j}
  <1>1. j # 0
    BY Listed
  <1>2. \A k \in DOMAIN b : mb[k] # 0 => ma[mb[k]] = k
    BY InverseSides
  <1>3. CASE mb[j] = 0
    <2>1. AddedEntry(j) \in S
      BY <1>3, Listed
    <2>2. ASSUME NEW d \in S
          PROVE  d = AddedEntry(j)
      BY <1>1, <1>2, <1>3, Listed
    <2> HIDE DEF S
    <2>3. QED
      BY <2>1, <2>2, OnlyOne DEF S
  <1>4. CASE mb[j] # 0
    <2>1. PairEntry(j) \in S
      BY <1>2, <1>4, Listed
    <2>2. ASSUME NEW d \in S
          PROVE  d = PairEntry(j)
      BY <1>1, <1>2, <1>4, Listed
    <2> HIDE DEF S
    <2>3. QED
      BY <2>1, <2>2, OnlyOne DEF S
  <1>5. QED
    BY <1>3, <1>4

\* Every commit of either series is listed once and under its own number, when
\* no content is there twice: the Matching that getCorrespondences leaves as
\* findExactMatches wrote it is none, as TwinTaken and TwinStays show.
THEOREM CommitsListedOnce == Spec => []EveryCommitOnce
  <1>1. RangeInv => EveryCommitOnce
    BY OldOnce, NewOnce DEF EveryCommitOnce, ListedOnce, AllDistinct
  <1>2. QED
    BY <1>1, RangeHolds, PTL

\* A commit that comes back with the content it had is listed as equal to itself,
\* whatever else the assignment could have paired it with.
THEOREM TwinsShownEqual == Spec => []IdenticalShownEqual
  <1>1. RangeInv => IdenticalShownEqual
    <2> SUFFICES ASSUME RangeInv, Shown, AllDistinct, AllShort,
                        NEW i \in DOMAIN a, NEW j \in DOMAIN b, Twins(i, j)
                 PROVE  \E e \in out : e.type = "equal" /\ e.old = i /\ e.new = j
      BY DEF IdenticalShownEqual, AllDistinct, AllShort, Twins
    <2>1. ma[i] = j /\ mb[j] = i
      BY Listed, InverseSides DEF SettledInv
    <2>2. i # 0
      BY Listed
    <2>3. QED
      BY <2>1, <2>2, Listed
  <1>2. QED
    BY <1>1, RangeHolds, PTL

\* computeAssignment, seen by the reader: a pair is shown as changed only within
\* RANGE_DIFF_CREATION_FACTOR_DEFAULT percent of the new size, and no pair closer
\* than that is torn into one removed and one added.
THEOREM ClosePaired == Spec => []PairedWhenClose
  <1>1. RangeInv => PairedWhenClose
    <2> SUFFICES ASSUME RangeInv, Shown, AllDistinct, AllShort
                 PROVE  /\ \A e \in out : e.type = "changed" =>
                             Apart(e.old, e.new) <= Allowed(e.new)
                        /\ \A e, f \in out : e.type = "rm" /\ f.type = "add" =>
                             Apart(e.old, f.new) >= Allowed(f.new)
      BY DEF PairedWhenClose, AllDistinct, AllShort, Apart, Allowed
    <2>1. ASSUME NEW e \in out, e.type = "changed"
          PROVE  Apart(e.old, e.new) <= Allowed(e.new)
      <3>1. PICK j \in DOMAIN b : /\ mb[j] # 0 /\ e.old = mb[j] /\ e.new = ma[mb[j]]
                                  /\ e.type = (IF Twins(mb[j], j) THEN "equal" ELSE "changed")
        BY <2>1, Listed
      <3>2. mb[j] \in DOMAIN a /\ ma[mb[j]] = j /\ ~ Twins(mb[j], j)
        BY <2>1, <3>1, InverseSides
      <3>3. QED
        BY <3>1, <3>2, Listed DEF SettledInv
    <2>2. ASSUME NEW e \in out, NEW f \in out, e.type = "rm", f.type = "add"
          PROVE  Apart(e.old, f.new) >= Allowed(f.new)
      <3>1. PICK i \in DOMAIN a : ma[i] = 0 /\ e.old = i
        BY <2>2, Listed
      <3>2. PICK j \in DOMAIN b : mb[j] = 0 /\ f.new = j
        BY <2>2, Listed
      <3>3. QED
        BY <3>1, <3>2, Listed DEF SettledInv
    <2>3. QED
      BY <2>1, <2>2
  <1>2. QED
    BY <1>1, RangeHolds, PTL
-----------------------------------------------------------------------------
(***************************************************************************)
(* The files of a pair.                                                    *)
(***************************************************************************)

LEMMA NamedIs ==
  ASSUME NEW files, IsSeries(files)
  PROVE  /\ \A name \in NamesOf(files) :
              Named(files, name) \in Range(files) /\ Named(files, name).new = name
         /\ \A f \in Range(files) : f.new \in NamesOf(files)
  <1>1. Len(files) \in Nat /\ DOMAIN files = 1 .. Len(files)
    BY DEF IsSeries
  <1>2. DOMAIN files \subseteq Nat \ {0} /\ \A k \in DOMAIN files : k <= Len(files)
    BY <1>1
  <1>3. \A P \in SUBSET DOMAIN files : IF P = {} THEN LastOf(P) = 0 ELSE LastOf(P) \in P
    BY <1>1, <1>2, LastOfIs
  <1>4. ASSUME NEW name \in NamesOf(files)
        PROVE  Named(files, name) \in Range(files) /\ Named(files, name).new = name
    <2> DEFINE P == {k \in DOMAIN files : files[k].new = name}
    <2>1. P # {} /\ P \in SUBSET DOMAIN files
      BY DEF NamesOf
    <2>2. LastOf(P) \in P
      BY <1>3, <2>1
    <2>3. LastOf(P) \in DOMAIN files /\ files[LastOf(P)].new = name
      BY <2>2
    <2>4. Named(files, name) = files[LastOf(P)]
      BY DEF Named
    <2>5. QED
      BY <2>3, <2>4 DEF Range
  <1>5. \A f \in Range(files) : f.new \in NamesOf(files)
    BY DEF Range, NamesOf
  <1>6. QED
    BY <1>4, <1>5

LEMMA AtMostOne ==
  ASSUME NEW S, IsFiniteSet(S), Cardinality(S) <= 1, NEW x \in S, NEW y \in S
  PROVE  x = y
  <1> SUFFICES ASSUME x # y
               PROVE  FALSE
    OBVIOUS
  <1>1. Cardinality(S) \in Nat /\ Cardinality(S \ {x}) = Cardinality(S) - 1
        /\ IsFiniteSet(S \ {x})
    BY FS_CardinalityType, FS_RemoveElement
  <1>2. y \in S \ {x}
    OBVIOUS
  <1>3. Cardinality(S \ {x}) \in Nat /\ Cardinality(S \ {x}) # 0
    BY <1>1, <1>2, FS_CardinalityType, FS_EmptySet
  <1>4. QED
    BY <1>1, <1>3

LEMMA ImageFinite ==
  ASSUME NEW S, IsFiniteSet(S), NEW h, DOMAIN h = S, NEW T, T = {h[x] : x \in S}, h \in [S -> T]
  PROVE  IsFiniteSet(T)
  <1>1. h \in Surjection(S, T)
    BY DEF Surjection
  <1>2. QED
    BY <1>1, FS_Surjection

LEMMA TouchedFinite ==
  ASSUME NEW x, NEW y, IsSeries(x.files), IsSeries(y.files)
  PROVE  IsFiniteSet({f.old : f \in Deleted(x) \cup Deleted(y)})
  <1>1. ASSUME NEW files, IsSeries(files)
        PROVE  IsFiniteSet(Range(files))
    <2>1. Len(files) \in Nat /\ DOMAIN files = 1 .. Len(files)
      BY <1>1 DEF IsSeries
    <2>2. IsFiniteSet(1 .. Len(files))
      BY <2>1, FS_Interval
    <2>3. /\ Range(files) = {files[k] : k \in 1 .. Len(files)}
          /\ files \in [1 .. Len(files) -> Range(files)]
      BY <1>1, <2>1 DEF Range, IsSeries
    <2>4. QED
      BY <2>1, <2>2, <2>3, ImageFinite
  <1> DEFINE T == Deleted(x) \cup Deleted(y)
  <1>2. Deleted(x) \subseteq Range(x.files) /\ Deleted(y) \subseteq Range(y.files)
    BY DEF Deleted, Touches
  <1>3. IsFiniteSet(Deleted(x)) /\ IsFiniteSet(Deleted(y))
    BY <1>1, <1>2, FS_Subset
  <1>4. IsFiniteSet(T)
    BY <1>3, FS_Union
  <1> HIDE DEF T
  <1>5. IsFiniteSet({f.old : f \in T})
    <2> DEFINE h == [f \in T |-> f.old]
    <2>1. /\ {f.old : f \in T} = {h[f] : f \in T} /\ DOMAIN h = T
          /\ h \in [T -> {f.old : f \in T}]
      OBVIOUS
    <2> HIDE DEF h
    <2>2. QED
      BY <1>4, <2>1, ImageFinite
  <1>6. QED
    BY <1>5 DEF T

\* What filesChanged tells of two commits.
LEMMA FilesTold ==
  ASSUME NEW x, NEW y, IsSeries(x.files), IsSeries(y.files), NamesFiles(x), NamesFiles(y),
         Cardinality({f.old : f \in Deleted(x) \cup Deleted(y)}) <= 1,
         NEW f \in Touches(x) \cup Touches(y),
         ~ \E g \in Touches(x), h \in Touches(y) :
             g.new = f.new /\ h.new = f.new /\ g.body = h.body,
         f \in Touches(x) /\ f.new \notin NamesOf(y.files) => f.old # NoName
  PROVE  \E g \in FilesChanged(x.files, y.files) : Tells(g, f)
  <1> DEFINE n == f.new
             xs == NamesOf(x.files)
             ys == NamesOf(y.files)
             nx == Named(x.files, n)
             ny == Named(y.files, n)
  <1>1. /\ n \in xs => nx \in Touches(x) /\ nx.new = n
        /\ n \in ys => ny \in Touches(y) /\ ny.new = n
        /\ f \in Touches(x) => n \in xs
        /\ f \in Touches(y) => n \in ys
    BY NamedIs DEF Touches
  <1>2. ASSUME n = NoName, NEW g \in Touches(x) \cup Touches(y), g.new = NoName
        PROVE  g.old = f.old /\ g.old # NoName
    <2> DEFINE S == {d.old : d \in Deleted(x) \cup Deleted(y)}
    <2>1. g \in Deleted(x) \cup Deleted(y) /\ f \in Deleted(x) \cup Deleted(y)
      BY <1>2 DEF Deleted
    <2>2. g.old \in S /\ f.old \in S /\ IsFiniteSet(S) /\ Cardinality(S) <= 1
      BY <2>1, TouchedFinite
    <2> HIDE DEF S
    <2>3. g.old = f.old
      BY <2>2, AtMostOne
    <2>4. g.old # NoName
      BY <1>2 DEF NamesFiles
    <2>5. QED
      BY <2>3, <2>4
  <1>3. CASE n \in xs \ ys
    <2> DEFINE g == [old |-> nx.old, new |-> NoName, type |-> "removed"]
    <2>1. g \in FilesChanged(x.files, y.files)
      BY <1>3 DEF FilesChanged
    <2>2. f \in Touches(x) /\ f.old # NoName /\ nx \in Touches(x) /\ nx.new = n
      BY <1>1, <1>3
    <2>3. nx.old = f.old
      <3>1. CASE n = NoName
        BY <1>2, <2>2, <3>1
      <3>2. CASE n # NoName
        BY <2>2, <3>2 DEF NamesFiles
      <3>3. QED
        BY <3>1, <3>2
    <2>4. Tells(g, f)
      BY <2>2, <2>3 DEF Tells
    <2>5. QED
      BY <2>1, <2>4
  <1>4. CASE n \in xs \cap ys
    <2> DEFINE g == [old |-> nx.old, new |-> n, type |-> "changed"]
    <2>1. nx.body # ny.body
      BY <1>1, <1>4
    <2>2. g \in FilesChanged(x.files, y.files)
      BY <1>4, <2>1 DEF FilesChanged
    <2>3. n = NoName => nx.old = f.old /\ nx.old # NoName
      BY <1>1, <1>2, <1>4
    <2>4. Tells(g, f)
      BY <2>3 DEF Tells
    <2>5. QED
      BY <2>2, <2>4
  <1>5. CASE n \in ys \ xs
    <2> DEFINE g == [old |-> ny.old, new |-> n, type |-> "added"]
    <2>1. g \in FilesChanged(x.files, y.files)
      BY <1>5 DEF FilesChanged
    <2>2. n = NoName => ny.old = f.old /\ ny.old # NoName
      BY <1>1, <1>2, <1>5
    <2>3. Tells(g, f)
      BY <2>2 DEF Tells
    <2>4. QED
      BY <2>1, <2>3
  <1>6. QED
    BY <1>1, <1>3, <1>4, <1>5

\* filesChanged, whose maps hold one file per new name: a pair that is listed as
\* changed tells of every file that the two do not touch alike, except where the
\* property says.
THEOREM FilesTellPair == Spec => []FilesAccounted
  <1>1. RangeInv => FilesAccounted
    <2> SUFFICES ASSUME RangeInv, Shown, NEW e \in out, e.type = "changed",
                        NamesFiles(a[e.old]), NamesFiles(b[e.new]),
                        Cardinality({f.old : f \in Deleted(a[e.old]) \cup Deleted(b[e.new])}) <= 1,
                        NEW f \in Touches(a[e.old]) \cup Touches(b[e.new]),
                        ~ \E g \in Touches(a[e.old]), h \in Touches(b[e.new]) :
                            g.new = f.new /\ h.new = f.new /\ g.body = h.body,
                        f \in Touches(a[e.old]) /\ f.new \notin NamesOf(b[e.new].files) =>
                          f.old # NoName
                 PROVE  \E g \in e.files : Tells(g, f)
      BY DEF FilesAccounted
    <2>1. PICK j \in DOMAIN b : /\ mb[j] # 0 /\ e.old = mb[j] /\ e.new = ma[mb[j]]
                                /\ e.type = (IF Twins(mb[j], j) THEN "equal" ELSE "changed")
                                /\ e = PairEntry(j)
      BY Listed
    <2>2. ~ Twins(mb[j], j) /\ mb[j] \in DOMAIN a
      BY <2>1, Listed DEF RangeTypeOK
    <2>3. ma[mb[j]] = j
      BY <2>1, <2>2, Listed DEF SettledInv
    <2>4. e.files = FilesChanged(a[e.old].files, b[e.new].files)
      BY <2>1, <2>2, <2>3 DEF PairEntry, Twins
    <2>5. IsSeries(a[e.old].files) /\ IsSeries(b[e.new].files)
      BY <2>1, <2>2, <2>3, Listed, SeriesIs DEF RangeTypeOK
    <2> DEFINE x == a[e.old]
               y == b[e.new]
    <2> HIDE DEF x, y
    <2>6. \E g \in FilesChanged(x.files, y.files) : Tells(g, f)
      BY <2>5, FilesTold DEF x, y
    <2>7. QED
      BY <2>4, <2>6 DEF x, y
  <1>2. QED
    BY <1>1, RangeHolds, PTL
=============================================================================

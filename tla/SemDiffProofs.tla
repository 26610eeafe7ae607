--------------------------- MODULE SemDiffProofs ----------------------------
(***************************************************************************)
(* The semantic summary of a file, proved of SemDiff for files of any      *)
(* number of hunks, hunks of any number of entities, and whatever order    *)
(* Go's maps have.                                                         *)
(***************************************************************************)
EXTENDS SemDiff, FiniteSetTheorems, WellFoundedInduction, TLAPS

(***************************************************************************)
(* Numbers, sets in any order, and the fold.                               *)
(***************************************************************************)

LEMMA LeastOf ==
  ASSUME NEW T \in SUBSET Nat, T # {}
  PROVE  Min(T) \in T /\ \A y \in T : Min(T) <= y
  <1>1. PICK x \in T : \A y \in T : ~ (<<y, x>> \in OpToRel(<, Nat))
    BY NatLessThanWellFounded, WFMin
  <1>2. \A y \in T : <<y, x>> \in OpToRel(<, Nat) <=> y < x
    BY DEF OpToRel
  <1>3. \A y \in T : ~ (y < x)
    BY <1>1, <1>2
  <1>4. \A y \in T : x <= y
    BY <1>3
  <1>5. QED
    BY <1>4 DEF Min

LEMMA GreatestOf ==
  ASSUME NEW n \in Nat, NEW T \in SUBSET (0 .. n), T # {}
  PROVE  Max(T) \in T /\ \A y \in T : Max(T) >= y
  <1> DEFINE bounds == {m \in Nat : \A y \in T : y <= m}
             m == Min(bounds)
  <1>1. n \in bounds
    OBVIOUS
  <1>2. m \in bounds /\ \A b \in bounds : m <= b
    BY <1>1, LeastOf
  <1> HIDE DEF m
  <1>3. m \in T
    <2> SUFFICES ASSUME m \notin T
                 PROVE  FALSE
      OBVIOUS
    <2>1. m \in Nat /\ \A y \in T : y < m
      BY <1>2
    <2>2. m - 1 \in bounds
      <3>1. PICK y \in T : y < m
        BY <2>1
      <3>2. m - 1 \in Nat /\ \A x \in T : x <= m - 1
        BY <2>1, <3>1
      <3>3. QED
        BY <3>2
    <2>3. QED
      BY <1>2, <2>1, <2>2
  <1>4. \A y \in T : m >= y
    BY <1>2
  <1>5. QED
    BY <1>3, <1>4 DEF Max

SumOf(d, seq) == FoldLeft(Merged, d, seq)

\* mergeChangesByEntity as a function of the changes merged so far (by their
\* places); first for few of them, then for all.
Folding(seq, d, g) ==
  g = [s \in SUBSET DOMAIN seq |->
         IF s = {} THEN d ELSE Merged(g[s \ {Max(s)}], seq[Max(s)])]

Small(m, n) == {s \in SUBSET (1 .. m) : Cardinality(s) <= n}
FoldingUpTo(seq, d, m, n, g) ==
  g = [s \in Small(m, n) |-> IF s = {} THEN d ELSE Merged(g[s \ {Max(s)}], seq[Max(s)])]

LEMMA PartOfInterval ==
  ASSUME NEW m \in Nat, NEW s \in SUBSET (1 .. m)
  PROVE  IsFiniteSet(s) /\ Cardinality(s) \in Nat /\ Cardinality(s) <= m
  <1>1. 1 \in Int /\ m \in Int
    OBVIOUS
  <1>2. IsFiniteSet(1 .. m)
    BY <1>1, FS_Interval, Zenon
  <1>3. Cardinality(1 .. m) = (IF 1 > m THEN 0 ELSE m - 1 + 1)
    BY <1>1, FS_Interval, Zenon
  <1>4. IsFiniteSet(s) /\ Cardinality(s) <= Cardinality(1 .. m)
    BY <1>2, FS_Subset
  <1>5. Cardinality(s) \in Nat
    BY <1>4, FS_CardinalityType
  <1>6. QED
    BY <1>3, <1>4, <1>5

LEMMA OneLess ==
  ASSUME NEW m \in Nat, NEW s \in SUBSET (1 .. m), s # {}
  PROVE  /\ Max(s) \in s /\ s \ {Max(s)} \in SUBSET (1 .. m)
         /\ Cardinality(s) \in Nat /\ Cardinality(s \ {Max(s)}) = Cardinality(s) - 1
  <1>1. s \in SUBSET (0 .. m)
    OBVIOUS
  <1>2. Max(s) \in s
    BY <1>1, GreatestOf
  <1>3. IsFiniteSet(s)
    BY PartOfInterval
  <1>4. QED
    BY <1>2, <1>3, FS_CardinalityType, FS_RemoveElement

LEMMA FoldNext ==
  ASSUME NEW m \in Nat, NEW seq, NEW d, NEW n \in Nat, NEW g, FoldingUpTo(seq, d, m, n, g)
  PROVE  \E k : FoldingUpTo(seq, d, m, n + 1, k)
  <1> DEFINE Term(k, s) == IF s = {} THEN d ELSE Merged(k[s \ {Max(s)}], seq[Max(s)])
             k == [s \in Small(m, n + 1) |-> Term(g, s)]
  <1>1. ASSUME NEW s \in Small(m, n + 1), s # {}
        PROVE  s \ {Max(s)} \in Small(m, n)
    <2>1. s \in SUBSET (1 .. m) /\ Cardinality(s) <= n + 1
      BY <1>1 DEF Small
    <2>2. /\ s \ {Max(s)} \in SUBSET (1 .. m)
          /\ Cardinality(s) \in Nat /\ Cardinality(s \ {Max(s)}) = Cardinality(s) - 1
      BY <1>1, <2>1, OneLess
    <2>3. QED
      BY <2>1, <2>2 DEF Small
  <1>2. ASSUME NEW s \in Small(m, n)
        PROVE  s \in Small(m, n + 1) /\ g[s] = Term(g, s)
    <2>1. s \in SUBSET (1 .. m) /\ Cardinality(s) <= n
      BY DEF Small
    <2>2. Cardinality(s) \in Nat
      BY <2>1, PartOfInterval
    <2>3. s \in Small(m, n + 1)
      BY <2>1, <2>2 DEF Small
    <2>4. g[s] = Term(g, s)
      BY DEF FoldingUpTo
    <2>5. QED
      BY <2>3, <2>4
  <1>3. ASSUME NEW s \in Small(m, n)
        PROVE  k[s] = g[s]
    BY <1>2
  <1>4. ASSUME NEW s \in Small(m, n + 1)
        PROVE  Term(k, s) = Term(g, s)
    <2>1. CASE s = {}
      BY <2>1
    <2>2. CASE s # {}
      <3>1. s \ {Max(s)} \in Small(m, n)
        BY <1>1, <2>2
      <3> HIDE DEF k
      <3>2. k[s \ {Max(s)}] = g[s \ {Max(s)}]
        BY <1>3, <3>1
      <3>3. QED
        BY <2>2, <3>2
    <2>3. QED
      BY <2>1, <2>2
  <1>5. k = [s \in Small(m, n + 1) |-> Term(k, s)]
    BY <1>4
  <1>6. FoldingUpTo(seq, d, m, n + 1, k)
    BY <1>5 DEF FoldingUpTo
  <1>7. QED
    BY <1>6

LEMMA FoldExists ==
  ASSUME NEW m \in Nat, NEW seq, DOMAIN seq = 1 .. m, NEW d
  PROVE  \E g : Folding(seq, d, g)
  <1> DEFINE missing == {n \in Nat : ~ \E g : FoldingUpTo(seq, d, m, n, g)}
  <1>1. missing = {}
    <2> SUFFICES ASSUME missing # {}
                 PROVE  FALSE
      OBVIOUS
    <2> DEFINE least == Min(missing)
    <2>1. least \in missing /\ \A n \in missing : least <= n
      BY LeastOf
    <2> HIDE DEF least
    <2>2. least \in Nat /\ ~ \E g : FoldingUpTo(seq, d, m, least, g)
      BY <2>1
    <2>3. CASE least = 0
      <3>1. ASSUME NEW s \in Small(m, 0)
            PROVE  s = {}
        <4>1. s \in SUBSET (1 .. m) /\ Cardinality(s) <= 0
          BY DEF Small
        <4>2. IsFiniteSet(s) /\ Cardinality(s) \in Nat
          BY <4>1, PartOfInterval
        <4>3. Cardinality(s) = 0
          BY <4>1, <4>2
        <4>4. QED
          BY <4>2, <4>3, FS_EmptySet
      <3> DEFINE g == [s \in Small(m, 0) |-> d]
      <3>2. g = [s \in Small(m, 0) |->
                   IF s = {} THEN d ELSE Merged(g[s \ {Max(s)}], seq[Max(s)])]
        BY <3>1
      <3>3. FoldingUpTo(seq, d, m, 0, g)
        BY <3>2 DEF FoldingUpTo
      <3>4. QED
        BY <2>2, <2>3, <3>3
    <2>4. CASE least # 0
      <3>1. least - 1 \in Nat /\ least - 1 \notin missing
        BY <2>1, <2>2, <2>4
      <3>2. PICK g : FoldingUpTo(seq, d, m, least - 1, g)
        BY <3>1
      <3>3. \E k : FoldingUpTo(seq, d, m, least - 1 + 1, k)
        BY <3>1, <3>2, FoldNext
      <3>4. QED
        BY <2>2, <3>3
    <2>5. QED
      BY <2>3, <2>4
  <1>2. Small(m, m) = SUBSET (1 .. m)
    <2>1. ASSUME NEW s \in SUBSET (1 .. m)
          PROVE  Cardinality(s) <= m
      BY PartOfInterval
    <2>2. QED
      BY <2>1 DEF Small
  <1>3. PICK g : FoldingUpTo(seq, d, m, m, g)
    BY <1>1
  <1>4. Folding(seq, d, g)
    BY <1>2, <1>3 DEF FoldingUpTo, Folding
  <1>5. QED
    BY <1>4

LEMMA FirstOnes ==
  ASSUME NEW m \in Nat, NEW i \in 1 .. m
  PROVE  1 .. i \in SUBSET (0 .. m) /\ 1 .. i \in SUBSET (1 .. m) /\ 1 .. i # {}
  OBVIOUS

\* The lines after each change, one after another.
LEMMA SummedUp ==
  ASSUME NEW seq, NEW m \in Nat, DOMAIN seq = 1 .. m, NEW d
  PROVE  \E h : /\ h[0] = d /\ h[m] = SumOf(d, seq)
                /\ \A i \in 1 .. m : h[i] = Merged(h[i - 1], seq[i])
  <1> DEFINE g == CHOOSE k : Folding(seq, d, k)
             h == [i \in 0 .. m |-> g[1 .. i]]
  <1>1. \E k : Folding(seq, d, k)
    BY FoldExists
  <1>2. Folding(seq, d, g)
    BY <1>1
  <1>3. SumOf(d, seq) = g[1 .. m]
    <2>1. SumOf(d, seq) = g[DOMAIN seq]
      BY DEF SumOf, FoldLeft, MapThenFoldSet, Folding
    <2>2. QED
      BY <2>1
  <1>4. g[{}] = d
    BY <1>2 DEF Folding
  <1>5. ASSUME NEW i \in 1 .. m
        PROVE  g[1 .. i] = Merged(g[1 .. i - 1], seq[i])
    <2> HIDE DEF g
    <2>1. 1 .. i \in SUBSET (0 .. m) /\ 1 .. i \in SUBSET (1 .. m) /\ 1 .. i # {}
      BY FirstOnes
    <2>2. Max(1 .. i) \in 1 .. i /\ \A y \in 1 .. i : Max(1 .. i) >= y
      BY <2>1, GreatestOf
    <2>3. Max(1 .. i) = i
      BY <2>2
    <2>4. (1 .. i) \ {i} = 1 .. i - 1
      OBVIOUS
    <2>5. g[1 .. i] = Merged(g[(1 .. i) \ {Max(1 .. i)}], seq[Max(1 .. i)])
      BY <1>2, <2>1 DEF Folding
    <2>6. QED
      BY <2>3, <2>4, <2>5
  <1> HIDE DEF g
  <1>6. h[0] = d
    <2>1. 1 .. 0 = {}
      OBVIOUS
    <2>2. QED
      BY <1>4, <2>1
  <1>7. h[m] = SumOf(d, seq)
    BY <1>3
  <1>8. ASSUME NEW i \in 1 .. m
        PROVE  h[i] = Merged(h[i - 1], seq[i])
    <2>1. i \in 0 .. m /\ i - 1 \in 0 .. m
      OBVIOUS
    <2>2. h[i] = g[1 .. i] /\ h[i - 1] = g[1 .. i - 1]
      BY <2>1
    <2>3. QED
      BY <1>5, <2>2
  <1>9. QED
    BY <1>6, <1>7, <1>8

\* A finite set in any order: all of it.
LEMMA AnyOrder ==
  ASSUME NEW S, IsFiniteSet(S), NEW f \in SetToSeqs(S)
  PROVE  f \in Seq(S) /\ Range(f) = S
  <1> DEFINE n == Cardinality(S)
  <1>1. n \in Nat
    BY FS_CardinalityType
  <1>2. f \in [1 .. n -> S] /\ \A i, j \in 1 .. n : i # j => f[i] # f[j]
    BY DEF SetToSeqs
  <1>3. f \in Injection(1 .. n, S)
    BY <1>2 DEF Injection, IsInjective
  <1>4. IsFiniteSet(1 .. n) /\ Cardinality(1 .. n) = n
    <2>1. 1 \in Int /\ n \in Int
      BY <1>1
    <2>2. IsFiniteSet(1 .. n) /\ Cardinality(1 .. n) = (IF 1 > n THEN 0 ELSE n - 1 + 1)
      BY <2>1, FS_Interval, Zenon
    <2>3. QED
      BY <1>1, <2>2
  <1>5. f \in Surjection(1 .. n, S)
    BY <1>3, <1>4, FS_Injection
  <1>6. Range(f) = S
    BY <1>2, <1>5 DEF Surjection, Range
  <1>7. f \in Seq(S)
    BY <1>1, <1>2
  <1>8. QED
    BY <1>6, <1>7
-----------------------------------------------------------------------------
(***************************************************************************)
(* What one hunk adds to the changes.                                      *)
(***************************************************************************)

LEMMA SequenceIs ==
  ASSUME NEW s, IsSequence(s)
  PROVE  /\ Len(s) \in Nat /\ DOMAIN s = 1 .. Len(s)
         /\ \A e \in Range(s) : \E i \in 1 .. Len(s) : s[i] = e
         /\ \A i \in 1 .. Len(s) : s[i] \in Range(s)
  <1>1. Len(s) \in Nat /\ DOMAIN s = 1 .. Len(s)
    BY DEF IsSequence
  <1>2. QED
    BY <1>1 DEF Range

\* The map by name holds an entity of that name, the only one if there is one.
LEMMA ByNameIs ==
  ASSUME NEW entities, IsSequence(entities), NEW n \in NamesIn(entities)
  PROVE  /\ ByName(entities, n) \in Range(entities) /\ ByName(entities, n).name = n
         /\ NoNameTwice(entities) =>
              \A e \in Range(entities) : e.name = n => e = ByName(entities, n)
  <1> DEFINE named == {i \in DOMAIN entities : entities[i].name = n}
             LastNamed(i) == /\ entities[i].name = n
                        /\ \A j \in DOMAIN entities : entities[j].name = n => j <= i
             i == CHOOSE i \in DOMAIN entities : LastNamed(i)
  <1>1. Len(entities) \in Nat /\ DOMAIN entities = 1 .. Len(entities)
    BY SequenceIs
  <1>2. named # {}
    BY <1>1, SequenceIs DEF NamesIn
  <1>3. named \in SUBSET (0 .. Len(entities))
    BY <1>1
  <1>4. \E k \in DOMAIN entities : LastNamed(k)
    <2>1. Max(named) \in named /\ \A y \in named : Max(named) >= y
      BY <1>1, <1>2, <1>3, GreatestOf
    <2> DEFINE k == Max(named)
    <2>2. k \in named /\ \A y \in named : k >= y
      BY <2>1
    <2> HIDE DEF k
    <2>3. k \in DOMAIN entities /\ entities[k].name = n
      BY <2>2
    <2>4. \A j \in DOMAIN entities : entities[j].name = n => j <= k
      <3> SUFFICES ASSUME NEW j \in DOMAIN entities, entities[j].name = n
                   PROVE  j <= k
        OBVIOUS
      <3>1. k >= j
        BY <2>2
      <3>2. j \in Nat /\ k \in Nat
        BY <1>1, <2>3
      <3>3. QED
        BY <3>1, <3>2
    <2>5. QED
      BY <2>3, <2>4
  <1>5. i \in DOMAIN entities /\ LastNamed(i)
    BY <1>4
  <1>6. ByName(entities, n) = entities[i]
    BY DEF ByName
  <1> HIDE DEF i
  <1>7. entities[i] \in Range(entities) /\ entities[i].name = n
    BY <1>5 DEF Range
  <1>8. ASSUME NoNameTwice(entities), NEW e \in Range(entities), e.name = n
        PROVE  e = entities[i]
    <2>1. PICK j \in DOMAIN entities : entities[j] = e
      BY <1>1, SequenceIs
    <2>2. j = i
      BY <1>5, <1>8, <2>1 DEF NoNameTwice
    <2>3. QED
      BY <2>1, <2>2
  <1>9. QED
    BY <1>6, <1>7, <1>8

\* As many values as there are entities of some names, at most.
LEMMA FewNames ==
  ASSUME NEW entities, IsSequence(entities), NEW names \in SUBSET NamesIn(entities)
  PROVE  IsFiniteSet(names)
  <1> DEFINE places == {i \in DOMAIN entities : entities[i].name \in names}
             f == [i \in places |-> entities[i].name]
  <1>1. Len(entities) \in Nat /\ DOMAIN entities = 1 .. Len(entities)
    BY SequenceIs
  <1>2. IsFiniteSet(places)
    <2>1. places \in SUBSET (1 .. Len(entities))
      BY <1>1
    <2>2. QED
      BY <1>1, <2>1, PartOfInterval
  <1>3. \A n \in names : \E i \in places : f[i] = n
    <2> SUFFICES ASSUME NEW n \in names
                 PROVE  \E i \in places : f[i] = n
      OBVIOUS
    <2>1. PICK e \in Range(entities) : e.name = n
      BY DEF NamesIn
    <2>2. PICK i \in DOMAIN entities : entities[i] = e
      BY <1>1, SequenceIs
    <2>3. QED
      BY <2>1, <2>2
  <1>4. f \in Surjection(places, names)
    BY <1>3 DEF Surjection
  <1>5. QED
    BY <1>2, <1>4, FS_Surjection

Kinds == {"signature_changed", "added", "removed", "modified"}
IsChange(c) ==
  /\ c = [kind |-> c.kind, entity |-> c.entity, old |-> c.old, new |-> c.new, hunk |-> c.hunk]
  /\ c.kind \in Kinds

LEMMA ChangeIs ==
  ASSUME NEW kind \in Kinds, NEW entityKind, NEW name, NEW old, NEW new, NEW h
  PROVE  /\ IsChange(Change(kind, entityKind, name, old, new, h))
         /\ Change(kind, entityKind, name, old, new, h).hunk = h
         /\ Change(kind, entityKind, name, old, new, h).entity[2] = name
  BY DEF Change, IsChange

\* The three kinds of findings in a hunk: not without end, and of this hunk.
LEMMA AppearedIs ==
  ASSUME NEW hunk, IsSequence(hunk.old), IsSequence(hunk.new), NEW h
  PROVE  /\ IsFiniteSet(Appeared(hunk, h))
         /\ \A c \in Appeared(hunk, h) : IsChange(c) /\ c.hunk = h
         /\ \A n \in NamesIn(hunk.new) \ NamesIn(hunk.old) :
              \E c \in Appeared(hunk, h) : c.entity[2] = n
  <1> DEFINE names == NamesIn(hunk.new) \ NamesIn(hunk.old)
             Of(e) == Change("added", e.kind, e.name, NoSig, e.sig, h)
             f == [n \in names |-> Of(ByName(hunk.new, n))]
  <1>1. "added" \in Kinds
    BY DEF Kinds
  <1>2. Appeared(hunk, h) = {Of(e) : e \in {ByName(hunk.new, n) : n \in names}}
    BY DEF Appeared
  <1>3. \A e : IsChange(Of(e)) /\ Of(e).hunk = h /\ Of(e).entity[2] = e.name
    BY <1>1, ChangeIs
  <1>4. \A n \in names : ByName(hunk.new, n).name = n
    BY ByNameIs
  <1>5. IsFiniteSet(names)
    BY FewNames
  <1> HIDE DEF names, Of
  <1>6. f \in Surjection(names, Appeared(hunk, h))
    BY <1>2 DEF Surjection
  <1>7. IsFiniteSet(Appeared(hunk, h))
    BY <1>5, <1>6, FS_Surjection
  <1>8. \A c \in Appeared(hunk, h) : IsChange(c) /\ c.hunk = h
    BY <1>2, <1>3
  <1>9. \A n \in names : \E c \in Appeared(hunk, h) : c.entity[2] = n
    BY <1>2, <1>3, <1>4
  <1>10. QED
    BY <1>7, <1>8, <1>9 DEF names

LEMMA VanishedIs ==
  ASSUME NEW hunk, IsSequence(hunk.old), IsSequence(hunk.new), NEW h
  PROVE  /\ IsFiniteSet(Vanished(hunk, h))
         /\ \A c \in Vanished(hunk, h) : IsChange(c) /\ c.hunk = h
         /\ \A n \in NamesIn(hunk.old) \ NamesIn(hunk.new) :
              \E c \in Vanished(hunk, h) : c.entity[2] = n
  <1> DEFINE names == NamesIn(hunk.old) \ NamesIn(hunk.new)
             Of(e) == Change("removed", e.kind, e.name, e.sig, NoSig, h)
             f == [n \in names |-> Of(ByName(hunk.old, n))]
  <1>1. "removed" \in Kinds
    BY DEF Kinds
  <1>2. Vanished(hunk, h) = {Of(e) : e \in {ByName(hunk.old, n) : n \in names}}
    BY DEF Vanished
  <1>3. \A e : IsChange(Of(e)) /\ Of(e).hunk = h /\ Of(e).entity[2] = e.name
    BY <1>1, ChangeIs
  <1>4. \A n \in names : ByName(hunk.old, n).name = n
    BY ByNameIs
  <1>5. IsFiniteSet(names)
    BY FewNames
  <1> HIDE DEF names, Of
  <1>6. f \in Surjection(names, Vanished(hunk, h))
    BY <1>2 DEF Surjection
  <1>7. IsFiniteSet(Vanished(hunk, h))
    BY <1>5, <1>6, FS_Surjection
  <1>8. \A c \in Vanished(hunk, h) : IsChange(c) /\ c.hunk = h
    BY <1>2, <1>3
  <1>9. \A n \in names : \E c \in Vanished(hunk, h) : c.entity[2] = n
    BY <1>2, <1>3, <1>4
  <1>10. QED
    BY <1>7, <1>8, <1>9 DEF names

LEMMA AlteredIs ==
  ASSUME NEW hunk, IsSequence(hunk.old), IsSequence(hunk.new), NEW h
  PROVE  /\ IsFiniteSet(Altered(hunk, h))
         /\ \A c \in Altered(hunk, h) : IsChange(c) /\ c.hunk = h
         /\ \A n \in NamesIn(hunk.new) \cap NamesIn(hunk.old) :
              ByName(hunk.old, n).body # ByName(hunk.new, n).body =>
                \E c \in Altered(hunk, h) : c.entity[2] = n
  <1> DEFINE names == {n \in NamesIn(hunk.new) \cap NamesIn(hunk.old) :
                         ByName(hunk.old, n).body # ByName(hunk.new, n).body}
             kind(n) == IF ByName(hunk.old, n).sig # ByName(hunk.new, n).sig
                        THEN "signature_changed" ELSE "modified"
             Of(n) == Change(kind(n), ByName(hunk.new, n).kind, n,
                             ByName(hunk.old, n).sig, ByName(hunk.new, n).sig, h)
             f == [n \in names |-> Of(n)]
  <1>1. \A n : kind(n) \in Kinds
    BY DEF Kinds
  <1>2. Altered(hunk, h) = {Of(n) : n \in names}
    BY DEF Altered
  <1> HIDE DEF kind
  <1>3. \A n : IsChange(Of(n)) /\ Of(n).hunk = h /\ Of(n).entity[2] = n
    BY <1>1, ChangeIs
  <1>4. IsFiniteSet(names)
    BY FewNames
  <1>5. \A n \in NamesIn(hunk.new) \cap NamesIn(hunk.old) :
          ByName(hunk.old, n).body # ByName(hunk.new, n).body => n \in names
    OBVIOUS
  <1> HIDE DEF names, Of
  <1>6. f \in Surjection(names, Altered(hunk, h))
    BY <1>2 DEF Surjection
  <1>7. IsFiniteSet(Altered(hunk, h))
    BY <1>4, <1>6, FS_Surjection
  <1>8. \A c \in Altered(hunk, h) : IsChange(c) /\ c.hunk = h
    BY <1>2, <1>3
  <1>9. \A n \in names : \E c \in Altered(hunk, h) : c.entity[2] = n
    BY <1>2, <1>3
  <1>10. QED
    BY <1>5, <1>7, <1>8, <1>9

Findings(hunk, h) == Appeared(hunk, h) \cup Altered(hunk, h) \cup Vanished(hunk, h)

\* Nothing whose text is on one side only escapes diffEntities.
LEMMA NothingEscapes ==
  ASSUME NEW hunk, IsSequence(hunk.old), IsSequence(hunk.new), NEW h,
         NoNameTwice(hunk.old), NoNameTwice(hunk.new),
         NEW e \in Unlike(hunk.old, hunk.new) \cup Unlike(hunk.new, hunk.old)
  PROVE  \E c \in Findings(hunk, h) : c.entity[2] = e.name
  <1> DEFINE n == e.name
             inOld == n \in NamesIn(hunk.old)
             inNew == n \in NamesIn(hunk.new)
  <1>1. inOld \/ inNew
    BY DEF Unlike, NamesIn
  <1>2. CASE inOld /\ ~inNew
    BY <1>2, VanishedIs DEF Findings
  <1>3. CASE inNew /\ ~inOld
    BY <1>3, AppearedIs DEF Findings
  <1>4. CASE inOld /\ inNew
    <2> DEFINE was == ByName(hunk.old, n)
               is  == ByName(hunk.new, n)
    <2>1. /\ was \in Range(hunk.old) /\ was.name = n
          /\ \A g \in Range(hunk.old) : g.name = n => g = was
      BY <1>4, ByNameIs
    <2>2. /\ is \in Range(hunk.new) /\ is.name = n
          /\ \A g \in Range(hunk.new) : g.name = n => g = is
      BY <1>4, ByNameIs
    <2> HIDE DEF was, is
    <2>3. was.body # is.body
      <3>1. CASE e \in Unlike(hunk.old, hunk.new)
        <4>1. e \in Range(hunk.old) /\ \A g \in Range(hunk.new) : g.name = e.name => g.body # e.body
          BY <3>1 DEF Unlike
        <4>2. e = was
          BY <2>1, <4>1
        <4>3. QED
          BY <2>2, <4>1, <4>2
      <3>2. CASE e \in Unlike(hunk.new, hunk.old)
        <4>1. e \in Range(hunk.new) /\ \A g \in Range(hunk.old) : g.name = e.name => g.body # e.body
          BY <3>2 DEF Unlike
        <4>2. e = is
          BY <2>2, <4>1
        <4>3. QED
          BY <2>1, <4>1, <4>2
      <3>3. QED
        BY <3>1, <3>2
    <2>4. \E c \in Altered(hunk, h) : c.entity[2] = n
      BY <1>4, <2>3, AlteredIs DEF was, is
    <2>5. QED
      BY <2>4 DEF Findings
  <1>5. QED
    BY <1>1, <1>2, <1>3, <1>4

\* A list that tells of hunk h, and of all its entities.
ToldOf(hunk, list) ==
  NoNameTwice(hunk.old) /\ NoNameTwice(hunk.new) =>
    \A e \in Unlike(hunk.old, hunk.new) \cup Unlike(hunk.new, hunk.old) :
      \E i \in DOMAIN list : list[i].entity[2] = e.name

Report(hunk, h, found) ==
  /\ IsSequence(found) /\ Len(found) # 0
  /\ \A i \in DOMAIN found : IsChange(found[i]) /\ found[i].hunk = h
  /\ ToldOf(hunk, found)

LEMMA Joined ==
  ASSUME NEW s, IsSequence(s), NEW t, IsSequence(t)
  PROVE  /\ IsSequence(s \o t) /\ Len(s \o t) = Len(s) + Len(t)
         /\ DOMAIN (s \o t) = 1 .. Len(s) + Len(t)
         /\ \A i \in 1 .. Len(s) : (s \o t)[i] = s[i]
         /\ \A i \in 1 .. Len(t) : (s \o t)[Len(s) + i] = t[i]
         /\ \A i \in 1 .. Len(s) + Len(t) : i > Len(s) => (s \o t)[i] = t[i - Len(s)]
         /\ Range(s \o t) = Range(s) \cup Range(t)
  <1> DEFINE S == Range(s) \cup Range(t)
             u == s \o t
  <1>1. s \in Seq(S) /\ t \in Seq(S)
    BY DEF IsSequence
  <1>2. Len(s) \in Nat /\ Len(t) \in Nat
    BY <1>1
  <1>3. u \in Seq(S) /\ Len(u) = Len(s) + Len(t)
    BY <1>1
  <1>4. /\ \A i \in 1 .. Len(s) : u[i] = s[i]
        /\ \A i \in 1 .. Len(s) + Len(t) : i > Len(s) => u[i] = t[i - Len(s)]
    BY <1>1
  <1> HIDE DEF u, S
  <1>5. DOMAIN u = 1 .. Len(s) + Len(t)
    BY <1>3
  <1>6. \A i \in 1 .. Len(t) : u[Len(s) + i] = t[i]
    <2> SUFFICES ASSUME NEW i \in 1 .. Len(t)
                 PROVE  u[Len(s) + i] = t[i]
      OBVIOUS
    <2>1. Len(s) + i \in 1 .. Len(s) + Len(t) /\ Len(s) + i > Len(s) /\ Len(s) + i - Len(s) = i
      BY <1>2
    <2>2. QED
      BY <1>4, <2>1
  <1>7. Range(u) = Range(s) \cup Range(t)
    <2>1. ASSUME NEW e \in Range(u)
          PROVE  e \in Range(s) \cup Range(t)
      <3>1. PICK i \in 1 .. Len(s) + Len(t) : u[i] = e
        BY <1>5 DEF Range
      <3>2. CASE i <= Len(s)
        BY <1>2, <1>4, <3>1, <3>2, SequenceIs
      <3>3. CASE i > Len(s)
        <4>1. i - Len(s) \in 1 .. Len(t)
          BY <1>2, <3>3
        <4>2. e = t[i - Len(s)]
          BY <1>4, <3>1, <3>3
        <4>3. QED
          BY <4>1, <4>2, SequenceIs
      <3>4. QED
        BY <1>2, <3>2, <3>3
    <2>2. ASSUME NEW e \in Range(s)
          PROVE  e \in Range(u)
      <3>1. PICK i \in 1 .. Len(s) : s[i] = e
        BY SequenceIs
      <3>2. i \in DOMAIN u /\ u[i] = e
        BY <1>2, <1>4, <1>5, <3>1
      <3>3. QED
        BY <3>2 DEF Range
    <2>3. ASSUME NEW e \in Range(t)
          PROVE  e \in Range(u)
      <3>1. PICK i \in 1 .. Len(t) : t[i] = e
        BY SequenceIs
      <3>2. Len(s) + i \in DOMAIN u /\ u[Len(s) + i] = e
        BY <1>2, <1>5, <1>6, <3>1
      <3>3. QED
        BY <3>2 DEF Range
    <2>4. QED
      BY <2>1, <2>2, <2>3
  <1>8. IsSequence(u)
    BY <1>3, <1>7 DEF IsSequence, S
  <1>9. QED
    BY <1>3, <1>4, <1>5, <1>6, <1>7, <1>8 DEF u

LEMMA ReportIs ==
  ASSUME NEW hunk, IsSequence(hunk.old), IsSequence(hunk.new), NEW h,
         NEW new \in SetToSeqs(Appeared(hunk, h) \cup Altered(hunk, h)),
         NEW old \in SetToSeqs(Vanished(hunk, h))
  PROVE  Report(hunk, h, IF new \o old = <<>> THEN <<Fallback(hunk, h)>> ELSE new \o old)
  <1> DEFINE gained == Appeared(hunk, h) \cup Altered(hunk, h)
             all == new \o old
  <1>1. IsFiniteSet(gained) /\ IsFiniteSet(Vanished(hunk, h))
    BY AppearedIs, AlteredIs, VanishedIs, FS_Union
  <1>2. /\ new \in Seq(gained) /\ Range(new) = gained
        /\ old \in Seq(Vanished(hunk, h)) /\ Range(old) = Vanished(hunk, h)
    BY <1>1, AnyOrder
  <1>3. IsSequence(new) /\ IsSequence(old)
    BY <1>2 DEF IsSequence
  <1>4. IsSequence(all) /\ Range(all) = Findings(hunk, h)
    BY <1>2, <1>3, Joined DEF Findings
  <1>5. \A c \in Findings(hunk, h) : IsChange(c) /\ c.hunk = h
    BY AppearedIs, AlteredIs, VanishedIs DEF Findings
  <1> HIDE DEF all
  <1>6. Len(all) \in Nat /\ DOMAIN all = 1 .. Len(all)
    BY <1>4, SequenceIs
  <1>7. ToldOf(hunk, all)
    <2> SUFFICES ASSUME NoNameTwice(hunk.old), NoNameTwice(hunk.new),
                        NEW e \in Unlike(hunk.old, hunk.new) \cup Unlike(hunk.new, hunk.old)
                 PROVE  \E i \in DOMAIN all : all[i].entity[2] = e.name
      BY DEF ToldOf
    <2>1. PICK c \in Findings(hunk, h) : c.entity[2] = e.name
      BY NothingEscapes
    <2>2. PICK i \in DOMAIN all : all[i] = c
      BY <1>4, <2>1 DEF Range
    <2>3. QED
      BY <2>1, <2>2
  <1>8. CASE all = <<>>
    <2> DEFINE one == Fallback(hunk, h)
               found == <<one>>
    <2>1. "modified" \in Kinds
      BY DEF Kinds
    <2>2. IsChange(one) /\ one.hunk = h
      BY <2>1, ChangeIs DEF Fallback
    <2> HIDE DEF one
    <2>3. Len(found) = 1 /\ DOMAIN found = {1} /\ found[1] = one
      OBVIOUS
    <2>4. Range(found) = {one}
      BY <2>3 DEF Range
    <2>5. IsSequence(found)
      BY <2>4 DEF IsSequence
    <2>6. ToldOf(hunk, found)
      <3>1. DOMAIN all = {}
        BY <1>8
      <3>2. QED
        BY <1>7, <3>1 DEF ToldOf
    <2> HIDE DEF found
    <2>7. Report(hunk, h, found)
      BY <2>2, <2>3, <2>5, <2>6 DEF Report
    <2>8. QED
      BY <1>8, <2>7 DEF found, one, all
  <1>9. CASE all # <<>>
    <2>1. Len(all) # 0
      BY <1>4, <1>9 DEF IsSequence
    <2>2. \A i \in DOMAIN all : IsChange(all[i]) /\ all[i].hunk = h
      BY <1>4, <1>5 DEF Range
    <2>3. Report(hunk, h, all)
      BY <1>4, <1>7, <2>1, <2>2 DEF Report
    <2>4. QED
      BY <1>9, <2>3 DEF all
  <1>10. QED
    BY <1>8, <1>9
-----------------------------------------------------------------------------
(***************************************************************************)
(* The changes of one hunk after another, merged into lines.               *)
(***************************************************************************)

\* Changes, hunk by hunk.
InOrder(cs) ==
  /\ IsSequence(cs)
  /\ \A i \in DOMAIN cs : IsChange(cs[i]) /\ cs[i].hunk \in Nat
  /\ \A i, j \in DOMAIN cs : i < j => cs[i].hunk <= cs[j].hunk

\* The lines once n changes are merged.
Places(lines) ==
  /\ IsSequence(lines)
  /\ \A i \in DOMAIN lines : IsChange(lines[i]) /\ lines[i].hunk \in Nat
  /\ \A i, j \in DOMAIN lines : i < j =>
       lines[i].entity # lines[j].entity /\ lines[i].hunk <= lines[j].hunk
Sources(cs, n, line) ==
  /\ \E k \in 1 .. n : cs[k].entity = line.entity /\ cs[k].hunk = line.hunk
  /\ \E k \in 1 .. n : cs[k].entity = line.entity /\ line = [cs[k] EXCEPT !.hunk = line.hunk]
TellsOf(line, c) ==
  line.entity = c.entity /\ line.hunk <= c.hunk /\ Rank(line.kind) <= Rank(c.kind)
Lines(cs, n, lines) ==
  /\ Places(lines)
  /\ \A i \in DOMAIN lines : Sources(cs, n, lines[i])
  /\ \A k \in 1 .. n : \E i \in DOMAIN lines : TellsOf(lines[i], cs[k])

LEMMA RankIs == \A kind \in Kinds : Rank(kind) \in Nat
  BY DEF Rank, Kinds

LEMMA Relinked ==
  ASSUME NEW c, IsChange(c), NEW h
  PROVE  LET d == [c EXCEPT !.hunk = h]
         IN  IsChange(d) /\ d.hunk = h /\ d.entity = c.entity /\ d.kind = c.kind
  <1> DEFINE d == [kind |-> c.kind, entity |-> c.entity, old |-> c.old, new |-> c.new, hunk |-> h]
  <1>1. [c EXCEPT !.hunk = h] = d
    <2> DEFINE r == [kind |-> c.kind, entity |-> c.entity, old |-> c.old, new |-> c.new,
                     hunk |-> c.hunk]
    <2>1. c = r
      BY DEF IsChange
    <2>2. [r EXCEPT !.hunk = h] = d
      OBVIOUS
    <2> HIDE DEF r
    <2>3. QED
      BY <2>1, <2>2
  <1>2. IsChange(d) /\ d.hunk = h /\ d.entity = c.entity /\ d.kind = c.kind
    BY DEF IsChange
  <1> HIDE DEF d
  <1>3. QED
    BY <1>1, <1>2

LEMMA SameLink ==
  ASSUME NEW c, IsChange(c)
  PROVE  c = [c EXCEPT !.hunk = c.hunk]
  <1> DEFINE r == [kind |-> c.kind, entity |-> c.entity, old |-> c.old, new |-> c.new,
                   hunk |-> c.hunk]
  <1>1. c = r
    BY DEF IsChange
  <1>2. r = [r EXCEPT !.hunk = r.hunk]
    OBVIOUS
  <1> HIDE DEF r
  <1>3. QED
    BY <1>1, <1>2

LEMMA SourcesStay ==
  ASSUME NEW cs, NEW n \in Nat, NEW line, Sources(cs, n, line)
  PROVE  Sources(cs, n + 1, line)
  <1>1. \A k \in 1 .. n : k \in 1 .. n + 1
    OBVIOUS
  <1>2. QED
    BY <1>1 DEF Sources

\* A change to an entity without a line.
LEMMA NewLine ==
  ASSUME NEW cs, InOrder(cs), NEW n \in Nat, n + 1 \in DOMAIN cs,
         NEW lines, Lines(cs, n, lines),
         \A i \in DOMAIN lines : lines[i].entity # cs[n + 1].entity
  PROVE  Lines(cs, n + 1, Append(lines, cs[n + 1]))
  <1> DEFINE c == cs[n + 1]
             len == Len(lines)
             all == Append(lines, c)
  <1>1. IsChange(c) /\ c.hunk \in Nat
    BY DEF InOrder
  <1>2. DOMAIN cs = 1 .. Len(cs) /\ Len(cs) \in Nat
    BY SequenceIs DEF InOrder
  <1>3. IsSequence(lines) /\ len \in Nat /\ DOMAIN lines = 1 .. len
    BY SequenceIs DEF Lines, Places
  <1> HIDE DEF c
  <1>4. /\ IsSequence(all) /\ DOMAIN all = 1 .. len + 1
        /\ \A i \in 1 .. len : all[i] = lines[i]
        /\ all[len + 1] = c
    <2> DEFINE S == Range(lines) \cup {c}
    <2>1. lines \in Seq(S) /\ c \in S
      BY <1>3 DEF IsSequence
    <2>2. /\ all \in Seq(S) /\ Len(all) = len + 1
          /\ \A i \in 1 .. len : all[i] = lines[i]
          /\ all[len + 1] = c
      BY <2>1
    <2> HIDE DEF all, S
    <2>3. DOMAIN all = 1 .. len + 1
      BY <2>2
    <2>4. IsSequence(all)
      <3>1. \A i \in 1 .. len + 1 : all[i] \in Range(all)
        BY <2>3 DEF Range
      <3>2. all \in [1 .. len + 1 -> Range(all)]
        BY <2>2, <2>3, <3>1
      <3>3. QED
        BY <1>3, <3>2 DEF IsSequence
    <2>5. QED
      BY <2>2, <2>3, <2>4
  <1> HIDE DEF all
  <1>5. Places(all)
    <2>1. \A i \in DOMAIN all : IsChange(all[i]) /\ all[i].hunk \in Nat
      <3> SUFFICES ASSUME NEW i \in 1 .. len + 1
                   PROVE  IsChange(all[i]) /\ all[i].hunk \in Nat
        BY <1>4
      <3>1. CASE i = len + 1
        BY <1>1, <1>4, <3>1
      <3>2. CASE i \in 1 .. len
        BY <1>3, <1>4, <3>2 DEF Lines, Places
      <3>3. QED
        BY <1>3, <3>1, <3>2
    <2>2. ASSUME NEW i \in DOMAIN all, NEW j \in DOMAIN all, i < j
          PROVE  all[i].entity # all[j].entity /\ all[i].hunk <= all[j].hunk
      <3>1. i \in 1 .. len /\ all[i] = lines[i]
        BY <1>3, <1>4, <2>2
      <3>2. CASE j = len + 1
        <4>1. all[j] = c
          BY <1>4, <3>2
        <4>2. lines[i].entity # c.entity
          BY <1>3, <3>1 DEF c
        <4>3. PICK k \in 1 .. n : cs[k].hunk = lines[i].hunk
          BY <1>3, <3>1 DEF Lines, Sources
        <4>4. k \in DOMAIN cs /\ n + 1 \in DOMAIN cs /\ k < n + 1
          BY <1>2, <4>3
        <4>5. cs[k].hunk <= c.hunk
          BY <4>4 DEF InOrder, c
        <4>6. QED
          BY <3>1, <4>1, <4>2, <4>3, <4>5
      <3>3. CASE j \in 1 .. len
        <4>1. all[j] = lines[j]
          BY <1>4, <3>3
        <4>2. QED
          BY <1>3, <2>2, <3>1, <3>3, <4>1 DEF Lines, Places
      <3>4. QED
        BY <1>3, <1>4, <3>2, <3>3
    <2>3. QED
      BY <1>4, <2>1, <2>2 DEF Places
  <1>6. ASSUME NEW i \in DOMAIN all
        PROVE  Sources(cs, n + 1, all[i])
    <2>1. CASE i = len + 1
      <3>1. all[i] = c /\ n + 1 \in 1 .. n + 1
        BY <1>4, <2>1
      <3>2. c = [c EXCEPT !.hunk = c.hunk]
        BY <1>1, SameLink
      <3>3. Sources(cs, n + 1, c)
        BY <3>1, <3>2 DEF Sources, c
      <3>4. QED
        BY <3>1, <3>3
    <2>2. CASE i \in 1 .. len
      <3>1. Sources(cs, n, lines[i])
        BY <1>3, <2>2 DEF Lines
      <3>2. QED
        BY <1>4, <2>2, <3>1, SourcesStay
    <2>3. QED
      BY <1>3, <1>4, <2>1, <2>2
  <1>7. ASSUME NEW k \in 1 .. n + 1
        PROVE  \E i \in DOMAIN all : TellsOf(all[i], cs[k])
    <2>1. CASE k = n + 1
      <3>1. len + 1 \in DOMAIN all /\ all[len + 1] = cs[k]
        BY <1>3, <1>4, <2>1 DEF c
      <3>2. TellsOf(c, c)
        <4>1. c.kind \in Kinds
          BY <1>1 DEF IsChange
        <4>2. Rank(c.kind) \in Nat
          BY <4>1, RankIs
        <4>3. QED
          BY <1>1, <4>2 DEF TellsOf
      <3>3. QED
        BY <2>1, <3>1, <3>2 DEF c
    <2>2. CASE k \in 1 .. n
      <3>1. PICK i \in DOMAIN lines : TellsOf(lines[i], cs[k])
        BY <2>2 DEF Lines
      <3>2. i \in DOMAIN all /\ all[i] = lines[i]
        BY <1>3, <1>4, <3>1
      <3>3. QED
        BY <3>1, <3>2
    <2>3. QED
      BY <2>1, <2>2
  <1>8. Lines(cs, n + 1, all)
    BY <1>5, <1>6, <1>7 DEF Lines
  <1>9. QED
    BY <1>8 DEF all, c

\* A change to an entity with a line.
LEMMA SameLine ==
  ASSUME NEW cs, InOrder(cs), NEW n \in Nat, n + 1 \in DOMAIN cs,
         NEW lines, Lines(cs, n, lines),
         NEW at0 \in DOMAIN lines, lines[at0].entity = cs[n + 1].entity
  PROVE  Lines(cs, n + 1, Merged(lines, cs[n + 1]))
  <1> DEFINE c == cs[n + 1]
             same == {i \in DOMAIN lines : lines[i].entity = c.entity}
             Gives(i) == i \in same /\ Rank(c.kind) < Rank(lines[i].kind)
             line(i) == IF Gives(i) THEN [c EXCEPT !.hunk = lines[i].hunk] ELSE lines[i]
             all == [i \in DOMAIN lines |-> line(i)]
  <1>1. IsChange(c) /\ c.hunk \in Nat
    BY DEF InOrder
  <1>2. DOMAIN cs = 1 .. Len(cs) /\ Len(cs) \in Nat
    BY SequenceIs DEF InOrder
  <1>3. IsSequence(lines) /\ Len(lines) \in Nat /\ DOMAIN lines = 1 .. Len(lines)
    BY SequenceIs DEF Lines, Places
  <1>4. Merged(lines, c) = all
    <2>1. same # {}
      OBVIOUS
    <2> HIDE DEF c
    <2>2. QED
      BY <2>1 DEF Merged
  <1>5. ASSUME NEW i \in DOMAIN lines
        PROVE  IsChange(lines[i]) /\ lines[i].hunk \in Nat
    BY DEF Lines, Places
  <1>6. Rank(c.kind) \in Nat /\ \A i \in DOMAIN lines : Rank(lines[i].kind) \in Nat
    BY <1>1, <1>5, RankIs DEF IsChange
  <1> HIDE DEF c
  <1>7. ASSUME NEW i \in DOMAIN lines
        PROVE  /\ IsChange(line(i)) /\ line(i).hunk = lines[i].hunk
               /\ line(i).entity = lines[i].entity
               /\ Rank(line(i).kind) \in Nat /\ Rank(line(i).kind) <= Rank(lines[i].kind)
               /\ i \in same => Rank(line(i).kind) <= Rank(c.kind)
    <2>1. CASE Gives(i)
      <3> DEFINE d == [c EXCEPT !.hunk = lines[i].hunk]
      <3>1. line(i) = d
        BY <2>1
      <3>2. IsChange(d) /\ d.hunk = lines[i].hunk /\ d.entity = c.entity /\ d.kind = c.kind
        BY <1>1, Relinked
      <3> HIDE DEF d, line
      <3>3. c.entity = lines[i].entity /\ Rank(c.kind) < Rank(lines[i].kind)
        BY <2>1
      <3>4. QED
        BY <1>6, <3>1, <3>2, <3>3
    <2>2. CASE ~Gives(i)
      <3>1. line(i) = lines[i]
        BY <2>2
      <3>2. i \in same => ~(Rank(c.kind) < Rank(lines[i].kind))
        BY <2>2
      <3> HIDE DEF line, same
      <3>3. QED
        BY <1>5, <1>6, <3>1, <3>2
    <2>3. QED
      BY <2>1, <2>2
  <1>8. DOMAIN all = DOMAIN lines /\ \A i \in DOMAIN lines : all[i] = line(i)
    OBVIOUS
  <1>9. IsSequence(all)
    <2> HIDE DEF line
    <2>1. all \in [1 .. Len(lines) -> Range(all)]
      BY <1>3 DEF Range
    <2>2. QED
      BY <1>3, <2>1 DEF IsSequence
  <1> HIDE DEF all
  <1>10. Places(all)
    <2> HIDE DEF line
    <2>1. \A i \in DOMAIN all : IsChange(all[i]) /\ all[i].hunk \in Nat
      BY <1>5, <1>7, <1>8
    <2>2. ASSUME NEW i \in DOMAIN all, NEW j \in DOMAIN all, i < j
          PROVE  all[i].entity # all[j].entity /\ all[i].hunk <= all[j].hunk
      <3>1. lines[i].entity # lines[j].entity /\ lines[i].hunk <= lines[j].hunk
        BY <1>8, <2>2 DEF Lines, Places
      <3>2. /\ all[i].entity = lines[i].entity /\ all[j].entity = lines[j].entity
            /\ all[i].hunk = lines[i].hunk /\ all[j].hunk = lines[j].hunk
        BY <1>7, <1>8
      <3>3. QED
        BY <3>1, <3>2
    <2>3. QED
      BY <1>9, <2>1, <2>2 DEF Places
  <1>11. ASSUME NEW i \in DOMAIN all
         PROVE  Sources(cs, n + 1, all[i])
    <2>1. i \in DOMAIN lines /\ all[i] = line(i)
      BY <1>8
    <2>2. Sources(cs, n, lines[i])
      BY <2>1 DEF Lines
    <2>3. CASE Gives(i)
      <3>1. all[i] = [c EXCEPT !.hunk = lines[i].hunk] /\ c.entity = lines[i].entity
        BY <2>1, <2>3
      <3>2. all[i].entity = lines[i].entity /\ all[i].hunk = lines[i].hunk
        BY <1>7, <2>1
      <3>3. PICK k \in 1 .. n : cs[k].entity = lines[i].entity /\ cs[k].hunk = lines[i].hunk
        BY <2>2 DEF Sources
      <3>4. k \in 1 .. n + 1 /\ n + 1 \in 1 .. n + 1
        BY <3>3
      <3>5. \E m \in 1 .. n + 1 : cs[m].entity = all[i].entity /\ cs[m].hunk = all[i].hunk
        BY <3>2, <3>3, <3>4
      <3>6. cs[n + 1].entity = all[i].entity /\ all[i] = [cs[n + 1] EXCEPT !.hunk = all[i].hunk]
        BY <3>1, <3>2 DEF c
      <3>7. QED
        BY <3>4, <3>5, <3>6 DEF Sources
    <2>4. CASE ~Gives(i)
      <3>1. all[i] = lines[i]
        BY <2>1, <2>4
      <3>2. QED
        BY <2>2, <3>1, SourcesStay
    <2>5. QED
      BY <2>3, <2>4
  <1>12. ASSUME NEW k \in 1 .. n + 1
         PROVE  \E i \in DOMAIN all : TellsOf(all[i], cs[k])
    <2>1. CASE k = n + 1
      <3>1. PICK m \in 1 .. n : cs[m].hunk = lines[at0].hunk
        BY DEF Lines, Sources
      <3>2. m \in DOMAIN cs /\ n + 1 \in DOMAIN cs /\ m < n + 1
        BY <1>2, <3>1
      <3>3. lines[at0].hunk <= c.hunk
        BY <3>1, <3>2 DEF InOrder, c
      <3>4. at0 \in same
        BY DEF c
      <3>5. /\ all[at0] = line(at0) /\ line(at0).hunk = lines[at0].hunk
            /\ line(at0).entity = lines[at0].entity
            /\ Rank(line(at0).kind) <= Rank(c.kind)
        BY <1>7, <1>8, <3>4
      <3>6. lines[at0].entity = c.entity
        BY DEF c
      <3> HIDE DEF line, same
      <3>7. TellsOf(all[at0], c)
        BY <3>3, <3>5, <3>6 DEF TellsOf
      <3>8. QED
        BY <1>8, <2>1, <3>7 DEF c
    <2>2. CASE k \in 1 .. n
      <3>1. PICK i \in DOMAIN lines : TellsOf(lines[i], cs[k])
        BY <2>2 DEF Lines
      <3>2. /\ all[i] = line(i) /\ line(i).hunk = lines[i].hunk
            /\ line(i).entity = lines[i].entity
            /\ Rank(line(i).kind) \in Nat /\ Rank(line(i).kind) <= Rank(lines[i].kind)
        BY <1>7, <1>8
      <3>3. Rank(lines[i].kind) \in Nat /\ Rank(cs[k].kind) \in Nat
        <4>1. k \in DOMAIN cs
          BY <1>2, <2>2
        <4>2. cs[k].kind \in Kinds
          BY <4>1 DEF InOrder, IsChange
        <4>3. QED
          BY <1>6, <4>2, RankIs
      <3> HIDE DEF line, same
      <3>4. TellsOf(all[i], cs[k])
        BY <3>1, <3>2, <3>3 DEF TellsOf
      <3>5. QED
        BY <1>8, <3>4
    <2>3. QED
      BY <2>1, <2>2
  <1>13. Lines(cs, n + 1, all)
    BY <1>10, <1>11, <1>12 DEF Lines
  <1>14. QED
    BY <1>4, <1>13 DEF c

LEMMA MergedOne ==
  ASSUME NEW cs, InOrder(cs), NEW n \in Nat, n + 1 \in DOMAIN cs,
         NEW lines, Lines(cs, n, lines)
  PROVE  Lines(cs, n + 1, Merged(lines, cs[n + 1]))
  <1>1. CASE \E i \in DOMAIN lines : lines[i].entity = cs[n + 1].entity
    BY <1>1, SameLine
  <1>2. CASE \A i \in DOMAIN lines : lines[i].entity # cs[n + 1].entity
    <2>1. {i \in DOMAIN lines : lines[i].entity = cs[n + 1].entity} = {}
      BY <1>2
    <2>2. Merged(lines, cs[n + 1]) = Append(lines, cs[n + 1])
      BY <2>1 DEF Merged
    <2>3. QED
      BY <1>2, <2>2, NewLine
  <1>3. QED
    BY <1>1, <1>2

LEMMA MergedAll ==
  ASSUME NEW cs, InOrder(cs)
  PROVE  Lines(cs, Len(cs), FoldLeft(Merged, <<>>, cs))
  <1> DEFINE m == Len(cs)
             none == <<>>
  <1>1. m \in Nat /\ DOMAIN cs = 1 .. m
    BY SequenceIs DEF InOrder
  <1>2. Lines(cs, 0, none)
    <2>1. DOMAIN none = {} /\ none \in Seq(Range(none)) /\ 1 .. 0 = {}
      OBVIOUS
    <2> HIDE DEF none
    <2>2. QED
      BY <2>1 DEF Lines, Places, IsSequence
  <1> HIDE DEF none, m
  <1>3. PICK h : /\ h[0] = none /\ h[m] = SumOf(none, cs)
                 /\ \A i \in 1 .. m : h[i] = Merged(h[i - 1], cs[i])
    BY <1>1, SummedUp
  <1> DEFINE wrong == {n \in 0 .. m : ~Lines(cs, n, h[n])}
  <1>4. wrong = {}
    <2> SUFFICES ASSUME wrong # {}
                 PROVE  FALSE
      OBVIOUS
    <2>1. wrong \in SUBSET Nat
      OBVIOUS
    <2> DEFINE n == Min(wrong)
    <2>2. n \in wrong /\ \A y \in wrong : n <= y
      BY <2>1, LeastOf
    <2> HIDE DEF n
    <2>3. n \in 0 .. m /\ ~Lines(cs, n, h[n])
      BY <2>2
    <2>4. n # 0
      BY <1>2, <1>3, <2>3
    <2>5. n - 1 \in 0 .. m /\ n - 1 \in Nat /\ n \in 1 .. m /\ n - 1 + 1 = n /\ ~(n <= n - 1)
      BY <1>1, <2>3, <2>4
    <2>6. Lines(cs, n - 1, h[n - 1])
      BY <2>2, <2>5
    <2> DEFINE p == n - 1
    <2>7. p \in Nat /\ p + 1 = n /\ p + 1 \in DOMAIN cs /\ Lines(cs, p, h[p])
      BY <1>1, <2>5, <2>6
    <2>8. h[n] = Merged(h[p], cs[n])
      BY <1>3, <2>5
    <2> HIDE DEF p
    <2>9. Lines(cs, p + 1, Merged(h[p], cs[p + 1]))
      BY <2>7, MergedOne
    <2>10. QED
      BY <2>3, <2>7, <2>8, <2>9
  <1>5. Lines(cs, m, h[m])
    BY <1>1, <1>4
  <1>6. QED
    BY <1>3, <1>5 DEF none, m, SumOf
-----------------------------------------------------------------------------
(***************************************************************************)
(* The invariant: what is found, hunk by hunk, and what is made of it.     *)
(***************************************************************************)

Heard(hunk, h, cs) ==
  /\ \E i \in DOMAIN cs : cs[i].hunk = h
  /\ NoNameTwice(hunk.old) /\ NoNameTwice(hunk.new) =>
       \A e \in Unlike(hunk.old, hunk.new) \cup Unlike(hunk.new, hunk.old) :
         \E i \in DOMAIN cs : cs[i].hunk = h /\ cs[i].entity[2] = e.name

FoundInv ==
  /\ hunks \in Files /\ at \in 0 .. Len(hunks) + 1
  /\ InOrder(changes)
  /\ at # 0 => \A i \in DOMAIN changes : changes[i].hunk < at
  /\ \A h \in DOMAIN hunks : at = 0 \/ h < at => Heard(hunks[h], h, changes)
SemInv == FoundInv /\ (at = 0 => summary = FoldLeft(Merged, <<>>, changes))

LEMMA HunksAre ==
  ASSUME NEW f \in Files
  PROVE  /\ Len(f) \in Nat /\ DOMAIN f = 1 .. Len(f)
         /\ \A h \in DOMAIN f : IsSequence(f[h].old) /\ IsSequence(f[h].new)
  <1>1. IsSequence(f)
    BY HunksAssumption
  <1>2. QED
    BY <1>1, SequenceIs, HunksAssumption

LEMMA MoreFound ==
  ASSUME NEW cs, InOrder(cs), NEW h \in Nat, \A i \in DOMAIN cs : cs[i].hunk < h,
         NEW hunk, NEW found, Report(hunk, h, found)
  PROVE  /\ InOrder(cs \o found) /\ \A i \in DOMAIN (cs \o found) : (cs \o found)[i].hunk < h + 1
         /\ Heard(hunk, h, cs \o found)
         /\ \A g, k : Heard(g, k, cs) => Heard(g, k, cs \o found)
  <1> DEFINE all == cs \o found
             m == Len(cs)
             n == Len(found)
  <1>1. IsSequence(cs) /\ IsSequence(found) /\ n # 0
    BY DEF InOrder, Report
  <1>2. m \in Nat /\ DOMAIN cs = 1 .. m /\ n \in Nat /\ DOMAIN found = 1 .. n
    BY <1>1, SequenceIs
  <1>3. /\ IsSequence(all) /\ DOMAIN all = 1 .. m + n
        /\ \A i \in 1 .. m : all[i] = cs[i]
        /\ \A i \in 1 .. n : all[m + i] = found[i]
        /\ \A i \in 1 .. m + n : i > m => all[i] = found[i - m]
    BY <1>1, Joined
  <1> HIDE DEF all, m, n
  <1>4. ASSUME NEW i \in DOMAIN all
        PROVE  \/ i \in 1 .. m /\ all[i] = cs[i]
               \/ i > m /\ IsChange(all[i]) /\ all[i].hunk = h
    <2>1. CASE i <= m
      BY <1>2, <1>3, <2>1
    <2>2. CASE i > m
      <3>1. i - m \in 1 .. n /\ all[i] = found[i - m]
        BY <1>2, <1>3, <2>2
      <3>2. QED
        BY <1>2, <2>2, <3>1 DEF Report
    <2>3. QED
      BY <1>2, <1>3, <2>1, <2>2
  <1>5. ASSUME NEW i \in 1 .. m
        PROVE  IsChange(cs[i]) /\ cs[i].hunk \in Nat /\ cs[i].hunk < h
    BY <1>2 DEF InOrder
  <1>6. InOrder(all)
    <2>1. \A i \in DOMAIN all : IsChange(all[i]) /\ all[i].hunk \in Nat
      BY <1>4, <1>5
    <2>2. ASSUME NEW i \in DOMAIN all, NEW j \in DOMAIN all, i < j
          PROVE  all[i].hunk <= all[j].hunk
      <3>1. CASE j \in 1 .. m
        <4>1. i \in 1 .. m
          BY <1>2, <1>3, <2>2, <3>1
        <4>2. cs[i].hunk <= cs[j].hunk
          BY <1>2, <2>2, <3>1, <4>1 DEF InOrder
        <4>3. QED
          BY <1>3, <3>1, <4>1, <4>2
      <3>2. CASE all[j].hunk = h
        BY <1>4, <1>5, <3>2
      <3>3. QED
        BY <1>4, <3>1, <3>2
    <2>3. QED
      BY <1>3, <2>1, <2>2 DEF InOrder
  <1>7. \A i \in DOMAIN all : all[i].hunk < h + 1
    BY <1>4, <1>5
  <1>8. ASSUME NEW i \in DOMAIN found
        PROVE  m + i \in DOMAIN all /\ all[m + i] = found[i] /\ all[m + i].hunk = h
    <2>1. m + i \in DOMAIN all /\ all[m + i] = found[i]
      BY <1>2, <1>3
    <2>2. QED
      BY <2>1 DEF Report
  <1>9. Heard(hunk, h, all)
    <2>1. \E i \in DOMAIN all : all[i].hunk = h
      <3>1. 1 \in DOMAIN found
        BY <1>1, <1>2
      <3>2. QED
        BY <1>8, <3>1
    <2>2. ASSUME NoNameTwice(hunk.old), NoNameTwice(hunk.new),
                 NEW e \in Unlike(hunk.old, hunk.new) \cup Unlike(hunk.new, hunk.old)
          PROVE  \E i \in DOMAIN all : all[i].hunk = h /\ all[i].entity[2] = e.name
      <3>1. PICK i \in DOMAIN found : found[i].entity[2] = e.name
        BY <2>2 DEF Report, ToldOf
      <3>2. QED
        BY <1>8, <3>1
    <2>3. QED
      BY <2>1, <2>2 DEF Heard
  <1>10. ASSUME NEW g, NEW k, Heard(g, k, cs)
         PROVE  Heard(g, k, all)
    <2>1. \A i \in DOMAIN cs : i \in DOMAIN all /\ all[i] = cs[i]
      BY <1>2, <1>3
    <2>2. QED
      BY <1>10, <2>1 DEF Heard
  <1>11. QED
    BY <1>6, <1>7, <1>9, <1>10 DEF all

LEMMA SemInvStarts == SemInit => SemInv
  <1> SUFFICES ASSUME SemInit
               PROVE  SemInv
    OBVIOUS
  <1> DEFINE none == <<>>
  <1>1. hunks \in Files /\ at = 1 /\ changes = none
    BY DEF SemInit
  <1>2. Len(hunks) \in Nat /\ DOMAIN hunks = 1 .. Len(hunks)
    BY <1>1, HunksAre
  <1>3. DOMAIN none = {} /\ none \in Seq(Range(none))
    OBVIOUS
  <1> HIDE DEF none
  <1>4. InOrder(changes)
    BY <1>1, <1>3 DEF InOrder, IsSequence
  <1>5. QED
    BY <1>1, <1>2, <1>3, <1>4 DEF SemInv, FoundInv

LEMMA SemInvKept == SemInv /\ [SemNext]_semVars => SemInv'
  <1> SUFFICES ASSUME SemInv, [SemNext]_semVars
               PROVE  SemInv'
    OBVIOUS
  <1>1. /\ hunks \in Files /\ at \in 0 .. Len(hunks) + 1
        /\ Len(hunks) \in Nat /\ DOMAIN hunks = 1 .. Len(hunks)
    BY HunksAre DEF SemInv, FoundInv
  <1>2. CASE Analyze
    <2> DEFINE hunk == hunks[at]
    <2>1. at \in 1 .. Len(hunks) /\ at' = at + 1 /\ hunks' = hunks
      BY <1>1, <1>2 DEF Analyze
    <2>2. IsSequence(hunk.old) /\ IsSequence(hunk.new)
      BY <1>1, <2>1, HunksAre
    <2>3. PICK found : Report(hunk, at, found) /\ changes' = changes \o found
      <3>1. PICK new \in SetToSeqs(Appeared(hunk, at) \cup Altered(hunk, at)),
                 old \in SetToSeqs(Vanished(hunk, at)) :
              changes' = changes \o
                (IF new \o old = <<>> THEN <<Fallback(hunk, at)>> ELSE new \o old)
        BY <1>2 DEF Analyze
      <3>2. Report(hunk, at, IF new \o old = <<>> THEN <<Fallback(hunk, at)>> ELSE new \o old)
        BY <2>2, ReportIs
      <3>3. QED
        BY <3>1, <3>2
    <2>4. /\ InOrder(changes) /\ \A i \in DOMAIN changes : changes[i].hunk < at
          /\ \A h \in DOMAIN hunks : h < at => Heard(hunks[h], h, changes)
      BY <2>1 DEF SemInv, FoundInv
    <2>5. /\ InOrder(changes') /\ \A i \in DOMAIN changes' : changes'[i].hunk < at + 1
          /\ Heard(hunk, at, changes')
          /\ \A g, k : Heard(g, k, changes) => Heard(g, k, changes')
      <3>1. at \in Nat
        BY <2>1
      <3> HIDE DEF hunk
      <3>2. QED
        BY <2>3, <2>4, <3>1, MoreFound
    <2>6. \A h \in DOMAIN hunks' : h < at + 1 => Heard(hunks'[h], h, changes')
      <3> SUFFICES ASSUME NEW h \in DOMAIN hunks, h < at + 1
                   PROVE  Heard(hunks[h], h, changes')
        BY <2>1
      <3>1. CASE h = at
        BY <2>5, <3>1
      <3>2. CASE h < at
        BY <2>4, <2>5, <3>2
      <3>3. QED
        BY <1>1, <2>1, <3>1, <3>2
    <2>7. at' \in 0 .. Len(hunks') + 1 /\ at' # 0 /\ hunks' \in Files
      BY <1>1, <2>1
    <2>8. QED
      BY <2>1, <2>5, <2>6, <2>7 DEF SemInv, FoundInv
  <1>3. CASE Merge
    <2>1. /\ at = Len(hunks) + 1 /\ at' = 0 /\ hunks' = hunks /\ changes' = changes
          /\ summary' = FoldLeft(Merged, <<>>, changes)
      BY <1>3 DEF Merge
    <2>2. /\ InOrder(changes) /\ \A h \in DOMAIN hunks : h < at => Heard(hunks[h], h, changes)
      BY <1>1 DEF SemInv, FoundInv
    <2>3. \A h \in DOMAIN hunks : Heard(hunks[h], h, changes)
      BY <1>1, <2>1, <2>2
    <2>4. FoundInv'
      BY <1>1, <2>1, <2>2, <2>3 DEF FoundInv
    <2>5. summary' = FoldLeft(Merged, <<>>, changes')
      BY <2>1
    <2>6. QED
      BY <2>4, <2>5 DEF SemInv
  <1>4. CASE UNCHANGED semVars
    BY <1>4 DEF semVars, SemInv, FoundInv
  <1>5. QED
    BY <1>2, <1>3, <1>4 DEF SemNext

LEMMA SummaryOfFound ==
  ASSUME SemInv
  PROVE  SummaryTells
  <1> SUFFICES ASSUME at = 0
               PROVE  SummaryTells
    BY DEF SummaryTells
  <1> DEFINE told(c) == {d \in Range(changes) : d.entity = c.entity}
             TellsBest(line, c) ==
               /\ line.entity = c.entity
               /\ line.hunk <= c.hunk /\ \E d \in told(c) : d.hunk = line.hunk
               /\ Rank(line.kind) <= Rank(c.kind)
               /\ \E d \in told(c) : line = [d EXCEPT !.hunk = line.hunk]
  <1>1. InOrder(changes) /\ summary = FoldLeft(Merged, <<>>, changes)
    BY DEF SemInv, FoundInv
  <1>2. Len(changes) \in Nat /\ DOMAIN changes = 1 .. Len(changes)
    BY <1>1, SequenceIs DEF InOrder
  <1>3. Lines(changes, Len(changes), summary)
    BY <1>1, MergedAll
  <1>4. \A i, j \in DOMAIN summary : i < j =>
          summary[i].entity # summary[j].entity /\ summary[i].hunk <= summary[j].hunk
    BY <1>3 DEF Lines, Places
  <1>5. ASSUME NEW k \in DOMAIN changes
        PROVE  \E line \in Range(summary) : TellsOf(line, changes[k]) /\ TellsBest(line, changes[k])
    <2>1. PICK i \in DOMAIN summary : TellsOf(summary[i], changes[k])
      BY <1>2, <1>3 DEF Lines
    <2> DEFINE line == summary[i]
    <2>2. line \in Range(summary)
      BY DEF Range
    <2>3. Sources(changes, Len(changes), line)
      BY <1>3 DEF Lines
    <2> HIDE DEF line
    <2>4. TellsOf(line, changes[k])
      BY <2>1 DEF line
    <2>5. \A m \in 1 .. Len(changes) : changes[m] \in Range(changes)
      BY <1>2 DEF Range
    <2>6. \E d \in told(changes[k]) : d.hunk = line.hunk
      BY <2>3, <2>4, <2>5 DEF Sources, TellsOf
    <2>7. \E d \in told(changes[k]) : line = [d EXCEPT !.hunk = line.hunk]
      BY <2>3, <2>4, <2>5 DEF Sources, TellsOf
    <2>8. TellsBest(line, changes[k])
      BY <2>4, <2>6, <2>7 DEF TellsOf
    <2>9. QED
      BY <2>2, <2>4, <2>8
  <1>6. \A c \in Range(changes) : \E line \in Range(summary) : TellsBest(line, c)
    <2> SUFFICES ASSUME NEW c \in Range(changes)
                 PROVE  \E line \in Range(summary) : TellsBest(line, c)
      OBVIOUS
    <2>1. PICK k \in DOMAIN changes : c = changes[k]
      BY DEF Range
    <2> HIDE DEF TellsBest
    <2>2. QED
      BY <1>5, <2>1
  <1>7. ASSUME NEW h \in DOMAIN hunks
        PROVE  /\ \E c \in Range(changes) : c.hunk = h
               /\ NoNameTwice(hunks[h].old) /\ NoNameTwice(hunks[h].new) =>
                    \A e \in Unlike(hunks[h].old, hunks[h].new) \cup
                             Unlike(hunks[h].new, hunks[h].old) :
                      \E line \in Range(summary) : line.entity[2] = e.name /\ line.hunk <= h
    <2>1. Heard(hunks[h], h, changes)
      BY DEF SemInv, FoundInv
    <2>2. \E c \in Range(changes) : c.hunk = h
      BY <2>1 DEF Heard, Range
    <2>3. ASSUME NoNameTwice(hunks[h].old), NoNameTwice(hunks[h].new),
                 NEW e \in Unlike(hunks[h].old, hunks[h].new) \cup
                           Unlike(hunks[h].new, hunks[h].old)
          PROVE  \E line \in Range(summary) : line.entity[2] = e.name /\ line.hunk <= h
      <3>1. PICK k \in DOMAIN changes : changes[k].hunk = h /\ changes[k].entity[2] = e.name
        BY <2>1, <2>3 DEF Heard
      <3>2. PICK line \in Range(summary) : TellsOf(line, changes[k])
        BY <1>5
      <3>3. QED
        BY <3>1, <3>2 DEF TellsOf
    <2>4. QED
      BY <2>2, <2>3
  <1>8. QED
    BY <1>4, <1>6, <1>7 DEF SummaryTells

\* Whatever the file and whatever the order of the maps, a finished summary has
\* one line per entity, at its first hunk and with its most specific change, and
\* leaves out no hunk and no entity whose text a hunk changes.
THEOREM SummaryTold == SemSpec => []SummaryTells
  <1>1. SemInv => SummaryTells
    BY SummaryOfFound
  <1>2. QED
    BY <1>1, SemInvStarts, SemInvKept, PTL DEF SemSpec
=============================================================================

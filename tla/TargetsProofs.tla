--------------------------- MODULE TargetsProofs ---------------------------
(***************************************************************************)
(* Names, proved of Targets for every alphabet of parts, every name users  *)
(* type and every number of patchsets: what the listings print resolves,   *)
(* and no removal makes a name fall to another patch request.              *)
(***************************************************************************)
EXTENDS Links, SequenceTheorems, FiniteSetTheorems, WellFoundedInduction, TLAPS

\* The lists hold ids that were given out, each in one place of one list; so no
\* list is longer than the patchsets there ever were, and each revision in it has
\* a spelling.
TargetInv ==
  /\ TypeOK
  /\ \A s \in slugs : Len(book[s]) <= issued
  /\ \A s, t \in slugs : \A i \in 1 .. Len(book[s]), j \in 1 .. Len(book[t]) :
       book[s][i] = book[t][j] => s = t /\ i = j
-----------------------------------------------------------------------------
(***************************************************************************)
(* Sequences.                                                              *)
(***************************************************************************)

LEMMA LeastOf ==
  ASSUME NEW T \in SUBSET Nat, T # {}
  PROVE  Min(T) \in T /\ \A y \in T : Min(T) <= y
  <1>1. PICK x \in T : \A y \in T : ~ (<<y, x>> \in OpToRel(<, Nat))
    BY NatLessThanWellFounded, WFMin
  <1>2. \A y \in T : <<y, x>> \in OpToRel(<, Nat) <=> y < x
    BY DEF OpToRel
  <1>3. \A y \in T : ~ (y < x)
    BY <1>1, <1>2
  <1>4. \A y \in T : x \in Nat /\ y \in Nat
    OBVIOUS
  <1>5. \A y \in T : x <= y
    BY <1>3, <1>4
  <1>6. QED
    BY <1>5 DEF Min

\* RemoveFirst drops one place of a list that has the element, and nothing else.
LEMMA RemoveFirstDrops ==
  ASSUME NEW S, NEW q \in Seq(S), NEW x, \E n \in 1 .. Len(q) : q[n] = x
  PROVE  \E k \in 1 .. Len(q) :
           /\ q[k] = x
           /\ RemoveFirst(q, x) \in Seq(S)
           /\ Len(RemoveFirst(q, x)) = Len(q) - 1
           /\ \A i \in 1 .. Len(q) - 1 :
                RemoveFirst(q, x)[i] = IF i < k THEN q[i] ELSE q[i + 1]
  <1> DEFINE places == {i \in 1 .. Len(q) : q[i] = x}
             k == Min(places)
             before == SubSeq(q, 1, k - 1)
             after == SubSeq(q, k + 1, Len(q))
  <1>1. places \in SUBSET Nat /\ places # {}
    OBVIOUS
  <1>2. k \in 1 .. Len(q) /\ q[k] = x
    BY <1>1, LeastOf
  <1>3. RemoveFirst(q, x) = before \o after
    BY <1>1 DEF RemoveFirst, RemoveAt, SelectInSeq
  <1> HIDE DEF k, places
  <1>4. Len(q) \in Nat /\ \A i \in 1 .. Len(q) : q[i] \in S
    BY ElementOfSeq
  <1>5. /\ before \in Seq(S) /\ Len(before) = k - 1
        /\ \A i \in 1 .. k - 1 : before[i] = q[i]
    <2>1. k - 1 \in Int /\ \A i \in 1 .. k - 1 : q[i] \in S
      BY <1>2, <1>4
    <2>2. /\ SubSeq(q, 1, k - 1) \in Seq(S)
          /\ Len(SubSeq(q, 1, k - 1)) = IF 1 <= k - 1 THEN (k - 1) - 1 + 1 ELSE 0
          /\ \A i \in 1 .. (k - 1) - 1 + 1 : SubSeq(q, 1, k - 1)[i] = q[1 + i - 1]
      BY <2>1, SubSeqProperties
    <2>3. QED
      BY <1>2, <2>2
  <1>6. /\ after \in Seq(S) /\ Len(after) = Len(q) - k
        /\ \A i \in 1 .. Len(q) - k : after[i] = q[k + i]
    <2>1. k + 1 \in Int /\ Len(q) \in Int /\ \A i \in k + 1 .. Len(q) : q[i] \in S
      BY <1>2, <1>4
    <2>2. /\ SubSeq(q, k + 1, Len(q)) \in Seq(S)
          /\ Len(SubSeq(q, k + 1, Len(q))) =
               IF k + 1 <= Len(q) THEN Len(q) - (k + 1) + 1 ELSE 0
          /\ \A i \in 1 .. Len(q) - (k + 1) + 1 :
               SubSeq(q, k + 1, Len(q))[i] = q[(k + 1) + i - 1]
      BY <2>1, SubSeqProperties
    <2>3. QED
      BY <1>2, <1>4, <2>2
  <1> HIDE DEF before, after
  <1>7. /\ before \o after \in Seq(S)
        /\ Len(before \o after) = Len(q) - 1
        /\ \A i \in 1 .. Len(q) - 1 :
             (before \o after)[i] = IF i <= k - 1 THEN before[i] ELSE after[i - (k - 1)]
    <2>1. /\ before \o after \in Seq(S)
          /\ Len(before \o after) = Len(before) + Len(after)
          /\ \A i \in 1 .. Len(before) + Len(after) : (before \o after)[i] =
               IF i <= Len(before) THEN before[i] ELSE after[i - Len(before)]
      BY <1>5, <1>6, ConcatProperties
    <2>2. Len(before) + Len(after) = Len(q) - 1
      BY <1>2, <1>4, <1>5, <1>6
    <2>3. QED
      BY <1>5, <2>1, <2>2
  <1>8. \A i \in 1 .. Len(q) - 1 :
          (before \o after)[i] = IF i < k THEN q[i] ELSE q[i + 1]
    <2>1. TAKE i \in 1 .. Len(q) - 1
    <2>2. CASE i < k
      <3>1. i <= k - 1 /\ i \in 1 .. k - 1
        BY <1>2, <1>4, <2>2
      <3>2. QED
        BY <1>5, <1>7, <2>2, <3>1
    <2>3. CASE ~ (i < k)
      <3>1. ~ (i <= k - 1) /\ i - (k - 1) \in 1 .. Len(q) - k /\ k + (i - (k - 1)) = i + 1
        BY <1>2, <1>4, <2>3
      <3>2. QED
        BY <1>6, <1>7, <2>3, <3>1
    <2>4. QED
      BY <2>2, <2>3
  <1>9. QED
    BY <1>2, <1>3, <1>7, <1>8

LEMMA RemoveFirstKeeps ==
  ASSUME NEW S, NEW q \in Seq(S), NEW x, \A i \in 1 .. Len(q) : q[i] # x
  PROVE  RemoveFirst(q, x) = q
  BY DEF RemoveFirst

\* However it does, what is left is part of the list, in its order.
LEMMA RemoveFirstIs ==
  ASSUME NEW S, NEW q \in Seq(S), NEW x
  PROVE  /\ RemoveFirst(q, x) \in Seq(S)
         /\ Len(RemoveFirst(q, x)) <= Len(q)
         /\ \A i \in 1 .. Len(RemoveFirst(q, x)) :
              \E n \in {i, i + 1} : n <= Len(q) /\ RemoveFirst(q, x)[i] = q[n]
         /\ \A i, j \in 1 .. Len(RemoveFirst(q, x)) :
              RemoveFirst(q, x)[i] = RemoveFirst(q, x)[j] /\ i # j =>
                \E m, n \in 1 .. Len(q) : m # n /\ q[m] = q[n] /\ q[m] = RemoveFirst(q, x)[i]
  <1> Len(q) \in Nat
    OBVIOUS
  <1>1. CASE \A i \in 1 .. Len(q) : q[i] # x
    <2>1. RemoveFirst(q, x) = q
      BY <1>1, RemoveFirstKeeps
    <2>2. \A i \in 1 .. Len(q) : i <= Len(q) /\ i \in {i, i + 1}
      OBVIOUS
    <2>3. QED
      BY <2>1, <2>2
  <1>2. CASE \E n \in 1 .. Len(q) : q[n] = x
    <2> DEFINE r == RemoveFirst(q, x)
    <2>1. PICK k \in 1 .. Len(q) :
            /\ q[k] = x /\ r \in Seq(S) /\ Len(r) = Len(q) - 1
            /\ \A i \in 1 .. Len(q) - 1 : r[i] = IF i < k THEN q[i] ELSE q[i + 1]
      <3>1. \E k \in 1 .. Len(q) :
              /\ q[k] = x
              /\ RemoveFirst(q, x) \in Seq(S)
              /\ Len(RemoveFirst(q, x)) = Len(q) - 1
              /\ \A i \in 1 .. Len(q) - 1 :
                   RemoveFirst(q, x)[i] = IF i < k THEN q[i] ELSE q[i + 1]
        BY <1>2, RemoveFirstDrops, Zenon
      <3> HIDE DEF r
      <3>2. RemoveFirst(q, x) = r
        BY DEF r
      <3>3. QED
        BY <3>1, <3>2
    <2> HIDE DEF r
    <2>2. ASSUME NEW i \in 1 .. Len(r)
          PROVE  \E n \in {i, i + 1} : n <= Len(q) /\ r[i] = q[n]
      <3>1. CASE i < k
        BY <2>1, <3>1
      <3>2. CASE ~ (i < k)
        <4>1. i + 1 <= Len(q) /\ r[i] = q[i + 1]
          BY <2>1, <3>2
        <4>2. QED
          BY <4>1
      <3>3. QED
        BY <3>1, <3>2
    <2>3. ASSUME NEW i \in 1 .. Len(r), NEW j \in 1 .. Len(r), r[i] = r[j], i # j
          PROVE  \E m, n \in 1 .. Len(q) : m # n /\ q[m] = q[n] /\ q[m] = r[i]
      <3> DEFINE m == IF i < k THEN i ELSE i + 1
                 n == IF j < k THEN j ELSE j + 1
      <3>1. m \in 1 .. Len(q) /\ n \in 1 .. Len(q) /\ m # n
        BY <2>1, <2>3
      <3>2. r[i] = q[m] /\ r[j] = q[n]
        BY <2>1
      <3>3. QED
        BY <2>3, <3>1, <3>2
    <2>4. r \in Seq(S) /\ Len(r) <= Len(q)
      BY <2>1
    <2>5. QED
      BY <2>2, <2>3, <2>4 DEF r
  <1>3. QED
    BY <1>1, <1>2

\* The parts of a name without its last one.
LEMMA FrontIs ==
  ASSUME NEW S, NEW q \in Seq(S), Len(q) > 1
  PROVE  /\ Front(q) \in Seq(S) /\ Len(Front(q)) = Len(q) - 1 /\ Front(q) # <<>>
         /\ \A i \in 1 .. Len(q) - 1 : Front(q)[i] = q[i]
         /\ Last(q) \in S
  <1>1. Len(q) \in Nat /\ \A i \in 1 .. Len(q) : q[i] \in S
    BY ElementOfSeq
  <1>2. /\ SubSeq(q, 1, Len(q) - 1) \in Seq(S)
        /\ Len(SubSeq(q, 1, Len(q) - 1)) =
             IF 1 <= Len(q) - 1 THEN (Len(q) - 1) - 1 + 1 ELSE 0
        /\ \A i \in 1 .. (Len(q) - 1) - 1 + 1 : SubSeq(q, 1, Len(q) - 1)[i] = q[1 + i - 1]
    <2>1. Len(q) - 1 \in Int /\ \A i \in 1 .. Len(q) - 1 : q[i] \in S
      BY <1>1
    <2>2. QED
      BY <2>1, SubSeqProperties
  <1>3. Len(Front(q)) # Len(<<>>)
    BY <1>1, <1>2, EmptySeq DEF Front
  <1>4. Last(q) \in S
    BY <1>1 DEF Last
  <1>5. /\ Front(q) \in Seq(S) /\ Len(Front(q)) = Len(q) - 1
        /\ \A i \in 1 .. Len(q) - 1 : Front(q)[i] = q[i]
    BY <1>1, <1>2 DEF Front
  <1>6. QED
    BY <1>3, <1>4, <1>5

LEMMA FrontOfAppend ==
  ASSUME NEW S, NEW q \in Seq(S), NEW x \in S
  PROVE  /\ Append(q, x) \in Seq(S) /\ Len(Append(q, x)) = Len(q) + 1
         /\ Last(Append(q, x)) = x
         /\ q # <<>> => Front(Append(q, x)) = q
  <1> DEFINE z == Append(q, x)
  <1>1. /\ z \in Seq(S) /\ Len(z) = Len(q) + 1 /\ z[Len(q) + 1] = x
        /\ \A i \in 1 .. Len(q) : z[i] = q[i]
    BY AppendProperties
  <1> HIDE DEF z
  <1>2. Last(z) = x
    BY <1>1 DEF Last
  <1>3. ASSUME q # <<>>
        PROVE  Front(z) = q
    <2>1. Len(q) \in Nat \ {0}
      BY <1>3, EmptySeq
    <2>2. Len(z) > 1
      BY <1>1, <2>1
    <2>3. /\ Front(z) \in Seq(S) /\ Len(Front(z)) = Len(z) - 1
          /\ \A i \in 1 .. Len(z) - 1 : Front(z)[i] = z[i]
      BY <1>1, <2>2, FrontIs
    <2>4. Len(Front(z)) = Len(q) /\ \A i \in 1 .. Len(Front(z)) : Front(z)[i] = q[i]
      BY <1>1, <2>1, <2>3
    <2>5. QED
      BY <2>3, <2>4, SeqEqual
  <1>4. QED
    BY <1>1, <1>2, <1>3 DEF z
-----------------------------------------------------------------------------
(***************************************************************************)
(* What a name is taken for.                                               *)
(***************************************************************************)

\* Whatever is typed, ParseTarget's slug is no empty text.
LEMMA ParsedSlug ==
  ASSUME NEW name \in Seq(Parts), name # <<>>, Parses(name)
  PROVE  Parse(name).slug \in Seq(Parts) \ {<<>>, <<Empty>>}
  <1>1. Trim(name) \in Seq(Parts) /\ Trim(name) # <<>>
    <2>1. CASE Len(name) > 1 /\ Last(name) = Patch
      BY <2>1, FrontIs DEF Trim
    <2>2. CASE ~ (Len(name) > 1 /\ Last(name) = Patch)
      BY <2>2 DEF Trim
    <2>3. QED
      BY <2>1, <2>2
  <1>2. Parse(name).slug \in {Trim(name)} \/
        (Len(Trim(name)) > 1 /\ Parse(name).slug = Front(Trim(name)))
    BY DEF Parse
  <1>3. Parse(name).slug \in Seq(Parts) /\ Parse(name).slug # <<>>
    BY <1>1, <1>2, FrontIs
  <1>4. QED
    BY <1>3 DEF Parses

\* `<slug>.<rev>` is cut at its last dot.
LEMMA ParseListed ==
  ASSUME NEW s \in Seq(Parts) \ {<<>>, <<Empty>>}, NEW r \in 1 .. MaxPatchsets
  PROVE  LET name == Append(s, Spell[r]) IN
         /\ Trim(name) = name
         /\ Parse(name) = [slug |-> s, rev |-> r]
         /\ Parses(name)
  <1> DEFINE name == Append(s, Spell[r])
  <1>1. Spell[r] \in Parts /\ RevOf[Spell[r]] = r /\ Spell[r] # Patch /\ r > 0
    BY PartAssumption, BoundAssumption
  <1>2. /\ name \in Seq(Parts) /\ Len(name) = Len(s) + 1 /\ Last(name) = Spell[r]
        /\ Front(name) = s
    BY <1>1, FrontOfAppend
  <1>3. Len(s) \in Nat \ {0}
    BY EmptySeq
  <1> HIDE DEF name
  <1>4. Len(name) > 1 /\ name # <<Empty>>
    BY <1>2, <1>3
  <1>5. Trim(name) = name
    BY <1>1, <1>2 DEF Trim
  <1>6. Parse(name) = [slug |-> s, rev |-> r]
    BY <1>1, <1>2, <1>4, <1>5 DEF Parse
  <1>7. Parses(name)
    BY <1>4, <1>5, <1>6 DEF Parses
  <1>8. QED
    BY <1>5, <1>6, <1>7 DEF name
-----------------------------------------------------------------------------
(***************************************************************************)
(* The invariant holds.                                                    *)
(***************************************************************************)

LEMMA TargetInit == Init => TargetInv
  <1> SUFFICES ASSUME Init
               PROVE  TargetInv
    OBVIOUS
  <1>1. slugs = {} /\ book = <<>> /\ issued = 0
    BY DEF Init
  <1>2. <<>> \in [{} -> Seq(1 .. 0)]
    <2>1. <<>> \in Seq(Seq(1 .. 0)) /\ Len(<<>>) = 0
      BY EmptySeq
    <2>2. <<>> \in [1 .. 0 -> Seq(1 .. 0)]
      BY <2>1, LenProperties
    <2>3. 1 .. 0 = {}
      OBVIOUS
    <2>4. QED
      BY <2>2, <2>3
  <1>3. QED
    BY <1>1, <1>2, BoundAssumption DEF TargetInv, TypeOK

\* What `rm` does to the lists, whichever patchset it takes.
LEMMA RmDrops ==
  ASSUME NEW name, Rm(name)
  PROVE  /\ slugs' = slugs /\ issued' = issued
         /\ \E id : book' = [s \in slugs |-> RemoveFirst(book[s], id)]
  BY DEF Rm

LEMMA RmStep ==
  ASSUME TargetInv, NEW name, Rm(name)
  PROVE  TargetInv'
  <1>1. PICK id : book' = [s \in slugs |-> RemoveFirst(book[s], id)]
    BY RmDrops
  <1>2. slugs' = slugs /\ issued' = issued
    BY RmDrops
  <1>3. ASSUME NEW s \in slugs
        PROVE  /\ book'[s] \in Seq(1 .. issued)
               /\ Len(book'[s]) <= Len(book[s]) /\ Len(book'[s]) \in Nat /\ Len(book[s]) \in Nat
               /\ \A i \in 1 .. Len(book'[s]) :
                    \E n \in {i, i + 1} : n <= Len(book[s]) /\ book'[s][i] = book[s][n]
               /\ \A i, j \in 1 .. Len(book'[s]) :
                    book'[s][i] = book'[s][j] /\ i # j =>
                      \E m, n \in 1 .. Len(book[s]) :
                        m # n /\ book[s][m] = book[s][n] /\ book[s][m] = book'[s][i]
    <2>1. book[s] \in Seq(1 .. issued) /\ book'[s] = RemoveFirst(book[s], id)
      BY <1>1 DEF TargetInv, TypeOK
    <2> DEFINE q == book[s]
               z == RemoveFirst(q, id)
    <2>2. /\ z \in Seq(1 .. issued) /\ Len(z) <= Len(q)
          /\ \A i \in 1 .. Len(z) : \E n \in {i, i + 1} : n <= Len(q) /\ z[i] = q[n]
          /\ \A i, j \in 1 .. Len(z) : z[i] = z[j] /\ i # j =>
               \E m, n \in 1 .. Len(q) : m # n /\ q[m] = q[n] /\ q[m] = z[i]
      <3> HIDE DEF q
      <3>1. q \in Seq(1 .. issued)
        BY <2>1 DEF q
      <3>2. QED
        BY <3>1, RemoveFirstIs
    <2>3. Len(z) \in Nat /\ Len(q) \in Nat
      BY <2>1, <2>2, LenProperties
    <2> HIDE DEF z
    <2>4. book'[s] = z
      BY <2>1 DEF z
    <2>5. QED
      BY <2>2, <2>3, <2>4
  <1>4. TypeOK'
    <2>1. book' \in [slugs -> Seq(1 .. issued)]
      BY <1>1, <1>3
    <2>2. QED
      BY <1>2, <2>1 DEF TargetInv, TypeOK
  <1>5. ASSUME NEW s \in slugs
        PROVE  Len(book'[s]) <= issued
    BY <1>3 DEF TargetInv, TypeOK
  <1>6. ASSUME NEW s \in slugs, NEW t \in slugs, NEW i \in 1 .. Len(book'[s]),
               NEW j \in 1 .. Len(book'[t]), book'[s][i] = book'[t][j]
        PROVE  s = t /\ i = j
    <2>1. PICK m \in {i, i + 1} : m <= Len(book[s]) /\ book'[s][i] = book[s][m]
      BY <1>3
    <2>2. PICK n \in {j, j + 1} : n <= Len(book[t]) /\ book'[t][j] = book[t][n]
      BY <1>3
    <2>3. m \in 1 .. Len(book[s]) /\ n \in 1 .. Len(book[t])
      BY <1>3, <2>1, <2>2
    <2>4. s = t
      BY <1>6, <2>1, <2>2, <2>3 DEF TargetInv
    <2>5. i = j
      <3> SUFFICES ASSUME i # j
                   PROVE  FALSE
        OBVIOUS
      <3>1. PICK k, o \in 1 .. Len(book[s]) : k # o /\ book[s][k] = book[s][o]
        <4> DEFINE z == book'[s]
        <4>1. i \in 1 .. Len(z) /\ j \in 1 .. Len(z) /\ z[i] = z[j]
          BY <1>6, <2>4
        <4>2. \A x, y \in 1 .. Len(z) :
                z[x] = z[y] /\ x # y =>
                  \E k, o \in 1 .. Len(book[s]) :
                    k # o /\ book[s][k] = book[s][o] /\ book[s][k] = z[x]
          BY <1>3
        <4> HIDE DEF z
        <4>3. QED
          BY <4>1, <4>2
      <3>2. k = o
        BY <3>1 DEF TargetInv
      <3>3. QED
        BY <3>1, <3>2
    <2>6. QED
      BY <2>4, <2>5
  <1>7. QED
    BY <1>2, <1>4, <1>5, <1>6 DEF TargetInv

LEMMA SubmitStep ==
  ASSUME TargetInv, NEW name \in Seq(Parts), name # <<>>, Submit(name)
  PROVE  TargetInv'
  <1> DEFINE slug == Parse(name).slug
             id == issued + 1
  <1>1. /\ slug \in Seq(Parts) \ {<<>>, <<Empty>>}
        /\ slugs' = slugs \cup {slug} /\ issued' = id /\ issued < MaxPatchsets
        /\ book' = [s \in slugs' |->
                      CASE s = slug /\ s \in slugs -> Append(book[s], id)
                        [] s = slug /\ s \notin slugs -> <<id>>
                        [] OTHER -> book[s]]
    BY ParsedSlug DEF Submit
  <1> HIDE DEF slug
  <1>2. /\ issued \in Nat /\ id \in 1 .. id /\ id \notin 1 .. issued /\ id \in 0 .. MaxPatchsets
        /\ 1 .. issued \subseteq 1 .. id
    BY <1>1, BoundAssumption DEF TargetInv, TypeOK
  <1>3. ASSUME NEW s \in slugs
        PROVE  /\ book[s] \in Seq(1 .. id) /\ Len(book[s]) \in Nat /\ Len(book[s]) <= issued
               /\ \A i \in 1 .. Len(book[s]) : book[s][i] \in 1 .. issued
    <2>1. book[s] \in Seq(1 .. issued) /\ Len(book[s]) <= issued
      BY DEF TargetInv, TypeOK
    <2>2. book[s] \in Seq(1 .. id)
      BY <1>2, <2>1, SeqMonotonic
    <2>3. QED
      BY <2>1, <2>2, ElementOfSeq, LenProperties
  <1>4. ASSUME NEW s \in slugs', s # slug
        PROVE  s \in slugs /\ book'[s] = book[s]
    BY <1>1, <1>4
  <1>5. /\ book'[slug] \in Seq(1 .. id)
        /\ Len(book'[slug]) \in 1 .. id
        /\ book'[slug][Len(book'[slug])] = id
        /\ \A i \in 1 .. Len(book'[slug]) : i # Len(book'[slug]) =>
             slug \in slugs /\ i \in 1 .. Len(book[slug]) /\ book'[slug][i] = book[slug][i]
    <2>1. CASE slug \in slugs
      <3> DEFINE q == book[slug]
                 z == Append(q, id)
      <3>1. book'[slug] = z
        BY <1>1, <2>1
      <3>2. q \in Seq(1 .. id) /\ Len(q) \in Nat /\ Len(q) <= issued
        BY <1>3, <2>1
      <3> HIDE DEF q
      <3>3. /\ z \in Seq(1 .. id) /\ Len(z) = Len(q) + 1 /\ z[Len(q) + 1] = id
            /\ \A i \in 1 .. Len(q) : z[i] = q[i]
        BY <1>2, <3>2, AppendProperties
      <3> HIDE DEF z
      <3>4. Len(z) \in 1 .. id /\ z[Len(z)] = id
        BY <1>2, <3>2, <3>3
      <3>5. ASSUME NEW i \in 1 .. Len(z), i # Len(z)
            PROVE  i \in 1 .. Len(q) /\ z[i] = q[i]
        <4>1. i \in 1 .. Len(q)
          BY <3>2, <3>3, <3>5
        <4>2. QED
          BY <3>3, <4>1
      <3>6. QED
        BY <2>1, <3>1, <3>3, <3>4, <3>5 DEF q
    <2>2. CASE slug \notin slugs
      <3>1. book'[slug] = <<id>>
        BY <1>1, <2>2
      <3>2. <<id>> \in Seq(1 .. id) /\ Len(<<id>>) = 1 /\ <<id>>[1] = id
        BY <1>2
      <3>3. QED
        BY <1>2, <3>1, <3>2
    <2>3. QED
      BY <2>1, <2>2
  <1>6. TypeOK'
    <2>1. ASSUME NEW s \in slugs'
          PROVE  book'[s] \in Seq(1 .. id)
      BY <1>3, <1>4, <1>5
    <2>2. book' \in [slugs' -> Seq(1 .. id)]
      BY <1>1, <2>1
    <2>3. slugs' \subseteq Seq(Parts) \ {<<>>, <<Empty>>}
      BY <1>1 DEF TargetInv, TypeOK
    <2>4. QED
      BY <1>1, <1>2, <2>2, <2>3 DEF TypeOK
  <1>7. ASSUME NEW s \in slugs'
        PROVE  Len(book'[s]) <= id
    <2>1. CASE s = slug
      BY <1>5, <2>1
    <2>2. CASE s # slug
      BY <1>2, <1>3, <1>4, <2>2
    <2>3. QED
      BY <2>1, <2>2
  <1>8. ASSUME NEW s \in slugs', NEW i \in 1 .. Len(book'[s])
        PROVE  \/ s \in slugs /\ i \in 1 .. Len(book[s]) /\ book'[s][i] = book[s][i]
                  /\ book'[s][i] # id
               \/ s = slug /\ i = Len(book'[slug]) /\ book'[s][i] = id
    <2>1. CASE s # slug
      BY <1>2, <1>3, <1>4, <2>1
    <2>2. CASE s = slug
      BY <1>2, <1>3, <1>5, <2>2
    <2>3. QED
      BY <2>1, <2>2
  <1>9. ASSUME NEW s \in slugs', NEW t \in slugs', NEW i \in 1 .. Len(book'[s]),
               NEW j \in 1 .. Len(book'[t]), book'[s][i] = book'[t][j]
        PROVE  s = t /\ i = j
    <2>1. CASE book'[s][i] = id
      BY <1>8, <1>9, <2>1
    <2>2. CASE book'[s][i] # id
      <3>1. /\ s \in slugs /\ i \in 1 .. Len(book[s]) /\ book'[s][i] = book[s][i]
            /\ t \in slugs /\ j \in 1 .. Len(book[t]) /\ book'[t][j] = book[t][j]
        BY <1>8, <1>9, <2>2
      <3>2. book[s][i] = book[t][j]
        BY <1>9, <3>1
      <3>3. QED
        BY <3>1, <3>2 DEF TargetInv
    <2>3. QED
      BY <2>1, <2>2
  <1>10. QED
    BY <1>1, <1>6, <1>7, <1>9 DEF TargetInv

LEMMA TargetStep == TargetInv /\ [Next]_vars => TargetInv'
  <1>1. ASSUME TargetInv, UNCHANGED vars
        PROVE  TargetInv'
    BY <1>1 DEF TargetInv, TypeOK, vars
  <1>2. ASSUME TargetInv, NEW name \in Names, Submit(name)
        PROVE  TargetInv'
    BY <1>2, NameAssumption, SubmitStep
  <1>3. QED
    BY <1>1, <1>2, RmStep DEF Next, Pull

LEMMA TargetInvHolds == Spec => []TargetInv
  BY TargetInit, TargetStep, PTL DEF Spec

\* A slug is never empty, the lists hold ids that were given out.
THEOREM TargetsTyped == Spec => []TypeOK
  BY TargetInvHolds, PTL DEF TargetInv

LEMMA ListedResolve == TargetInv => ListedNamesResolve
  <1> SUFFICES ASSUME TargetInv, NEW s \in slugs, NEW r \in 1 .. Len(book[s]),
                      Append(s, Spell[r]) \notin slugs
               PROVE  Resolve(Append(s, Spell[r])) = book[s][r]
    BY DEF ListedNamesResolve
  <1>1. s \in Seq(Parts) \ {<<>>, <<Empty>>} /\ r \in 1 .. MaxPatchsets
    BY BoundAssumption DEF TargetInv, TypeOK
  <1> DEFINE name == Append(s, Spell[r])
  <1>2. Trim(name) = name /\ Parse(name) = [slug |-> s, rev |-> r] /\ Parses(name)
    BY <1>1, ParseListed
  <1> HIDE DEF name
  <1>3. Trim(name) \notin slugs /\ Parse(name).slug = s /\ Parse(name).rev = r
    BY <1>2 DEF name
  <1>4. Resolve(name) = Pick(s, r)
    BY <1>2, <1>3 DEF Resolve
  <1>5. QED
    BY <1>4 DEF Pick, name

\* What a listing prints names the patchset beside which it is printed, unless
\* it is a slug by itself (ResolveTarget): for every text that is a slug, and
\* every revision.
THEOREM NamesResolve == Spec => []ListedNamesResolve
  <1>1. TargetInv => ListedNamesResolve
    BY ListedResolve
  <1>2. QED
    BY <1>1, TargetInvHolds, PTL
-----------------------------------------------------------------------------
(***************************************************************************)
(* Names and their homes.                                                  *)
(***************************************************************************)

\* The slug under which Resolve looks a name up.
Base(name) == IF Trim(name) \in slugs THEN Trim(name) ELSE Parse(name).slug

\* As no id is in two lists, a name that finds something finds it at its base.
LEMMA HomeIs ==
  ASSUME TargetInv, NEW name, Home(name) # {}
  PROVE  Base(name) \in slugs /\ Home(name) = {Base(name)}
  <1>1. PICK t \in slugs : \E n \in 1 .. Len(book[t]) : book[t][n] = Resolve(name)
    BY DEF Home
  <1>2. PICK n \in 1 .. Len(book[t]) : book[t][n] = Resolve(name)
    BY <1>1
  <1>3. Resolve(name) # NoId
    <2>1. book[t] \in Seq(1 .. issued)
      BY DEF TargetInv, TypeOK
    <2>2. book[t][n] \in 1 .. issued
      BY <2>1, ElementOfSeq
    <2>3. QED
      BY <1>2, <2>2 DEF NoId
  <1>4. Base(name) \in slugs /\ \E rev : Resolve(name) = Pick(Base(name), rev)
    BY <1>3 DEF Resolve, Base
  <1>5. \E i \in 1 .. Len(book[Base(name)]) : book[Base(name)][i] = Resolve(name)
    <2> DEFINE q == book[Base(name)]
    <2>1. q \in Seq(1 .. issued)
      BY <1>4 DEF TargetInv, TypeOK
    <2>2. PICK rev : Resolve(name) = Pick(Base(name), rev)
      BY <1>4
    <2>3. \/ rev \in 1 .. Len(q) /\ Resolve(name) = q[rev]
          \/ q # <<>> /\ Resolve(name) = q[Len(q)]
      BY <1>3, <2>2 DEF Pick, Last
    <2> HIDE DEF q
    <2>4. q # <<>> => Len(q) \in 1 .. Len(q)
      BY <2>1, EmptySeq
    <2>5. \E i \in 1 .. Len(q) : q[i] = Resolve(name)
      BY <2>3, <2>4
    <2>6. QED
      BY <2>5 DEF q
  <1>6. ASSUME NEW s \in Home(name)
        PROVE  s = Base(name)
    <2>1. s \in slugs /\ \E i \in 1 .. Len(book[s]) : book[s][i] = Resolve(name)
      BY DEF Home
    <2>2. QED
      BY <1>4, <1>5, <2>1 DEF TargetInv
  <1>7. Base(name) \in Home(name)
    BY <1>4, <1>5 DEF Home
  <1>8. QED
    BY <1>4, <1>6, <1>7

\* Such a slug finds its last patchset, which is in no other patch request's list.
SlugsLeadHome ==
  \A s \in slugs : Trim(s) = s /\ Parses(s) /\ book[s] # <<>> =>
    Resolve(s) = Last(book[s]) /\ Home(s) = {s}

LEMMA SlugIsHome == TargetInv => SlugsNameThemselves /\ SlugsLeadHome
  <1> SUFFICES ASSUME TargetInv, NEW s \in slugs, Trim(s) = s, Parses(s)
               PROVE  /\ Resolve(s) = Pick(s, 0)
                      /\ book[s] # <<>> => Resolve(s) = Last(book[s]) /\ Home(s) = {s}
    BY DEF SlugsNameThemselves, SlugsLeadHome
  <1>1. Resolve(s) = Pick(s, 0)
    BY DEF Resolve
  <1>2. ASSUME book[s] # <<>>
        PROVE  Resolve(s) = Last(book[s]) /\ Home(s) = {s}
    <2> DEFINE q == book[s]
               n == Len(q)
    <2>1. q \in Seq(1 .. issued)
      BY DEF TargetInv, TypeOK
    <2>2. n \in 1 .. n
      BY <1>2, <2>1, EmptySeq
    <2>3. Resolve(s) = q[n]
      BY <1>1, <1>2, <2>1 DEF Pick, Last
    <2>4. s \in Home(s)
      BY <2>2, <2>3 DEF Home
    <2>5. Base(s) = s
      BY DEF Base
    <2>6. Home(s) = {s}
      BY <2>4, <2>5, HomeIs
    <2>7. QED
      BY <2>3, <2>6 DEF Last
  <1>3. QED
    BY <1>1, <1>2

\* The full text of a name is tried as a slug first (ResolveTarget): a slug with
\* dots, even one that ends like a revision, finds the latest patchset of its own
\* patch request and nobody else's.
THEOREM SlugsResolve == Spec => [](SlugsNameThemselves /\ SlugsLeadHome)
  BY SlugIsHome, TargetInvHolds, PTL

\* Patch requests stay when their patchsets go.
LEMMA SlugsStay == [Next]_vars => slugs \subseteq slugs'
  BY DEF Next, Submit, Rm, Pull, vars

\* A name moves from one patch request to another only when one is created under
\* the very name: no `rm`, however often it is repeated, makes `login.2` mean
\* revision 2 of `login` (ResolveTarget).
THEOREM NamesKeepTheirPlace == Spec => NamesKeepTheirHome
  <1> DEFINE Keeps ==
        \A name \in Names : Home(name) # {} /\ Home(name)' # {} /\ Home(name)' # Home(name) =>
          Trim(name) \in slugs' \ slugs
  <1>1. ASSUME NEW name \in Names
        PROVE  (TargetInv /\ Home(name) # {} => Home(name) = {Base(name)})'
    <2>1. TargetInv /\ Home(name) # {} => Home(name) = {Base(name)}
      BY HomeIs
    <2>2. QED
      BY <2>1, PTL
  <1>2. TargetInv /\ TargetInv' /\ [Next]_vars => Keeps
    <2> SUFFICES ASSUME TargetInv, TargetInv', [Next]_vars, NEW name \in Names,
                        Home(name) # {}, Home(name)' # {}, Home(name)' # Home(name)
                 PROVE  Trim(name) \in slugs' \ slugs
      OBVIOUS
    <2>1. Home(name) = {Base(name)}
      BY HomeIs
    <2>2. (Home(name) = {Base(name)})'
      BY <1>1
    <2>3. slugs \subseteq slugs'
      BY SlugsStay
    <2>4. QED
      BY <2>1, <2>2, <2>3 DEF Base, Trim, Parse
  <1>3. TargetInv /\ TargetInv' /\ [Next]_vars => [Keeps]_vars
    BY <1>2
  <1>4. QED
    BY <1>3, TargetInvHolds, PTL DEF Spec, NamesKeepTheirHome
-----------------------------------------------------------------------------
(***************************************************************************)
(* Links.                                                                  *)
(***************************************************************************)

\* Patch requests are numbered as they are created, one with each first patchset.
LinkInv ==
  /\ TargetInv
  /\ order \in Seq(slugs)
  /\ Len(order) <= issued

LEMMA AtMostOneAdded ==
  ASSUME NEW name \in Seq(Parts), Submit(name)
  PROVE  slugs' \ slugs = {} \/ \E s \in slugs' : slugs' \ slugs = {s}
  <1> DEFINE slug == Parse(name).slug
  <1>1. slugs' = slugs \cup {slug}
    BY DEF Submit
  <1> HIDE DEF slug
  <1>2. CASE slug \in slugs
    BY <1>1, <1>2
  <1>3. CASE slug \notin slugs
    <2>1. slugs' \ slugs = {slug} /\ slug \in slugs'
      BY <1>1, <1>3
    <2>2. QED
      BY <2>1
  <1>4. QED
    BY <1>2, <1>3

LEMMA SeqOfNone == SetToSeq({}) = <<>>
  <1>1. Cardinality({}) = 0
    BY FS_EmptySet
  <1>2. \A f \in [1 .. 0 -> {}] : f = <<>>
    <2>1. 1 .. 0 = {} /\ <<>> \in [1 .. 0 -> {}]
      BY EmptySeq, LenProperties
    <2>2. QED
      BY <2>1
  <1>3. IsInjective(<<>>) /\ <<>> \in [1 .. 0 -> {}]
    BY EmptySeq, LenProperties DEF IsInjective
  <1>4. QED
    BY <1>1, <1>2, <1>3 DEF SetToSeq

LEMMA SeqOfOne ==
  ASSUME NEW x
  PROVE  SetToSeq({x}) \in Seq({x}) /\ Len(SetToSeq({x})) = 1
  <1>1. Cardinality({x}) = 1
    BY FS_Singleton
  <1> DEFINE f == [i \in 1 .. 1 |-> x]
  <1>2. f \in [1 .. 1 -> {x}] /\ IsInjective(f)
    BY DEF IsInjective
  <1>3. SetToSeq({x}) \in [1 .. 1 -> {x}]
    BY <1>1, <1>2 DEF SetToSeq
  <1> DEFINE q == SetToSeq({x})
  <1> HIDE DEF q
  <1>4. q \in [1 .. 1 -> {x}] => q \in Seq({x}) /\ Len(q) = 1
    <2>1. ASSUME q \in [1 .. 1 -> {x}]
          PROVE  q \in Seq({x}) /\ Len(q) = 1
      <3>1. q \in Seq({x})
        BY <2>1, SeqDef
      <3>2. DOMAIN q = 1 .. 1 /\ DOMAIN q = 1 .. Len(q) /\ Len(q) \in Nat
        BY <2>1, <3>1, LenProperties
      <3>3. QED
        BY <3>1, <3>2
    <2>2. QED
      BY <2>1
  <1>5. QED
    BY <1>3, <1>4 DEF q

LEMMA LinkInitially == LinkInit => LinkInv
  <1> SUFFICES ASSUME LinkInit
               PROVE  LinkInv
    OBVIOUS
  <1>1. TargetInv
    BY TargetInit DEF LinkInit
  <1>2. order = <<>> /\ issued = 0
    BY DEF LinkInit, Init
  <1>3. order \in Seq(slugs) /\ Len(order) = 0
    BY <1>2, EmptySeq
  <1>4. QED
    BY <1>1, <1>2, <1>3 DEF LinkInv

LEMMA LinkStep == LinkInv /\ [LinkNext]_linkVars => LinkInv'
  <1> SUFFICES ASSUME LinkInv, [LinkNext]_linkVars
               PROVE  LinkInv'
    OBVIOUS
  <1>1. TargetInv'
    BY TargetStep DEF LinkInv, LinkNext, linkVars
  <1>2. order \in Seq(slugs) /\ Len(order) \in Nat /\ Len(order) <= issued /\ issued \in Nat
    BY DEF LinkInv, TargetInv, TypeOK
  <1>3. CASE UNCHANGED linkVars
    BY <1>1, <1>2, <1>3 DEF LinkInv, linkVars, vars
  <1>4. CASE LinkNext
    <2>1. order' = order \o SetToSeq(slugs' \ slugs)
      BY <1>4 DEF LinkNext
    <2>2. CASE UNCHANGED <<slugs, issued>>
      <3>1. SetToSeq(slugs' \ slugs) = <<>>
        <4>1. slugs' \ slugs = {}
          BY <2>2
        <4>2. QED
          BY <4>1, SeqOfNone
      <3>2. order' = order
        BY <1>2, <2>1, <3>1, ConcatEmptySeq
      <3>3. QED
        BY <1>1, <1>2, <2>2, <3>2 DEF LinkInv
    <2>3. CASE \E name \in Names : Submit(name)
      <3>1. PICK name \in Names : Submit(name)
        BY <2>3
      <3>2. issued' = issued + 1 /\ slugs \subseteq slugs'
        BY <3>1 DEF Submit
      <3>3. order \in Seq(slugs')
        BY <1>2, <3>2, SeqMonotonic
      <3> DEFINE more == SetToSeq(slugs' \ slugs)
      <3>4. more \in Seq(slugs') /\ Len(more) \in {0, 1}
        <4>1. CASE slugs' \ slugs = {}
          <5>1. more = <<>>
            BY <4>1, SeqOfNone
          <5>2. QED
            BY <5>1, EmptySeq
        <4>2. CASE \E s \in slugs' : slugs' \ slugs = {s}
          <5>1. PICK s \in slugs' : slugs' \ slugs = {s}
            BY <4>2
          <5>2. more \in Seq({s}) /\ Len(more) = 1
            BY <5>1, SeqOfOne
          <5>3. {s} \subseteq slugs'
            OBVIOUS
          <5>4. QED
            BY <5>2, <5>3, SeqMonotonic
        <4>3. QED
          BY <3>1, <4>1, <4>2, AtMostOneAdded, NameAssumption
      <3> HIDE DEF more
      <3>5. order' = order \o more
        BY <2>1 DEF more
      <3>6. order' \in Seq(slugs') /\ Len(order') = Len(order) + Len(more)
        BY <3>3, <3>4, <3>5, ConcatProperties
      <3>7. Len(order') <= issued'
        <4> DEFINE now == Len(order)
                   new == Len(more)
        <4>1. now \in Nat /\ issued \in Nat /\ now <= issued /\ (new = 0 \/ new = 1)
          BY <1>2, <3>4
        <4>2. Len(order') = now + new
          BY <3>6
        <4> HIDE DEF now, new
        <4>3. now + new <= issued + 1
          BY <4>1
        <4>4. QED
          BY <3>2, <4>2, <4>3
      <3>8. QED
        BY <1>1, <3>6, <3>7 DEF LinkInv
    <2>4. QED
      BY <1>4, <2>2, <2>3, RmDrops DEF LinkNext, Next, Pull, vars
  <1>5. QED
    BY <1>3, <1>4

LEMMA LinkInvHolds == LinkSpec => []LinkInv
  BY LinkInitially, LinkStep, PTL DEF LinkSpec
-----------------------------------------------------------------------------
(***************************************************************************)
(* Paths.                                                                  *)
(***************************************************************************)

LEMMA SplitLast ==
  ASSUME NEW S, NEW q \in Seq(S), q # <<>>
  PROVE  Front(q) \in Seq(S) /\ Last(q) \in S /\ Append(Front(q), Last(q)) = q
  <1>1. Len(q) \in Nat \ {0} /\ \A i \in 1 .. Len(q) : q[i] \in S
    BY EmptySeq, ElementOfSeq
  <1> DEFINE f == SubSeq(q, 1, Len(q) - 1)
  <1>2. /\ f \in Seq(S) /\ Len(f) = Len(q) - 1
        /\ \A i \in 1 .. Len(q) - 1 : f[i] = q[i]
    <2>1. Len(q) - 1 \in Int /\ \A i \in 1 .. Len(q) - 1 : q[i] \in S
      BY <1>1
    <2>2. /\ f \in Seq(S) /\ Len(f) = IF 1 <= Len(q) - 1 THEN (Len(q) - 1) - 1 + 1 ELSE 0
          /\ \A i \in 1 .. (Len(q) - 1) - 1 + 1 : f[i] = q[1 + i - 1]
      BY <2>1, SubSeqProperties
    <2> HIDE DEF f
    <2>3. /\ (Len(q) - 1) - 1 + 1 = Len(q) - 1
          /\ \A i \in 1 .. Len(q) - 1 : 1 + i - 1 = i
      BY <1>1
    <2>4. Len(f) = Len(q) - 1
      <3> DEFINE n == Len(q)
                 m == Len(f)
      <3>1. n \in Nat \ {0} /\ m = IF 1 <= n - 1 THEN (n - 1) - 1 + 1 ELSE 0
        BY <1>1, <2>2
      <3> HIDE DEF n, m
      <3>2. m = n - 1
        BY <3>1
      <3>3. QED
        BY <3>2 DEF n, m
    <2>5. ASSUME NEW i \in 1 .. Len(q) - 1
          PROVE  f[i] = q[i]
      <3>1. f[i] = q[1 + i - 1]
        BY <2>2, <2>3
      <3>2. QED
        BY <2>3, <3>1
    <2>6. QED
      BY <2>2, <2>4, <2>5
  <1>3. Front(q) = f /\ Last(q) = q[Len(q)] /\ Last(q) \in S
    BY <1>1 DEF Front, Last
  <1> HIDE DEF f
  <1> DEFINE z == Append(f, Last(q))
  <1>4. /\ z \in Seq(S) /\ Len(z) = Len(f) + 1 /\ z[Len(f) + 1] = Last(q)
        /\ \A i \in 1 .. Len(f) : z[i] = f[i]
    BY <1>2, <1>3, AppendProperties
  <1> HIDE DEF z
  <1>5. Len(z) = Len(q) /\ \A i \in 1 .. Len(z) : z[i] = q[i]
    BY <1>1, <1>2, <1>3, <1>4
  <1>6. z = q
    BY <1>4, <1>5, SeqEqual
  <1>7. QED
    BY <1>2, <1>3, <1>6 DEF z

LEMMA SplitAppend ==
  ASSUME NEW S, NEW q \in Seq(S), NEW x \in S
  PROVE  /\ Append(q, x) \in Seq(S) /\ Append(q, x) # <<>>
         /\ Len(Append(q, x)) = Len(q) + 1
         /\ Front(Append(q, x)) = q /\ Last(Append(q, x)) = x
  <1>1. /\ Append(q, x) \in Seq(S) /\ Len(Append(q, x)) = Len(q) + 1
        /\ Last(Append(q, x)) = x /\ (q # <<>> => Front(Append(q, x)) = q)
    BY FrontOfAppend
  <1>2. Append(q, x) # <<>>
    BY <1>1, EmptySeq, LenProperties
  <1>3. ASSUME q = <<>>
        PROVE  Front(Append(q, x)) = q
    <2>1. Len(Append(q, x)) = 1
      BY <1>1, <1>3, EmptySeq
    <2>2. SubSeq(Append(q, x), 1, 0) = <<>>
      BY SubSeqEmpty
    <2>3. Front(Append(q, x)) = SubSeq(Append(q, x), 1, 0)
      BY <2>1 DEF Front
    <2>4. QED
      BY <1>3, <2>2, <2>3
  <1>4. QED
    BY <1>1, <1>2, <1>3

LEMMA TailIs ==
  ASSUME NEW t \in Tails, NEW part, HasTail(t, part)
  PROVE  /\ part \in Parts \ {Rss, Patch} /\ RevOf[part] = 0
         /\ Bare[t][part] \in Parts \ {part}
         /\ \A u \in Tails : HasTail(u, part) => u = t
  <1>1. part \in Parts \ {Rss, Patch} /\ RevOf[part] = 0 /\ Bare[t][part] \in Parts \ {part}
    BY LinkAssumption DEF HasTail
  <1>2. \A u \in Tails : HasTail(u, part) => u = t
    BY LinkAssumption DEF HasTail, Tails
  <1>3. QED
    BY <1>1, <1>2

LEMMA Spelled ==
  ASSUME NEW n \in 1 .. MaxPatchsets
  PROVE  /\ Spell[n] \in Parts /\ RevOf[Spell[n]] = n /\ Spell[n] # Patch
         /\ \A t \in Tails : ~ HasTail(t, Spell[n])
  <1>1. /\ Spell[n] \in Parts /\ RevOf[Spell[n]] = n /\ n > 0
        /\ Spell[n] # Patch
    BY PartAssumption, BoundAssumption
  <1>2. \A t \in Tails : ~ HasTail(t, Spell[n])
    BY <1>1, TailIs
  <1>3. QED
    BY <1>1, <1>2

\* A path with a tail, and the path it hangs on.
LEMMA HungIs ==
  ASSUME NEW t \in Tails, NEW path \in Seq(Parts), path # <<>>, NEW p \in Hung(t, path)
  PROVE  /\ p \in Seq(Parts) /\ p # <<>> /\ p = Append(Front(path), Last(p))
         /\ HasTail(t, Last(p)) /\ Bare[t][Last(p)] = Last(path)
         /\ Append(Front(p), Bare[t][Last(p)]) = path
  <1>1. PICK q \in DOMAIN Bare[t] : p = Append(Front(path), q) /\ Bare[t][q] = Last(path)
    BY DEF Hung
  <1>2. Front(path) \in Seq(Parts) /\ Append(Front(path), Last(path)) = path
    BY SplitLast
  <1>3. HasTail(t, q) /\ q \in Parts
    BY TailIs DEF HasTail
  <1>4. p \in Seq(Parts) /\ p # <<>> /\ Front(p) = Front(path) /\ Last(p) = q
    BY <1>1, <1>2, <1>3, SplitAppend
  <1>5. QED
    BY <1>1, <1>2, <1>3, <1>4

LEMMA HungNow ==
  ASSUME NEW t \in Tails, NEW q \in Seq(Parts), NEW x \in Parts,
         NEW y, HasTail(t, y), Bare[t][y] = x
  PROVE  Append(q, y) \in Hung(t, Append(q, x))
  <1>1. Front(Append(q, x)) = q /\ Last(Append(q, x)) = x
    BY SplitAppend
  <1>2. QED
    BY <1>1 DEF Hung, HasTail

Untailed(path) == \A i \in 1 .. Len(path) : ~ HasTail("/patches/", path[i])

LEMMA CutNone ==
  ASSUME NEW path \in Seq(Parts), Untailed(path)
  PROVE  Cut(path) = path
  <1>1. DOMAIN path = 1 .. Len(path)
    BY LenProperties
  <1>2. {i \in DOMAIN path : HasTail("/patches/", path[i])} = {}
    BY <1>1 DEF Untailed
  <1>3. QED
    BY <1>2 DEF Cut

\* A path that is cut nowhere has no such tail: what is before a tail is shorter.
LEMMA CutFixed ==
  ASSUME NEW path \in Seq(Parts), Cut(path) = path
  PROVE  Untailed(path)
  <1> SUFFICES ASSUME ~ Untailed(path)
               PROVE  FALSE
    OBVIOUS
  <1> DEFINE at == {i \in DOMAIN path : HasTail("/patches/", path[i])}
             m == Min(at)
             before == SubSeq(path, 1, m - 1)
             bare == Bare["/patches/"][path[m]]
  <1>1. DOMAIN path = 1 .. Len(path) /\ Len(path) \in Nat
    BY LenProperties
  <1>2. at \in SUBSET Nat /\ at # {}
    BY <1>1 DEF Untailed
  <1>3. m \in 1 .. Len(path) /\ HasTail("/patches/", path[m])
    BY <1>1, <1>2, LeastOf
  <1>4. Cut(path) = Append(before, bare)
    BY <1>2 DEF Cut
  <1> HIDE DEF m
  <1>5. bare \in Parts \ {path[m]}
    <2>1. "/patches/" \in Tails
      BY DEF Tails
    <2>2. QED
      BY <1>3, <2>1, TailIs
  <1>6. before \in Seq(Parts) /\ Len(before) = m - 1
    <2>1. m - 1 \in Int /\ \A i \in 1 .. m - 1 : path[i] \in Parts
      BY <1>1, <1>3, ElementOfSeq
    <2>2. /\ SubSeq(path, 1, m - 1) \in Seq(Parts)
          /\ Len(SubSeq(path, 1, m - 1)) = IF 1 <= m - 1 THEN (m - 1) - 1 + 1 ELSE 0
      BY <2>1, SubSeqProperties
    <2>3. QED
      BY <1>3, <2>2
  <1> HIDE DEF before, bare
  <1> DEFINE z == Append(before, bare)
  <1>7. Len(z) = m /\ Last(z) = bare
    <2>1. Len(z) = Len(before) + 1 /\ Last(z) = bare
      BY <1>5, <1>6, SplitAppend
    <2>2. QED
      BY <1>3, <1>6, <2>1
  <1>8. z[m] = bare
    BY <1>7 DEF Last
  <1> HIDE DEF z
  <1>9. z = path
    BY <1>4 DEF z
  <1>10. QED
    BY <1>5, <1>8, <1>9

LEMMA UntailedAppend ==
  ASSUME NEW q \in Seq(Parts), Untailed(q), NEW x \in Parts, ~ HasTail("/patches/", x)
  PROVE  Untailed(Append(q, x))
  <1> DEFINE z == Append(q, x)
  <1>1. /\ Len(z) = Len(q) + 1 /\ z[Len(q) + 1] = x /\ Len(q) \in Nat
        /\ \A i \in 1 .. Len(q) : z[i] = q[i]
    BY AppendProperties, LenProperties
  <1> HIDE DEF z
  <1>2. \A i \in 1 .. Len(z) : ~ HasTail("/patches/", z[i])
    BY <1>1 DEF Untailed
  <1>3. QED
    BY <1>2 DEF Untailed, z

LEMMA CutLast ==
  ASSUME NEW q \in Seq(Parts), Untailed(q), NEW x, HasTail("/patches/", x)
  PROVE  Cut(Append(q, x)) = Append(q, Bare["/patches/"][x])
  <1> DEFINE z == Append(q, x)
             at == {i \in DOMAIN z : HasTail("/patches/", z[i])}
  <1>1. x \in Parts
    BY TailIs DEF Tails
  <1>2. /\ z \in Seq(Parts) /\ Len(z) = Len(q) + 1 /\ z[Len(q) + 1] = x /\ Len(q) \in Nat
        /\ \A i \in 1 .. Len(q) : z[i] = q[i]
    BY <1>1, AppendProperties, LenProperties
  <1>3. SubSeq(z, 1, Len(q)) = q
    <2>1. Front(z) = q
      BY <1>1, SplitAppend
    <2>2. Front(z) = SubSeq(z, 1, Len(z) - 1)
      BY DEF Front
    <2> HIDE DEF z
    <2>3. Len(z) - 1 = Len(q)
      BY <1>2
    <2>4. QED
      BY <2>1, <2>2, <2>3
  <1> HIDE DEF z
  <1>4. DOMAIN z = 1 .. Len(z)
    BY <1>2, LenProperties
  <1>5. at = {Len(q) + 1}
    BY <1>2, <1>4 DEF Untailed
  <1>6. Min(at) = Len(q) + 1
    <2>1. at \in SUBSET Nat /\ at # {}
      BY <1>2, <1>5
    <2>2. Min(at) \in at
      BY <2>1, LeastOf
    <2>3. QED
      BY <1>5, <2>2
  <1>7. Cut(z) = Append(SubSeq(z, 1, Min(at) - 1), Bare["/patches/"][z[Min(at)]])
    BY <1>5 DEF Cut
  <1>8. Min(at) - 1 = Len(q) /\ z[Min(at)] = x
    BY <1>2, <1>6
  <1>9. QED
    BY <1>3, <1>7, <1>8 DEF z
-----------------------------------------------------------------------------
(***************************************************************************)
(* What the handlers show.                                                 *)
(***************************************************************************)

LEMMA SlugIs ==
  ASSUME TargetInv, NEW s \in slugs
  PROVE  /\ s \in Seq(Parts) /\ s # <<>> /\ book[s] \in Seq(1 .. issued)
         /\ DOMAIN book[s] = 1 .. Len(book[s]) /\ 1 .. Len(book[s]) \subseteq 1 .. MaxPatchsets
         /\ \A r \in 1 .. Len(book[s]) : book[s][r] # NoId
         /\ book[s] # <<>> => Last(book[s]) # NoId
  <1>1. /\ s \in Seq(Parts) /\ s # <<>> /\ book[s] \in Seq(1 .. issued)
        /\ Len(book[s]) <= issued /\ issued \in 0 .. MaxPatchsets
    BY DEF TargetInv, TypeOK
  <1> DEFINE q == book[s]
  <1> HIDE DEF q
  <1>2. q \in Seq(1 .. issued)
    BY <1>1 DEF q
  <1>3. DOMAIN q = 1 .. Len(q) /\ Len(q) \in Nat
    BY <1>2, LenProperties
  <1>4. \A r \in 1 .. Len(q) : q[r] # NoId
    <2>1. \A r \in 1 .. Len(q) : q[r] \in 1 .. issued
      BY <1>2, ElementOfSeq
    <2>2. QED
      BY <2>1 DEF NoId
  <1>5. q # <<>> => Last(q) # NoId
    <2>1. q # <<>> => Len(q) \in 1 .. Len(q)
      BY <1>2, EmptySeq
    <2>2. QED
      BY <1>4, <2>1 DEF Last
  <1>6. 1 .. Len(q) \subseteq 1 .. MaxPatchsets
    BY <1>1, <1>3, BoundAssumption DEF q
  <1>7. QED
    BY <1>1, <1>3, <1>4, <1>5, <1>6 DEF q

\* A slug that is no odd text shows its latest patchset ...
LEMMA LatestShown ==
  ASSUME TargetInv, NEW s \in slugs, Trim(s) = s, Parses(s), book[s] # <<>>, NEW kind
  PROVE  Show(kind, s) = Shows(kind, Last(book[s]))
  <1>1. Resolve(s) = Pick(s, 0)
    BY DEF Resolve
  <1>2. Pick(s, 0) = Last(book[s])
    BY DEF Pick
  <1>3. Last(book[s]) # NoId
    BY SlugIs
  <1>4. QED
    BY <1>1, <1>2, <1>3 DEF Show

\* ... and with a revision that one.
LEMMA RevisionShown ==
  ASSUME TargetInv, NEW s \in slugs, NEW r \in 1 .. Len(book[s]),
         Append(s, Spell[r]) \notin slugs, NEW kind
  PROVE  Show(kind, Append(s, Spell[r])) = Shows(kind, book[s][r])
  <1>1. Resolve(Append(s, Spell[r])) = book[s][r]
    BY ListedResolve DEF ListedNamesResolve
  <1>2. book[s][r] # NoId
    BY SlugIs
  <1>3. QED
    BY <1>1, <1>2 DEF Show

LEMMA OneOrMore ==
  ASSUME NEW S, NEW q \in Seq(S), q # <<>>, NEW x \in S
  PROVE  /\ Len(Append(q, x)) > 1 /\ \A y : Append(q, x) # <<y>>
  <1>1. Len(q) \in Nat \ {0}
    BY EmptySeq
  <1>2. Len(Append(q, x)) = Len(q) + 1
    BY SplitAppend
  <1>3. Len(Append(q, x)) > 1
    BY <1>1, <1>2
  <1>4. ASSUME NEW y, Append(q, x) = <<y>>
        PROVE  FALSE
    <2>1. Len(<<y>>) = 1
      OBVIOUS
    <2>2. QED
      BY <1>3, <1>4, <2>1
  <1>5. QED
    BY <1>3, <1>4

LEMMA DetailMbox ==
  ASSUME NEW q \in Seq(Parts), q # <<>>
  PROVE  Detail(Append(q, Patch)) = Show("mbox", q)
  <1>1. Patch \in Parts
    BY PartAssumption
  <1>2. /\ Append(q, Patch) # <<Rss>> /\ Len(Append(q, Patch)) > 1
        /\ Last(Append(q, Patch)) = Patch /\ Front(Append(q, Patch)) = q
    BY <1>1, OneOrMore, SplitAppend
  <1>3. QED
    BY <1>2 DEF Detail

\* A path with a tail is none of the others.
LEMMA DetailFeed ==
  ASSUME NEW path \in Seq(Parts), path # <<>>, NEW p \in Hung("/rss", path)
  PROVE  Detail(p) = Show("feed", path)
  <1>1. "/rss" \in Tails
    BY DEF Tails
  <1>2. /\ p \in Seq(Parts) /\ p # <<>>
        /\ HasTail("/rss", Last(p)) /\ Append(Front(p), Bare["/rss"][Last(p)]) = path
    BY <1>1, HungIs
  <1>3. Last(p) # Rss /\ Last(p) # Patch
    BY <1>1, <1>2, TailIs
  <1>4. p # <<Rss>>
    <2>1. Last(<<Rss>>) = Rss
      BY DEF Last
    <2>2. QED
      BY <1>3, <2>1
  <1>5. QED
    BY <1>2, <1>3, <1>4 DEF Detail

LEMMA DetailPatches ==
  ASSUME NEW path \in Seq(Parts), path # <<>>, Untailed(Front(path)),
         NEW p \in Hung("/patches/", path)
  PROVE  Detail(p) = Show("page", path)
  <1>1. "/patches/" \in Tails /\ "/rss" \in Tails
    BY DEF Tails
  <1>2. /\ p \in Seq(Parts) /\ p # <<>> /\ p = Append(Front(path), Last(p))
        /\ HasTail("/patches/", Last(p)) /\ Bare["/patches/"][Last(p)] = Last(path)
    BY <1>1, HungIs
  <1>3. Last(p) # Rss /\ Last(p) # Patch /\ ~ HasTail("/rss", Last(p))
    BY <1>1, <1>2, TailIs
  <1>4. p # <<Rss>>
    <2>1. Last(<<Rss>>) = Rss
      BY DEF Last
    <2>2. QED
      BY <1>3, <2>1
  <1>5. Front(path) \in Seq(Parts) /\ Append(Front(path), Last(path)) = path
    BY SplitLast
  <1>6. Cut(p) = path
    <2> DEFINE x == Last(p)
    <2>1. p = Append(Front(path), x) /\ HasTail("/patches/", x)
          /\ Bare["/patches/"][x] = Last(path)
      BY <1>2
    <2> HIDE DEF x
    <2>2. Cut(Append(Front(path), x)) = Append(Front(path), Bare["/patches/"][x])
      BY <1>5, <2>1, CutLast
    <2>3. QED
      BY <1>5, <2>1, <2>2
  <1>7. QED
    BY <1>3, <1>4, <1>6 DEF Detail
-----------------------------------------------------------------------------
(***************************************************************************)
(* Where the links by number go.                                           *)
(***************************************************************************)

\* The slug that has the number, and what follows it.
To(bare) ==
  LET number == IF Len(bare) > 1 THEN Front(bare) ELSE bare
      rest == IF Len(bare) > 1 THEN <<Last(bare)>> ELSE <<>>
  IN {order[n] \o rest : n \in {m \in DOMAIN order : number = <<Spell[m]>>}}

LEMMA NumberIs ==
  ASSUME LinkInv, NEW n \in DOMAIN order
  PROVE  /\ n \in 1 .. MaxPatchsets /\ order[n] \in slugs
         /\ {m \in DOMAIN order : <<Spell[n]>> = <<Spell[m]>>} = {n}
  <1>1. /\ DOMAIN order = 1 .. Len(order) /\ Len(order) \in Nat /\ Len(order) <= issued
        /\ issued \in 0 .. MaxPatchsets
    BY LenProperties DEF LinkInv, TargetInv, TypeOK
  <1>2. \A m \in DOMAIN order : m \in 1 .. MaxPatchsets
    BY <1>1, BoundAssumption
  <1>3. order[n] \in slugs
    BY <1>1, ElementOfSeq DEF LinkInv
  <1>4. ASSUME NEW m \in DOMAIN order, <<Spell[n]>> = <<Spell[m]>>
        PROVE  m = n
    <2>1. Spell[n] = Spell[m]
      BY <1>4
    <2>2. RevOf[Spell[n]] = n /\ RevOf[Spell[m]] = m
      BY <1>2, Spelled
    <2>3. QED
      BY <2>1, <2>2
  <1>5. QED
    BY <1>2, <1>3, <1>4

LEMMA ToNumber ==
  ASSUME LinkInv, NEW n \in DOMAIN order
  PROVE  To(<<Spell[n]>>) = {order[n]}
  <1>1. Len(<<Spell[n]>>) = 1
    OBVIOUS
  <1>2. To(<<Spell[n]>>) =
          {order[k] \o <<>> : k \in {m \in DOMAIN order : <<Spell[n]>> = <<Spell[m]>>}}
    BY <1>1 DEF To
  <1>3. To(<<Spell[n]>>) = {order[n] \o <<>>}
    BY <1>2, NumberIs
  <1>4. order[n] \o <<>> = order[n]
    BY NumberIs, SlugIs, ConcatEmptySeq DEF LinkInv
  <1>5. QED
    BY <1>3, <1>4

LEMMA Two ==
  ASSUME NEW S, NEW x \in S, NEW y \in S
  PROVE  /\ <<x, y>> = Append(<<x>>, y) /\ <<x>> \in Seq(S) /\ <<x>> # <<>>
         /\ Len(<<x, y>>) = 2 /\ Front(<<x, y>>) = <<x>> /\ Last(<<x, y>>) = y
         /\ <<x, y>> \in Seq(S) /\ <<x, y>> # <<>>
  <1>1. <<x, y>> = Append(<<x>>, y) /\ <<x>> \in Seq(S) /\ <<x>> # <<>> /\ Len(<<x, y>>) = 2
    OBVIOUS
  <1>2. /\ Append(<<x>>, y) \in Seq(S) /\ Append(<<x>>, y) # <<>>
        /\ Front(Append(<<x>>, y)) = <<x>> /\ Last(Append(<<x>>, y)) = y
    BY <1>1, SplitAppend
  <1>3. QED
    BY <1>1, <1>2

LEMMA ToRest ==
  ASSUME LinkInv, NEW n \in DOMAIN order, NEW x \in Parts
  PROVE  To(<<Spell[n], x>>) = {Append(order[n], x)}
  <1>1. Spell[n] \in Parts
    BY NumberIs, Spelled
  <1>2. /\ Len(<<Spell[n], x>>) > 1 /\ Front(<<Spell[n], x>>) = <<Spell[n]>>
        /\ Last(<<Spell[n], x>>) = x
    <2> DEFINE y == Spell[n]
    <2>1. y \in Parts
      BY <1>1
    <2> HIDE DEF y
    <2>2. Len(<<y, x>>) = 2 /\ Front(<<y, x>>) = <<y>> /\ Last(<<y, x>>) = x
      BY <2>1, Two
    <2>3. QED
      BY <2>2 DEF y
  <1>3. To(<<Spell[n], x>>) =
          {order[k] \o <<x>> : k \in {m \in DOMAIN order : <<Spell[n]>> = <<Spell[m]>>}}
    BY <1>2 DEF To
  <1>4. To(<<Spell[n], x>>) = {order[n] \o <<x>>}
    BY <1>3, NumberIs
  <1>5. order[n] \o <<x>> = Append(order[n], x)
    BY NumberIs, SlugIs, AppendIsConcat DEF LinkInv
  <1>6. QED
    BY <1>4, <1>5

LEMMA RedirectsPlain ==
  ASSUME NEW path, \A t \in Tails : ~ HasTail(t, Last(path))
  PROVE  Redirects(path) = To(path)
  <1>1. {t \in Tails : HasTail(t, Last(path))} = {}
    OBVIOUS
  <1>2. QED
    BY <1>1 DEF Redirects, To

LEMMA RedirectsTailed ==
  ASSUME NEW t \in Tails, NEW path, HasTail(t, Last(path))
  PROVE  Redirects(path) =
           UNION {Hung(t, p) : p \in To(Append(Front(path), Bare[t][Last(path)]))}
  <1>1. {u \in Tails : HasTail(u, Last(path))} = {t}
    BY TailIs
  <1>2. (CHOOSE u \in {t} : TRUE) = t
    OBVIOUS
  <1>3. QED
    BY <1>1, <1>2 DEF Redirects, To
-----------------------------------------------------------------------------
(***************************************************************************)
(* Every link leads where it says.                                         *)
(***************************************************************************)

LEMMA TrimmedEnd ==
  ASSUME NEW s \in Seq(Parts), Trim(s) = s, s # <<>>
  PROVE  ~ (Len(s) > 1 /\ Last(s) = Patch)
  <1> SUFFICES ASSUME Len(s) > 1, Last(s) = Patch
               PROVE  FALSE
    OBVIOUS
  <1>1. s = Front(s)
    BY DEF Trim
  <1>2. Len(Front(s)) = Len(s) - 1 /\ Len(s) \in Nat
    BY FrontIs, LenProperties
  <1>3. Len(s) = Len(s) - 1
    BY <1>1, <1>2, Zenon
  <1>4. QED
    BY <1>2, <1>3

\* The pages of a slug, and the links to them by its number.
LEMMA SlugLinks ==
  ASSUME LinkInv, NEW n \in DOMAIN order, NEW s, s = order[n], NEW latest,
         latest = Last(book[s]), Plain(s), Parses(s), book[s] # <<>>
  PROVE  /\ Detail(s) = Shows("page", latest)
         /\ Detail(Append(s, Patch)) = Shows("mbox", latest)
         /\ \A p \in Hung("/rss", s) : Detail(p) = Shows("feed", latest)
         /\ Old(<<Spell[n]>>) = {Shows("page", latest)}
         /\ Old(<<Spell[n], Patch>>) = {Shows("mbox", latest)}
         /\ \A p \in Hung("/rss", <<Spell[n]>>) : Hung("/rss", s) # {} =>
              Old(p) = {Shows("feed", latest)}
  <1>1. /\ s \in slugs /\ s \in Seq(Parts) /\ s # <<>> /\ n \in 1 .. MaxPatchsets
        /\ TargetInv
    BY NumberIs, SlugIs DEF LinkInv
  <1>2. /\ s # <<Rss>> /\ Trim(s) = s /\ ~ HasTail("/rss", Last(s)) /\ Cut(s) = s
    BY DEF Plain
  <1>3. ASSUME NEW kind
        PROVE  Show(kind, s) = Shows(kind, latest)
    BY <1>1, <1>2, LatestShown
  <1>4. Detail(s) = Shows("page", latest)
    <2>1. ~ (Len(s) > 1 /\ Last(s) = Patch)
      BY <1>1, <1>2, TrimmedEnd
    <2>2. Detail(s) = Show("page", s)
      BY <1>2, <2>1 DEF Detail
    <2>3. QED
      BY <1>3, <2>2
  <1>5. Detail(Append(s, Patch)) = Shows("mbox", latest)
    BY <1>1, <1>3, DetailMbox
  <1>6. ASSUME NEW p \in Hung("/rss", s)
        PROVE  Detail(p) = Shows("feed", latest)
    BY <1>1, <1>3, DetailFeed
  <1>7. /\ Spell[n] \in Parts /\ \A t \in Tails : ~ HasTail(t, Spell[n])
        /\ Patch \in Parts /\ \A t \in Tails : ~ HasTail(t, Patch)
    BY <1>1, Spelled, TailIs, PartAssumption
  <1>8. Old(<<Spell[n]>>) = {Shows("page", latest)}
    <2>1. Last(<<Spell[n]>>) = Spell[n]
      BY DEF Last
    <2>2. Redirects(<<Spell[n]>>) = To(<<Spell[n]>>)
      BY <1>7, <2>1, RedirectsPlain
    <2>3. Redirects(<<Spell[n]>>) = {s}
      BY <2>2, ToNumber
    <2>4. QED
      BY <1>4, <2>3 DEF Old
  <1>9. Old(<<Spell[n], Patch>>) = {Shows("mbox", latest)}
    <2>1. Last(<<Spell[n], Patch>>) = Patch
      BY DEF Last
    <2>2. Redirects(<<Spell[n], Patch>>) = To(<<Spell[n], Patch>>)
      BY <1>7, <2>1, RedirectsPlain
    <2>3. Redirects(<<Spell[n], Patch>>) = {Append(s, Patch)}
      BY <1>7, <2>2, ToRest
    <2>4. QED
      BY <1>5, <2>3 DEF Old
  <1>10. ASSUME NEW p \in Hung("/rss", <<Spell[n]>>), Hung("/rss", s) # {}
         PROVE  Old(p) = {Shows("feed", latest)}
    <2>1. "/rss" \in Tails /\ <<Spell[n]>> \in Seq(Parts) /\ <<Spell[n]>> # <<>>
      BY <1>7 DEF Tails
    <2>2. HasTail("/rss", Last(p)) /\ Append(Front(p), Bare["/rss"][Last(p)]) = <<Spell[n]>>
      BY <2>1, HungIs
    <2>3. Redirects(p) = UNION {Hung("/rss", u) : u \in To(<<Spell[n]>>)}
      BY <2>1, <2>2, RedirectsTailed
    <2>4. Redirects(p) = Hung("/rss", s)
      BY <2>3, ToNumber
    <2>5. QED
      BY <1>6, <1>10, <2>4 DEF Old
  <1>11. QED
    BY <1>4, <1>5, <1>6, <1>8, <1>9, <1>10

\* The pages of a patchset, named so, and the links to them.
RevisionLeads(n, r, named, id) ==
  /\ Detail(named) = Shows("page", id)
  /\ Detail(Append(named, Patch)) = Shows("mbox", id)
  /\ \A p \in Hung("/patches/", named) : Detail(p) = Shows("page", id)
  /\ Old(<<Spell[n], Spell[r]>>) = {Shows("page", id)}
  /\ \A p \in Hung("/patches/", <<Spell[n], Spell[r]>>) : Old(p) = {Shows("page", id)}

LEMMA RevisionLinks ==
  ASSUME LinkInv, NEW n \in DOMAIN order, NEW s, s = order[n], NEW r \in DOMAIN book[s],
         NEW named, named = Append(s, Spell[r]), Cut(s) = s, named \notin slugs
  PROVE  RevisionLeads(n, r, named, book[s][r])
  <1>1. /\ s \in slugs /\ s \in Seq(Parts) /\ s # <<>> /\ n \in 1 .. MaxPatchsets
        /\ TargetInv /\ r \in 1 .. Len(book[s]) /\ r \in 1 .. MaxPatchsets
    <2>1. s \in slugs /\ n \in 1 .. MaxPatchsets /\ TargetInv
      BY NumberIs DEF LinkInv
    <2>2. /\ s \in Seq(Parts) /\ s # <<>>
          /\ DOMAIN book[s] = 1 .. Len(book[s]) /\ 1 .. Len(book[s]) \subseteq 1 .. MaxPatchsets
      BY <2>1, SlugIs
    <2>3. QED
      BY <2>1, <2>2
  <1>2. /\ Spell[n] \in Parts /\ \A t \in Tails : ~ HasTail(t, Spell[n])
        /\ Spell[r] \in Parts /\ \A t \in Tails : ~ HasTail(t, Spell[r])
        /\ Spell[r] # Patch
    BY <1>1, Spelled
  <1>3. /\ named \in Seq(Parts) /\ named # <<>> /\ named # <<Rss>>
        /\ Front(named) = s /\ Last(named) = Spell[r]
    BY <1>1, <1>2, SplitAppend, OneOrMore
  <1>4. "/patches/" \in Tails /\ "/rss" \in Tails
    BY DEF Tails
  <1>5. Untailed(s)
    BY <1>1, CutFixed
  <1>6. Cut(named) = named
    <2>1. Untailed(named)
      BY <1>1, <1>2, <1>4, <1>5, UntailedAppend
    <2>2. QED
      BY <1>3, <2>1, CutNone
  <1>7. ASSUME NEW kind
        PROVE  Show(kind, named) = Shows(kind, book[s][r])
    BY <1>1, RevisionShown
  <1>8. Detail(named) = Shows("page", book[s][r])
    <2>1. Detail(named) = Show("page", named)
      BY <1>2, <1>3, <1>4, <1>6 DEF Detail
    <2>2. QED
      BY <1>7, <2>1
  <1>9. Detail(Append(named, Patch)) = Shows("mbox", book[s][r])
    BY <1>3, <1>7, DetailMbox
  <1>10. ASSUME NEW p \in Hung("/patches/", named)
         PROVE  Detail(p) = Shows("page", book[s][r])
    BY <1>3, <1>5, <1>7, DetailPatches
  <1>11. To(<<Spell[n], Spell[r]>>) = {named}
    BY <1>2, ToRest
  <1>12. Old(<<Spell[n], Spell[r]>>) = {Shows("page", book[s][r])}
    <2>1. Last(<<Spell[n], Spell[r]>>) = Spell[r]
      BY DEF Last
    <2>2. Redirects(<<Spell[n], Spell[r]>>) = To(<<Spell[n], Spell[r]>>)
      BY <1>2, <2>1, RedirectsPlain
    <2>3. Redirects(<<Spell[n], Spell[r]>>) = {named}
      BY <1>11, <2>2
    <2> DEFINE path == <<Spell[n], Spell[r]>>
    <2> HIDE DEF path
    <2>4. Redirects(path) = {named}
      BY <2>3 DEF path
    <2>5. Old(path) = {Shows("page", book[s][r])}
      BY <1>8, <2>4 DEF Old
    <2>6. QED
      BY <2>5 DEF path
  <1>13. ASSUME NEW p \in Hung("/patches/", <<Spell[n], Spell[r]>>)
         PROVE  Old(p) = {Shows("page", book[s][r])}
    <2> DEFINE x == Spell[n]
               y == Spell[r]
    <2>1. x \in Parts /\ y \in Parts
      BY <1>2
    <2>2. p \in Hung("/patches/", <<x, y>>)
      OBVIOUS
    <2> HIDE DEF x, y
    <2>3. /\ <<x, y>> \in Seq(Parts) /\ <<x, y>> # <<>> /\ Last(<<x, y>>) = y
          /\ <<x>> \in Seq(Parts) /\ Front(<<x, y>>) = <<x>>
      BY <2>1, Two
    <2>4. /\ HasTail("/patches/", Last(p)) /\ Bare["/patches/"][Last(p)] = y
          /\ Append(Front(p), Bare["/patches/"][Last(p)]) = <<x, y>>
      <3> DEFINE path == <<x, y>>
      <3>1. path \in Seq(Parts) /\ path # <<>> /\ Last(path) = y /\ p \in Hung("/patches/", path)
        BY <2>2, <2>3
      <3> HIDE DEF path
      <3>2. /\ HasTail("/patches/", Last(p)) /\ Bare["/patches/"][Last(p)] = Last(path)
            /\ Append(Front(p), Bare["/patches/"][Last(p)]) = path
        BY <1>4, <3>1, HungIs
      <3>3. QED
        BY <3>1, <3>2 DEF path
    <2>5. Redirects(p) = UNION {Hung("/patches/", u) : u \in To(<<x, y>>)}
      BY <1>4, <2>4, RedirectsTailed
    <2>6. Redirects(p) = Hung("/patches/", named)
      BY <1>11, <2>5 DEF x, y
    <2>7. Append(s, Last(p)) \in Hung("/patches/", named)
      BY <1>1, <1>2, <1>4, <2>4, HungNow DEF y
    <2>8. QED
      BY <1>10, <2>6, <2>7 DEF Old
  <1>14. QED
    BY <1>8, <1>9, <1>10, <1>12, <1>13 DEF RevisionLeads

\* Every link a page prints, and every link of the time when patch requests had
\* numbers (redirectLegacyPr), leads through createPrDetail's suffixes to what it
\* is printed for, whatever other slugs there are.
THEOREM LinksLeadThere == LinkSpec => []LinksLead
  <1>1. LinkInv => LinksLead
    <2> SUFFICES ASSUME LinkInv
                 PROVE  LinksLead
      OBVIOUS
    <2>1. ASSUME NEW n \in DOMAIN order, Plain(order[n]), Parses(order[n]),
                 book[order[n]] # <<>>
          PROVE  LET s == order[n]
                     latest == Last(book[s])
                 IN /\ Detail(s) = Shows("page", latest)
                    /\ Detail(Append(s, Patch)) = Shows("mbox", latest)
                    /\ \A p \in Hung("/rss", s) : Detail(p) = Shows("feed", latest)
                    /\ Old(<<Spell[n]>>) = {Shows("page", latest)}
                    /\ Old(<<Spell[n], Patch>>) = {Shows("mbox", latest)}
                    /\ \A p \in Hung("/rss", <<Spell[n]>>) : Hung("/rss", s) # {} =>
                         Old(p) = {Shows("feed", latest)}
      BY <2>1, SlugLinks
    <2>2. ASSUME NEW n \in DOMAIN order, NEW r \in DOMAIN book[order[n]],
                 Cut(order[n]) = order[n], Append(order[n], Spell[r]) \notin slugs
          PROVE  RevisionLeads(n, r, Append(order[n], Spell[r]), book[order[n]][r])
      BY <2>2, RevisionLinks
    <2>3. QED
      BY <2>1, <2>2 DEF LinksLead, RevisionLeads
  <1>2. QED
    BY <1>1, LinkInvHolds, PTL
=============================================================================

-------------------------- MODULE MigrationsProofs --------------------------
(***************************************************************************)
(* Opening a database of any older version, proved of Migrations for every *)
(* number of processes, every file that the assumptions allow, and however *)
(* often upgrades are cut short or run side by side.                       *)
(***************************************************************************)
EXTENDS Migrations, FiniteSetTheorems, WellFoundedInduction, TLAPS

(***************************************************************************)
(* What a database is like before migration i (21: all have run).          *)
(***************************************************************************)

Columns ==
  {"repo", "event_repo", "status", "base_commit_sha", "repos", "repo_ref",
   "event_repo_ref", "repo_name", "last_activity", "slug"}
Row ==
  [key : Nat, repo : Nat, repoName : Nat, blank : BOOLEAN, created : Nat \ {0},
   activity : Nat, slug : Nat]
Entry == [pr : Nat, kind : {"pr_created", "pr_status_changed"}, at : Nat, key : Nat]

Tables(R) == UNION {[ids -> R] : ids \in SUBSET Nat}
Database ==
  [version : Nat, cols : SUBSET Columns, repos : SUBSET Nat,
   prs : Tables(Row), lastId : Nat, sets : Tables([pr : Nat, key : Nat]), lastSet : Nat,
   patches : SUBSET [set : Nat, key : Nat], logs : SUBSET Entry]

\* Ids come from AUTOINCREMENT.
IdsGiven(d) == DOMAIN d.prs \subseteq 1 .. d.lastId /\ DOMAIN d.sets \subseteq 1 .. d.lastSet

\* Columns live from the migration that adds them to the one that drops them.
\* An upgrade that comes second starts over with the columns of the first one:
\* from versions 18 and 19 on nothing stops it, so of these two columns nothing is
\* said there.
ColumnsAre(i, d) ==
  /\ "repo" \in d.cols <=> i <= 15
  /\ "event_repo" \in d.cols <=> i <= 16
  /\ "base_commit_sha" \in d.cols <=> i >= 2
  /\ "repos" \in d.cols <=> i \in 4 .. 14
  /\ "repo_ref" \in d.cols <=> i \in 6 .. 15
  /\ "event_repo_ref" \in d.cols <=> i \in 7 .. 16
  /\ "repo_name" \in d.cols <=> i >= 8
  /\ "last_activity" \in d.cols <=> i >= 11
  /\ i \notin {18, 19} =>
       /\ "status" \in d.cols <=> i <= 17
       /\ "slug" \in d.cols <=> i = 21

NoNameTwice(d) ==
  \A j, k \in DOMAIN d.prs :
    d.prs[j].repoName = d.prs[k].repoName /\ d.prs[j].slug = d.prs[k].slug => j = k

RowsFilled(i, d) ==
  /\ i >= 10 => NotNull(d, "repoName")
  /\ i >= 13 => NotNull(d, "activity")
  /\ i <= 20 /\ i \notin {18, 19} => \A j \in DOMAIN d.prs : d.prs[j].slug = 0
  /\ i = 21 => NotNull(d, "slug") /\ NoNameTwice(d)

\* There is a latest log entry.
TimesEnd(d) == \E n \in Nat : \A x \in d.logs : x.at <= n

Sound(i, d) ==
  /\ d \in Database
  /\ IdsGiven(d)
  /\ ColumnsAre(i, d)
  /\ RowsFilled(i, d)
  /\ TimesEnd(d)

\* Rows belong to the patch request they were written for.
RowsBelong(d) ==
  /\ \A s \in DOMAIN d.sets :
       d.sets[s].pr \in DOMAIN d.prs /\ d.prs[d.sets[s].pr].key = d.sets[s].key
  /\ \A e \in d.logs : e.pr \in DOMAIN d.prs /\ d.prs[e.pr].key = e.key
  /\ \A p \in d.patches : p.set \in DOMAIN d.sets /\ d.sets[p.set].key = p.key

\* Up to migration 5 ids have no gaps and, before it, no repo is missing: to
\* number the rows anew changes nothing.
NoGaps(i, d) ==
  /\ i <= 5 => DOMAIN d.prs = 1 .. d.lastId
  /\ i = 5 => \A j \in DOMAIN d.prs : d.prs[j].repo \in d.repos

Belong(i, d) == RowsBelong(d) /\ NoGaps(i, d)

\* Patch request k of the first schema is still there with what belongs to it,
\* and has the activity that the migrations so far have given it.
Kept(i, d, l, k) ==
  /\ k \in DOMAIN d.prs
  /\ d.prs[k].key = k /\ d.prs[k].repo = l.repo[k] /\ d.prs[k].created = k /\ ~d.prs[k].blank
  /\ i \in 5 .. 8 => l.repo[k] \in d.repos
  /\ i >= 9 => d.prs[k].repoName = l.repo[k]
  /\ k \in DOMAIN d.sets /\ d.sets[k].pr = k /\ [set |-> k, key |-> k] \in d.patches
  /\ k \in l.logged => \E e \in d.logs : e.pr = k /\ e.kind = "pr_created"
  /\ i <= 11 =>
       /\ d.prs[k].activity = 0
       /\ \A e \in d.logs : e.pr = k => e.at = k \/ (e.at = 10 + k /\ k \in l.changed)
       /\ k \in l.logged => \E e \in d.logs : e.pr = k /\ e.at = k
       /\ k \in l.changed => \E e \in d.logs : e.pr = k /\ e.at = 10 + k
  /\ i = 12 => d.prs[k].activity \in {0, IF k \in l.changed THEN 10 + k ELSE k}
  /\ i = 12 /\ k \in l.changed => d.prs[k].activity = 10 + k
  /\ i >= 13 => d.prs[k].activity = IF k \in l.changed THEN 10 + k ELSE k

(***************************************************************************)
(* The inductive invariant.                                                *)
(***************************************************************************)

\* Those that an upgrade has to keep.
ToKeep(l) ==
  {k \in l.ids \ (l.blank \cup l.removed) : l.repo[k] \notin l.gone}

Stage(i, d) ==
  /\ Sound(i, d)
  /\ Dense => Belong(i, d)
  /\ Dense /\ start # 0 => \A k \in ToKeep(legacy) : Kept(i, d, legacy, k)

DiskInv ==
  /\ disk.version \in {start, Current}
  /\ disk.version = 0 => disk = Empty
  /\ disk.version # 0 => Stage(IF disk.version > Current THEN Current ELSE disk.version, disk)

ProcType == [pc : {"open", "begin", "tx", "up"}, opened : Nat, at : Nat]

\* A process relies on the version it has read, and only the one that has the
\* lock is in its transaction.
ProcInv ==
  /\ proc \in [Procs -> ProcType]
  /\ \A p \in Procs :
       /\ proc[p].pc = "up" => proc[p].opened > 0
       /\ proc[p].opened > 0 => UpToDate
       /\ proc[p].pc = "begin" => proc[p].at = start /\ start < Current
       /\ proc[p].pc = "tx" => lock = p

\* An upgrade of an upgraded file gets no further than a migration that adds a
\* column which is there or needs one which is gone.
Walls == {1, 4, 5, 6, 7, 8, 10, 15, 17, 20}
BeforeWall(i) == \E w \in Walls : i <= w /\ \A u \in Walls : u < start \/ w <= u
ColumnsOfLater(d) ==
  /\ {"repo", "event_repo", "repo_ref", "status"} \cap d.cols = {}
  /\ {"base_commit_sha", "repo_name", "last_activity"} \subseteq d.cols
  /\ start = 20 => "slug" \in d.cols

\* The transaction of an upgrade that has come to migration i.
WorkAt(i) ==
  /\ start < Current
  /\ start = 0 =>
       /\ i \in {0, Current}
       /\ UpToDate => work = disk
       /\ ~UpToDate /\ i = 0 => work = Empty
       /\ i = Current => Stage(i, work)
  /\ start # 0 => i \in start .. Current
  /\ start # 0 /\ (~UpToDate \/ start \in {18, 19}) => Stage(i, work)
  /\ start # 0 /\ UpToDate /\ start \notin {18, 19} =>
       work \in Database /\ TimesEnd(work) /\ BeforeWall(i) /\ ColumnsOfLater(work)

WorkInv == \A p \in Procs : proc[p].pc = "tx" => WorkAt(proc[p].at)

UpgradeInv ==
  /\ start \in Nat /\ legacy \in Legacy /\ pushed \in Nat
  /\ DiskInv
  /\ ProcInv
  /\ WorkInv

\* What the first upgrade of a file finds in its way: nothing.
NeverRefused ==
  \A p \in Procs : proc[p].pc = "tx" /\ proc[p].at \in 1 .. Current - 1 /\ ~UpToDate =>
    Accepted(proc[p].at, work)
-----------------------------------------------------------------------------
(***************************************************************************)
(* Numbers and tables.                                                     *)
(***************************************************************************)

LEMMA LeastOf ==
  ASSUME NEW T \in SUBSET Nat, T # {}
  PROVE  Min(T) \in T /\ \A y \in T : Min(T) <= y
  <1>1. PICK x \in T : \A y \in T : ~ (<<y, x>> \in OpToRel(<, Nat))
    BY NatLessThanWellFounded, WFMin
  <1>2. \A y \in T : <<y, x>> \in OpToRel(<, Nat) <=> y < x
    BY DEF OpToRel
  <1>3. \A y \in T : ~ (y < x)
    BY <1>1, <1>2
  <1>4. \A y \in T : x <= y
    BY <1>3
  <1>5. QED
    BY <1>4 DEF Min

LEMMA GreatestOf ==
  ASSUME NEW n \in Nat, NEW T \in SUBSET (0 .. n), T # {}
  PROVE  Max(T) \in T /\ \A y \in T : Max(T) >= y
  <1> DEFINE bounds == {m \in Nat : \A y \in T : y <= m}
             m == Min(bounds)
  <1>1. n \in bounds
    OBVIOUS
  <1>2. m \in bounds /\ \A b \in bounds : m <= b
    BY <1>1, LeastOf
  <1> HIDE DEF m
  <1>3. m \in T
    <2> SUFFICES ASSUME m \notin T
                 PROVE  FALSE
      OBVIOUS
    <2>1. m \in Nat /\ \A y \in T : y < m
      BY <1>2
    <2>2. m - 1 \in bounds
      <3>1. PICK y \in T : y < m
        BY <2>1
      <3>2. m - 1 \in Nat /\ \A x \in T : x <= m - 1
        BY <2>1, <3>1
      <3>3. QED
        BY <3>2
    <2>3. QED
      BY <1>2, <2>1, <2>2
  <1>4. \A y \in T : m >= y
    BY <1>2
  <1>5. QED
    BY <1>3, <1>4 DEF Max

LEMMA MaxOr0Is ==
  ASSUME NEW n \in Nat, NEW T \in SUBSET (1 .. n)
  PROVE  MaxOr0(T) \in 0 .. n /\ T \subseteq 1 .. MaxOr0(T) /\ MaxOr0(T) \in T \cup {0}
  <1>1. T \cup {0} \in SUBSET (0 .. n) /\ T \cup {0} # {}
    OBVIOUS
  <1>2. Max(T \cup {0}) \in T \cup {0} /\ \A y \in T \cup {0} : Max(T \cup {0}) >= y
    BY <1>1, GreatestOf
  <1> DEFINE m == Max(T \cup {0})
  <1>3. m \in T \cup {0} /\ \A y \in T : m >= y
    BY <1>2
  <1>4. MaxOr0(T) = m
    BY DEF MaxOr0
  <1> HIDE DEF m
  <1>5. m \in 0 .. n /\ T \subseteq 1 .. m
    BY <1>3
  <1>6. QED
    BY <1>3, <1>4, <1>5

LEMMA TableIs ==
  ASSUME NEW R, NEW t
  PROVE  t \in Tables(R) <=> DOMAIN t \subseteq Nat /\ t \in [DOMAIN t -> R]
  BY DEF Tables

LEMMA RowsIn ==
  ASSUME NEW R, NEW ids \in SUBSET Nat, NEW t \in [ids -> R]
  PROVE  t \in Tables(R) /\ DOMAIN t = ids
  BY TableIs

LEMMA KeepIs ==
  ASSUME NEW R, NEW t \in Tables(R), NEW ids
  PROVE  /\ Keep(t, ids) \in Tables(R)
         /\ DOMAIN Keep(t, ids) = DOMAIN t \cap ids
         /\ \A i \in DOMAIN t \cap ids : Keep(t, ids)[i] = t[i]
  BY TableIs DEF Keep

LEMMA InsertIs ==
  ASSUME NEW R, NEW t \in Tables(R), NEW id \in Nat, NEW row \in R
  PROVE  /\ InsertRow(t, id, row) \in Tables(R)
         /\ DOMAIN InsertRow(t, id, row) = DOMAIN t \cup {id}
         /\ InsertRow(t, id, row)[id] = row
         /\ \A i \in DOMAIN t \ {id} : InsertRow(t, id, row)[i] = t[i]
  BY TableIs DEF InsertRow

LEMMA Fields ==
  ASSUME NEW d \in Database
  PROVE  /\ d.version \in Nat /\ d.cols \in SUBSET Columns /\ d.repos \in SUBSET Nat
         /\ d.prs \in Tables(Row) /\ d.lastId \in Nat
         /\ d.sets \in Tables([pr : Nat, key : Nat]) /\ d.lastSet \in Nat
         /\ d.patches \in SUBSET [set : Nat, key : Nat] /\ d.logs \in SUBSET Entry
         /\ \A j \in DOMAIN d.prs : j \in Nat /\ d.prs[j] \in Row
         /\ \A s \in DOMAIN d.sets : s \in Nat /\ d.sets[s] \in [pr : Nat, key : Nat]
  <1>1. d.prs \in Tables(Row) /\ d.sets \in Tables([pr : Nat, key : Nat])
    BY DEF Database
  <1>2. /\ DOMAIN d.prs \subseteq Nat /\ d.prs \in [DOMAIN d.prs -> Row]
        /\ DOMAIN d.sets \subseteq Nat /\ d.sets \in [DOMAIN d.sets -> [pr : Nat, key : Nat]]
    BY <1>1, TableIs
  <1>3. QED
    BY <1>1, <1>2 DEF Database

\* What DELETE FROM patch_requests and the tables under it leave.
LEMMA DropIs ==
  ASSUME NEW d \in Database, NEW ids
  PROVE  LET e == DropRequests(d, ids) IN
         /\ e \in Database
         /\ e.version = d.version /\ e.cols = d.cols /\ e.repos = d.repos
         /\ e.lastId = d.lastId /\ e.lastSet = d.lastSet
         /\ e.prs = Keep(d.prs, DOMAIN d.prs \ ids)
         /\ e.sets = Keep(d.sets, {s \in DOMAIN d.sets : d.sets[s].pr \notin ids})
         /\ e.patches = {p \in d.patches : ~ (p.set \in DOMAIN d.sets /\ d.sets[p.set].pr \in ids)}
         /\ e.logs = {x \in d.logs : x.pr \notin ids}
  <1> DEFINE logs == {x \in d.logs : x.pr \notin ids}
             a == [d EXCEPT !.logs = logs]
             patches == {p \in d.patches : ~ \E s \in DOMAIN d.sets : s = p.set /\ d.sets[s].pr \in ids}
             b == [a EXCEPT !.patches = patches]
             sets == Keep(d.sets, {s \in DOMAIN d.sets : d.sets[s].pr \notin ids})
             c == [b EXCEPT !.sets = sets]
             prs == Keep(d.prs, DOMAIN d.prs \ ids)
             e == [c EXCEPT !.prs = prs]
  <1>1. logs \in SUBSET Entry /\ patches \in SUBSET [set : Nat, key : Nat]
    BY Fields
  <1>2. sets \in Tables([pr : Nat, key : Nat]) /\ prs \in Tables(Row)
    BY Fields, KeepIs
  <1>3. patches = {p \in d.patches : ~ (p.set \in DOMAIN d.sets /\ d.sets[p.set].pr \in ids)}
    OBVIOUS
  <1>4. DropLogsOf(d, ids) = a
    BY DEF DropLogsOf, Database
  <1> HIDE DEF logs, patches, sets, prs
  <1>5. /\ a \in Database /\ a.sets = d.sets /\ a.prs = d.prs /\ a.patches = d.patches
    BY <1>1 DEF Database
  <1>6. DropPatchesOf(a, ids) = b
    BY <1>5 DEF DropPatchesOf, Database, patches
  <1>7. b \in Database /\ b.sets = d.sets /\ b.prs = d.prs
    BY <1>1, <1>5 DEF Database
  <1>8. DropSetsOf(b, ids) = c
    BY <1>7 DEF DropSetsOf, Database, sets
  <1>9. c \in Database /\ c.prs = d.prs
    BY <1>2, <1>7 DEF Database
  <1>10. DropRequests(d, ids) = e
    BY <1>4, <1>6, <1>8, <1>9 DEF DropRequests, Database, prs
  <1>11. /\ e \in Database
         /\ e.version = d.version /\ e.cols = d.cols /\ e.repos = d.repos
         /\ e.lastId = d.lastId /\ e.lastSet = d.lastSet
         /\ e.prs = prs /\ e.sets = sets /\ e.patches = patches /\ e.logs = logs
    BY <1>1, <1>2 DEF Database
  <1>12. QED
    BY <1>3, <1>10, <1>11 DEF prs, sets, logs
-----------------------------------------------------------------------------
(***************************************************************************)
(* The fold over the migrations, step by step.                             *)
(***************************************************************************)

Folding(seq, d, g) ==
  g = [s \in SUBSET DOMAIN seq |->
         IF s = {} THEN d ELSE Migrate(seq[Max(s)], g[s \ {Max(s)}])]

Small(m, n) == {s \in SUBSET (1 .. m) : Cardinality(s) <= n}
FoldingUpTo(seq, d, m, n, g) ==
  g = [s \in Small(m, n) |-> IF s = {} THEN d ELSE Migrate(seq[Max(s)], g[s \ {Max(s)}])]

LEMMA PartOfInterval ==
  ASSUME NEW m \in Nat, NEW s \in SUBSET (1 .. m)
  PROVE  IsFiniteSet(s) /\ Cardinality(s) \in Nat /\ Cardinality(s) <= m
  <1>1. 1 \in Int /\ m \in Int
    OBVIOUS
  <1>2. IsFiniteSet(1 .. m)
    BY <1>1, FS_Interval, Zenon
  <1>3. Cardinality(1 .. m) = (IF 1 > m THEN 0 ELSE m - 1 + 1)
    BY <1>1, FS_Interval, Zenon
  <1>4. IsFiniteSet(s) /\ Cardinality(s) <= Cardinality(1 .. m)
    BY <1>2, FS_Subset
  <1>5. Cardinality(s) \in Nat
    BY <1>4, FS_CardinalityType
  <1>6. QED
    BY <1>3, <1>4, <1>5

LEMMA OneLess ==
  ASSUME NEW m \in Nat, NEW s \in SUBSET (1 .. m), s # {}
  PROVE  /\ Max(s) \in s /\ s \ {Max(s)} \in SUBSET (1 .. m)
         /\ Cardinality(s) \in Nat /\ Cardinality(s \ {Max(s)}) = Cardinality(s) - 1
  <1>1. s \in SUBSET (0 .. m)
    OBVIOUS
  <1>2. Max(s) \in s
    BY <1>1, GreatestOf
  <1>3. IsFiniteSet(s)
    BY PartOfInterval
  <1>4. QED
    BY <1>2, <1>3, FS_CardinalityType, FS_RemoveElement

LEMMA FoldNext ==
  ASSUME NEW m \in Nat, NEW seq, NEW d, NEW n \in Nat, NEW g, FoldingUpTo(seq, d, m, n, g)
  PROVE  \E k : FoldingUpTo(seq, d, m, n + 1, k)
  <1> DEFINE Term(k, s) == IF s = {} THEN d ELSE Migrate(seq[Max(s)], k[s \ {Max(s)}])
             k == [s \in Small(m, n + 1) |-> Term(g, s)]
  <1>1. ASSUME NEW s \in Small(m, n + 1), s # {}
        PROVE  s \ {Max(s)} \in Small(m, n)
    <2>1. s \in SUBSET (1 .. m) /\ Cardinality(s) <= n + 1
      BY <1>1 DEF Small
    <2>2. /\ s \ {Max(s)} \in SUBSET (1 .. m)
          /\ Cardinality(s) \in Nat /\ Cardinality(s \ {Max(s)}) = Cardinality(s) - 1
      BY <1>1, <2>1, OneLess
    <2>3. QED
      BY <2>1, <2>2 DEF Small
  <1>2. ASSUME NEW s \in Small(m, n)
        PROVE  s \in Small(m, n + 1) /\ g[s] = Term(g, s)
    <2>1. s \in SUBSET (1 .. m) /\ Cardinality(s) <= n
      BY DEF Small
    <2>2. Cardinality(s) \in Nat
      BY <2>1, PartOfInterval
    <2>3. s \in Small(m, n + 1)
      BY <2>1, <2>2 DEF Small
    <2>4. g[s] = Term(g, s)
      BY DEF FoldingUpTo
    <2>5. QED
      BY <2>3, <2>4
  <1>3. ASSUME NEW s \in Small(m, n)
        PROVE  k[s] = g[s]
    BY <1>2
  <1>4. ASSUME NEW s \in Small(m, n + 1)
        PROVE  Term(k, s) = Term(g, s)
    <2>1. CASE s = {}
      BY <2>1
    <2>2. CASE s # {}
      <3>1. s \ {Max(s)} \in Small(m, n)
        BY <1>1, <2>2
      <3> HIDE DEF k
      <3>2. k[s \ {Max(s)}] = g[s \ {Max(s)}]
        BY <1>3, <3>1
      <3>3. QED
        BY <2>2, <3>2
    <2>3. QED
      BY <2>1, <2>2
  <1>5. k = [s \in Small(m, n + 1) |-> Term(k, s)]
    BY <1>4
  <1>6. FoldingUpTo(seq, d, m, n + 1, k)
    BY <1>5 DEF FoldingUpTo
  <1>7. QED
    BY <1>6

LEMMA FoldExists ==
  ASSUME NEW m \in Nat, NEW seq, DOMAIN seq = 1 .. m, NEW d
  PROVE  \E g : Folding(seq, d, g)
  <1> DEFINE missing == {n \in Nat : ~ \E g : FoldingUpTo(seq, d, m, n, g)}
  <1>1. missing = {}
    <2> SUFFICES ASSUME missing # {}
                 PROVE  FALSE
      OBVIOUS
    <2> DEFINE least == Min(missing)
    <2>1. least \in missing /\ \A n \in missing : least <= n
      BY LeastOf
    <2> HIDE DEF least
    <2>2. least \in Nat /\ ~ \E g : FoldingUpTo(seq, d, m, least, g)
      BY <2>1
    <2>3. CASE least = 0
      <3>1. ASSUME NEW s \in Small(m, 0)
            PROVE  s = {}
        <4>1. s \in SUBSET (1 .. m) /\ Cardinality(s) <= 0
          BY DEF Small
        <4>2. IsFiniteSet(s) /\ Cardinality(s) \in Nat
          BY <4>1, PartOfInterval
        <4>3. Cardinality(s) = 0
          BY <4>1, <4>2
        <4>4. QED
          BY <4>2, <4>3, FS_EmptySet
      <3> DEFINE g == [s \in Small(m, 0) |-> d]
      <3>2. g = [s \in Small(m, 0) |->
                   IF s = {} THEN d ELSE Migrate(seq[Max(s)], g[s \ {Max(s)}])]
        BY <3>1
      <3>3. FoldingUpTo(seq, d, m, 0, g)
        BY <3>2 DEF FoldingUpTo
      <3>4. QED
        BY <2>2, <2>3, <3>3
    <2>4. CASE least # 0
      <3>1. least - 1 \in Nat /\ least - 1 \notin missing
        BY <2>1, <2>2, <2>4
      <3>2. PICK g : FoldingUpTo(seq, d, m, least - 1, g)
        BY <3>1
      <3>3. \E k : FoldingUpTo(seq, d, m, least - 1 + 1, k)
        BY <3>1, <3>2, FoldNext
      <3>4. QED
        BY <2>2, <3>3
    <2>5. QED
      BY <2>3, <2>4
  <1>2. Small(m, m) = SUBSET (1 .. m)
    <2>1. ASSUME NEW s \in SUBSET (1 .. m)
          PROVE  Cardinality(s) <= m
      BY PartOfInterval
    <2>2. QED
      BY <2>1 DEF Small
  <1>3. PICK g : FoldingUpTo(seq, d, m, m, g)
    BY <1>1
  <1>4. Folding(seq, d, g)
    BY <1>2, <1>3 DEF FoldingUpTo, Folding
  <1>5. QED
    BY <1>4

\* A file that migrations 1 to v - 1 have seen, by the files between them.
LEMMA UpgradedBy ==
  ASSUME NEW d, NEW v \in Nat \ {0}
  PROVE  \E h : /\ h[1] = d /\ h[v] = Upgraded(d, 1, v)
                /\ \A i \in 1 .. v - 1 : h[i + 1] = Migrate(i, h[i])
  <1> DEFINE m == v - 1
             seq == [n \in 1 .. (v - 1) |-> 1 + n - 1]
             g == CHOOSE k : Folding(seq, d, k)
             h == [i \in 1 .. v |-> g[1 .. i - 1]]
  <1>1. m \in Nat /\ DOMAIN seq = 1 .. m
    OBVIOUS
  <1>2. \E k : Folding(seq, d, k)
    <2> HIDE DEF seq
    <2>1. QED
      BY <1>1, FoldExists
  <1>3. Folding(seq, d, g)
    BY <1>2
  <1>4. Upgraded(d, 1, v) = g[1 .. m]
    <2>1. Upgraded(d, 1, v) = g[DOMAIN seq]
      BY DEF Upgraded, FoldLeft, MapThenFoldSet, Folding
    <2>2. QED
      BY <1>1, <2>1
  <1>5. g[{}] = d
    BY <1>3 DEF Folding
  <1>6. ASSUME NEW i \in 1 .. m
        PROVE  g[1 .. i] = Migrate(i, g[1 .. i - 1])
    <2>1. 1 .. i \in SUBSET (0 .. m) /\ 1 .. i \in SUBSET (1 .. m) /\ 1 .. i # {}
      OBVIOUS
    <2>2. Max(1 .. i) \in 1 .. i /\ \A y \in 1 .. i : Max(1 .. i) >= y
      BY <1>1, <2>1, GreatestOf
    <2>3. Max(1 .. i) = i
      BY <2>2
    <2>4. (1 .. i) \ {i} = 1 .. i - 1
      OBVIOUS
    <2>5. seq[i] = i
      OBVIOUS
    <2> HIDE DEF seq, g
    <2>6. g[1 .. i] = Migrate(seq[Max(1 .. i)], g[(1 .. i) \ {Max(1 .. i)}])
      BY <1>1, <1>3, <2>1 DEF Folding
    <2>7. QED
      BY <2>3, <2>4, <2>5, <2>6
  <1> HIDE DEF seq, g
  <1>7. h[1] = d
    <2>1. 1 .. 1 - 1 = {}
      OBVIOUS
    <2>2. QED
      BY <1>5, <2>1
  <1>8. h[v] = Upgraded(d, 1, v)
    BY <1>4
  <1>9. ASSUME NEW i \in 1 .. v - 1
        PROVE  h[i + 1] = Migrate(i, h[i])
    <2>1. i + 1 \in 1 .. v /\ i \in 1 .. v /\ (i + 1) - 1 = i /\ i \in 1 .. m
      OBVIOUS
    <2>2. h[i + 1] = g[1 .. i] /\ h[i] = g[1 .. i - 1]
      BY <2>1
    <2>3. QED
      BY <1>6, <2>1, <2>2
  <1>10. QED
    BY <1>7, <1>8, <1>9
-----------------------------------------------------------------------------
(***************************************************************************)
(* Rows numbered anew.                                                     *)
(***************************************************************************)

LEMMA RankReached ==
  ASSUME NEW n \in Nat, NEW t, DOMAIN t \subseteq 1 .. n, NEW c \in 1 .. Cardinality(DOMAIN t)
  PROVE  \E i \in DOMAIN t : Rank(t, i) = c
  <1> DEFINE Upto(m) == {i \in DOMAIN t : i <= m}
             enough == {m \in Nat : Cardinality(Upto(m)) >= c}
             least == Min(enough)
  <1>1. ASSUME NEW m \in Nat
        PROVE  /\ Upto(m) \in SUBSET (1 .. n)
               /\ IsFiniteSet(Upto(m)) /\ Cardinality(Upto(m)) \in Nat
    BY PartOfInterval
  <1>2. Upto(n) = DOMAIN t
    OBVIOUS
  <1>3. c \in Nat /\ c >= 1 /\ n \in enough
    <2>1. Cardinality(DOMAIN t) \in Nat
      BY PartOfInterval
    <2>2. QED
      BY <1>2, <2>1
  <1>4. least \in enough /\ \A m \in enough : least <= m
    BY <1>3, LeastOf
  <1> HIDE DEF least
  <1>5. least \in Nat /\ Cardinality(Upto(least)) >= c
    BY <1>4
  <1>6. least # 0
    <2> SUFFICES ASSUME least = 0
                 PROVE  FALSE
      OBVIOUS
    <2>1. Upto(0) = {}
      OBVIOUS
    <2>2. Cardinality(Upto(0)) = 0
      BY <2>1, FS_EmptySet
    <2>3. QED
      BY <1>3, <1>5, <2>2
  <1>7. least - 1 \in Nat /\ Cardinality(Upto(least - 1)) \in Nat
        /\ Cardinality(Upto(least - 1)) < c
    <2>1. least - 1 \in Nat /\ least - 1 \notin enough
      BY <1>4, <1>5, <1>6
    <2>2. Cardinality(Upto(least - 1)) \in Nat
      BY <1>1, <2>1
    <2> HIDE DEF Upto
    <2>3. QED
      BY <1>3, <2>1, <2>2
  <1>8. CASE least \in DOMAIN t
    <2>1. Upto(least) \ {least} = Upto(least - 1) /\ least \in Upto(least)
      BY <1>5, <1>6, <1>8
    <2>2. IsFiniteSet(Upto(least)) /\ Cardinality(Upto(least)) \in Nat
      BY <1>1, <1>5
    <2> DEFINE whole == Upto(least)
               rest == Upto(least - 1)
    <2>3. whole \ {least} = rest /\ least \in whole /\ IsFiniteSet(whole)
      BY <2>1, <2>2
    <2>4. Cardinality(whole) >= c /\ Cardinality(whole) \in Nat
          /\ Cardinality(rest) < c /\ Cardinality(rest) \in Nat
      BY <1>5, <1>7, <2>2
    <2>5. Rank(t, least) = Cardinality(whole)
      BY DEF Rank
    <2> HIDE DEF whole, rest
    <2>6. Cardinality(rest) = Cardinality(whole) - 1
      BY <2>3, FS_RemoveElement
    <2>7. Cardinality(whole) = c
      BY <1>3, <2>4, <2>6
    <2>8. QED
      BY <1>8, <2>5, <2>7
  <1>9. CASE least \notin DOMAIN t
    <2>1. Upto(least) = Upto(least - 1)
      BY <1>5, <1>6, <1>9
    <2> DEFINE size == Cardinality(Upto(least))
    <2>2. size >= c /\ size < c /\ size \in Nat
      BY <1>5, <1>7, <2>1
    <2> HIDE DEF size
    <2>3. QED
      BY <1>3, <2>2
  <1>10. QED
    BY <1>8, <1>9

LEMMA RenumberedIs ==
  ASSUME NEW R, NEW t \in Tables(R), NEW n \in Nat, DOMAIN t \subseteq 1 .. n
  PROVE  /\ Cardinality(DOMAIN t) \in Nat
         /\ Renumbered(t) \in Tables(R) /\ DOMAIN Renumbered(t) = 1 .. Cardinality(DOMAIN t)
         /\ \A i \in DOMAIN Renumbered(t) : \E j \in DOMAIN t : Renumbered(t)[i] = t[j]
  <1> DEFINE size == Cardinality(DOMAIN t)
             Old(c) == CHOOSE i \in DOMAIN t : Rank(t, i) = c
  <1>1. size \in Nat
    BY PartOfInterval
  <1>2. \A c \in 1 .. size : Old(c) \in DOMAIN t
    BY RankReached
  <1>3. Renumbered(t) = [c \in 1 .. size |-> t[Old(c)]]
    BY DEF Renumbered
  <1> HIDE DEF size, Old
  <1>4. t \in [DOMAIN t -> R]
    BY TableIs
  <1>5. Renumbered(t) \in [1 .. size -> R] /\ DOMAIN Renumbered(t) = 1 .. size
    BY <1>2, <1>3, <1>4
  <1>6. Renumbered(t) \in Tables(R)
    <2>1. 1 .. size \in SUBSET Nat
      BY <1>1
    <2>2. QED
      BY <1>5, <2>1, RowsIn
  <1>7. \A i \in DOMAIN Renumbered(t) : \E j \in DOMAIN t : Renumbered(t)[i] = t[j]
    BY <1>2, <1>3, <1>5
  <1>8. QED
    BY <1>1, <1>5, <1>6, <1>7 DEF size

LEMMA RenumberedSame ==
  ASSUME NEW R, NEW t \in Tables(R), NEW n \in Nat, DOMAIN t = 1 .. n
  PROVE  Renumbered(t) = t /\ Cardinality(DOMAIN t) = n
  <1>1. \A c \in 0 .. n : Cardinality(1 .. c) = c
    <2> SUFFICES ASSUME NEW c \in 0 .. n
                 PROVE  Cardinality(1 .. c) = c
      OBVIOUS
    <2>1. 1 \in Int /\ c \in Int
      OBVIOUS
    <2>2. Cardinality(1 .. c) = (IF 1 > c THEN 0 ELSE c - 1 + 1)
      BY <2>1, FS_Interval, Zenon
    <2>3. QED
      BY <2>2
  <1>2. ASSUME NEW c \in 1 .. n
        PROVE  Rank(t, c) = c
    <2>1. {i \in DOMAIN t : i <= c} = 1 .. c
      OBVIOUS
    <2>2. Cardinality(1 .. c) = c
      BY <1>1
    <2>3. Rank(t, c) = Cardinality({i \in DOMAIN t : i <= c})
      BY DEF Rank
    <2>4. QED
      BY <2>1, <2>2, <2>3, Zenon
  <1>3. \A c \in 1 .. n : (CHOOSE i \in DOMAIN t : Rank(t, i) = c) = c
    BY <1>2
  <1>4. Cardinality(DOMAIN t) = n
    BY <1>1
  <1>5. t = [c \in 1 .. n |-> t[c]]
    BY TableIs
  <1> DEFINE Old(c) == CHOOSE i \in DOMAIN t : Rank(t, i) = c
  <1>6. Renumbered(t) = [c \in 1 .. n |-> t[Old(c)]]
    BY <1>4, Zenon DEF Renumbered
  <1>7. \A c \in 1 .. n : Old(c) = c
    BY <1>3
  <1> HIDE DEF Old
  <1>8. [c \in 1 .. n |-> t[Old(c)]] = [c \in 1 .. n |-> t[c]]
    BY <1>7
  <1>9. Renumbered(t) = t
    BY <1>5, <1>6, <1>8, Zenon
  <1>10. QED
    BY <1>4, <1>9
-----------------------------------------------------------------------------
(***************************************************************************)
(* What each migration does, table by table.                               *)
(***************************************************************************)

SameSets(d, e) == e.sets = d.sets /\ e.lastSet = d.lastSet /\ e.patches = d.patches
SameRequests(d, e) == e.prs = d.prs /\ e.lastId = d.lastId
\* The rows of patch_requests are those there were, but for columns that are
\* filled or emptied.
SameRows(d, e) ==
  /\ DOMAIN e.prs = DOMAIN d.prs
  /\ \A j \in DOMAIN d.prs :
       /\ e.prs[j].key = d.prs[j].key /\ e.prs[j].repo = d.prs[j].repo
       /\ e.prs[j].blank = d.prs[j].blank /\ e.prs[j].created = d.prs[j].created

LEMMA AddColumnIs ==
  ASSUME NEW d \in Database, NEW c \in Columns
  PROVE  LET e == AddColumn(d, c) IN
         /\ e \in Database /\ e.cols = d.cols \cup {c} /\ e.repos = d.repos /\ e.logs = d.logs
         /\ SameSets(d, e) /\ SameRequests(d, e)
  <1> DEFINE cols == d.cols \cup {c}
  <1>1. cols \in SUBSET Columns
    BY Fields
  <1> HIDE DEF cols
  <1>2. [d EXCEPT !.cols = cols] \in Database
    BY <1>1 DEF Database
  <1>3. AddColumn(d, c) = [d EXCEPT !.cols = cols]
    BY DEF AddColumn, Database, cols
  <1>4. QED
    BY <1>2, <1>3 DEF Database, SameSets, SameRequests, cols

LEMMA FillReposIs ==
  ASSUME NEW d \in Database
  PROVE  LET e == FillRepos(d) IN
         /\ e \in Database /\ e.cols = d.cols /\ e.logs = d.logs
         /\ SameSets(d, e) /\ SameRequests(d, e)
         /\ \A j \in DOMAIN d.prs : d.prs[j].repo \in e.repos
  <1> DEFINE repos == {d.prs[i].repo : i \in DOMAIN d.prs}
  <1>1. repos \in SUBSET Nat /\ \A j \in DOMAIN d.prs : d.prs[j].repo \in repos
    BY Fields DEF Row
  <1>2. FillRepos(d) = [d EXCEPT !.repos = repos]
    BY DEF FillRepos
  <1> HIDE DEF repos
  <1>3. QED
    BY <1>1, <1>2 DEF Database, SameSets, SameRequests

LEMMA CopyRequestsIs ==
  ASSUME NEW d \in Database, IdsGiven(d)
  PROVE  LET e == CopyRequests(d) IN
         /\ e \in Database /\ e.cols = d.cols \cup {"repo_ref"} /\ e.repos = d.repos
         /\ e.logs = d.logs /\ SameSets(d, e)
         /\ DOMAIN e.prs = 1 .. e.lastId
         /\ \A i \in DOMAIN e.prs : \E j \in DOMAIN d.prs : e.prs[i] = d.prs[j]
         /\ DOMAIN d.prs = 1 .. d.lastId /\ (\A j \in DOMAIN d.prs : d.prs[j].repo \in d.repos) =>
              SameRequests(d, e)
  <1> DEFINE ids == {i \in DOMAIN d.prs : d.prs[i].repo \in d.repos}
             joined == Keep(d.prs, ids)
             prs == Renumbered(joined)
             last == Cardinality(DOMAIN joined)
             cols == d.cols \cup {"repo_ref"}
             e == [d EXCEPT !.prs = prs, !.lastId = last, !.cols = cols]
  <1>1. d.prs \in Tables(Row) /\ d.lastId \in Nat /\ DOMAIN d.prs \subseteq 1 .. d.lastId
    BY Fields DEF IdsGiven
  <1>2. /\ joined \in Tables(Row) /\ DOMAIN joined = DOMAIN d.prs \cap ids
        /\ \A i \in DOMAIN d.prs \cap ids : joined[i] = d.prs[i]
    <2> HIDE DEF ids
    <2>1. QED
      BY <1>1, KeepIs
  <1>3. CopyRequests(d) = e
    BY DEF CopyRequests, Database
  <1> HIDE DEF joined, prs, last
  <1>4. DOMAIN joined \subseteq 1 .. d.lastId
    BY <1>1, <1>2
  <1>5. /\ last \in Nat /\ prs \in Tables(Row) /\ DOMAIN prs = 1 .. last
        /\ \A i \in DOMAIN prs : \E j \in DOMAIN joined : prs[i] = joined[j]
    BY <1>1, <1>2, <1>4, RenumberedIs DEF prs, last
  <1>6. \A i \in DOMAIN prs : \E j \in DOMAIN d.prs : prs[i] = d.prs[j]
    BY <1>2, <1>5
  <1>7. cols \in SUBSET Columns
    BY Fields DEF Columns
  <1>8. ASSUME DOMAIN d.prs = 1 .. d.lastId, \A j \in DOMAIN d.prs : d.prs[j].repo \in d.repos
        PROVE  prs = d.prs /\ last = d.lastId
    <2>1. ids = DOMAIN d.prs
      BY <1>8
    <2>2. joined = d.prs
      BY <1>1, <2>1, TableIs DEF joined, Keep
    <2>3. QED
      BY <1>1, <1>8, <2>2, RenumberedSame DEF prs, last
  <1> HIDE DEF cols
  <1>9. /\ e \in Database /\ e.cols = cols /\ e.repos = d.repos /\ e.logs = d.logs
        /\ e.prs = prs /\ e.lastId = last
        /\ e.sets = d.sets /\ e.lastSet = d.lastSet /\ e.patches = d.patches
    BY <1>5, <1>7 DEF Database
  <1> HIDE DEF e, ids
  <1>10. QED
    BY <1>3, <1>5, <1>6, <1>8, <1>9 DEF SameSets, SameRequests, cols

LEMMA NameReposIs ==
  ASSUME NEW d \in Database
  PROVE  LET e == NameRepos(d) IN
         /\ e \in Database /\ e.cols = d.cols /\ e.repos = d.repos /\ e.logs = d.logs
         /\ SameSets(d, e) /\ e.lastId = d.lastId /\ SameRows(d, e)
         /\ \A j \in DOMAIN d.prs :
              /\ e.prs[j].activity = d.prs[j].activity /\ e.prs[j].slug = d.prs[j].slug
              /\ d.prs[j].repo \in d.repos => e.prs[j].repoName = d.prs[j].repo
  <1> DEFINE Named(r) == [r EXCEPT !.repoName = IF r.repo \in d.repos THEN r.repo ELSE 0]
             prs == [i \in DOMAIN d.prs |-> Named(d.prs[i])]
  <1>1. \A r \in Row :
          /\ Named(r) \in Row
          /\ Named(r).key = r.key /\ Named(r).repo = r.repo /\ Named(r).blank = r.blank
          /\ Named(r).created = r.created /\ Named(r).activity = r.activity
          /\ Named(r).slug = r.slug
          /\ r.repo \in d.repos => Named(r).repoName = r.repo
    BY DEF Row
  <1>2. NameRepos(d) = [d EXCEPT !.prs = prs]
    BY DEF NameRepos, Database
  <1> HIDE DEF Named
  <1>3. \A j \in DOMAIN d.prs : d.prs[j] \in Row /\ prs[j] = Named(d.prs[j])
    BY Fields
  <1>4. prs \in Tables(Row) /\ DOMAIN prs = DOMAIN d.prs
    BY <1>1, <1>3, Fields, RowsIn
  <1> HIDE DEF prs
  <1>5. LET e == [d EXCEPT !.prs = prs] IN
        /\ e \in Database /\ e.cols = d.cols /\ e.repos = d.repos /\ e.logs = d.logs
        /\ SameSets(d, e) /\ e.lastId = d.lastId /\ e.prs = prs
    BY <1>4 DEF Database, SameSets
  <1>6. QED
    BY <1>1, <1>2, <1>3, <1>4, <1>5 DEF SameRows

LEMMA FillActivityIs ==
  ASSUME NEW d \in Database, NEW times, \A j \in DOMAIN d.prs : times[j] \in Nat
  PROVE  LET e == FillActivity(d, times) IN
         /\ e \in Database /\ e.cols = d.cols /\ e.repos = d.repos /\ e.logs = d.logs
         /\ SameSets(d, e) /\ e.lastId = d.lastId /\ SameRows(d, e)
         /\ \A j \in DOMAIN d.prs :
              /\ e.prs[j].repoName = d.prs[j].repoName /\ e.prs[j].slug = d.prs[j].slug
              /\ e.prs[j].activity =
                   IF d.prs[j].activity = 0 THEN times[j] ELSE d.prs[j].activity
  <1> DEFINE Filled(r, t) == IF r.activity = 0 THEN [r EXCEPT !.activity = t] ELSE r
             prs == [i \in DOMAIN d.prs |-> Filled(d.prs[i], times[i])]
  <1>1. \A r \in Row, t \in Nat :
          /\ Filled(r, t) \in Row
          /\ Filled(r, t).key = r.key /\ Filled(r, t).repo = r.repo
          /\ Filled(r, t).blank = r.blank /\ Filled(r, t).created = r.created
          /\ Filled(r, t).repoName = r.repoName /\ Filled(r, t).slug = r.slug
          /\ Filled(r, t).activity = IF r.activity = 0 THEN t ELSE r.activity
    BY DEF Row
  <1>2. FillActivity(d, times) = [d EXCEPT !.prs = prs]
    BY DEF FillActivity, Database
  <1> HIDE DEF Filled
  <1>3. \A j \in DOMAIN d.prs : d.prs[j] \in Row /\ prs[j] = Filled(d.prs[j], times[j])
    BY Fields
  <1>4. prs \in Tables(Row) /\ DOMAIN prs = DOMAIN d.prs
    BY <1>1, <1>3, Fields, RowsIn
  <1> HIDE DEF prs
  <1>5. LET e == [d EXCEPT !.prs = prs] IN
        /\ e \in Database /\ e.cols = d.cols /\ e.repos = d.repos /\ e.logs = d.logs
        /\ SameSets(d, e) /\ e.lastId = d.lastId /\ e.prs = prs
    BY <1>4 DEF Database, SameSets
  <1>6. QED
    BY <1>1, <1>2, <1>3, <1>4, <1>5 DEF SameRows

LEMMA DropReposIs ==
  ASSUME NEW d \in Database
  PROVE  LET e == [d EXCEPT !.repos = {}, !.cols = @ \ {"repos"}] IN
         /\ e \in Database /\ e.cols = d.cols \ {"repos"} /\ e.logs = d.logs
         /\ SameSets(d, e) /\ SameRequests(d, e)
  <1> DEFINE cols == d.cols \ {"repos"}
  <1>1. cols \in SUBSET Columns /\ {} \in SUBSET Nat
    BY Fields
  <1> HIDE DEF cols
  <1>2. LET e == [d EXCEPT !.repos = {}, !.cols = cols] IN
        e \in Database /\ e.cols = cols /\ e.logs = d.logs /\ SameSets(d, e) /\ SameRequests(d, e)
    BY <1>1 DEF Database, SameSets, SameRequests
  <1>3. [d EXCEPT !.repos = {}, !.cols = @ \ {"repos"}] = [d EXCEPT !.repos = {}, !.cols = cols]
    BY DEF Database, cols
  <1>4. QED
    BY <1>2, <1>3 DEF cols

LEMMA DropColumnsIs ==
  ASSUME NEW d \in Database, NEW dropped
  PROVE  LET e == [d EXCEPT !.cols = @ \ dropped] IN
         /\ e \in Database /\ e.cols = d.cols \ dropped /\ e.repos = d.repos /\ e.logs = d.logs
         /\ SameSets(d, e) /\ SameRequests(d, e)
  <1> DEFINE cols == d.cols \ dropped
  <1>1. cols \in SUBSET Columns
    BY Fields
  <1> HIDE DEF cols
  <1>2. LET e == [d EXCEPT !.cols = cols] IN
        /\ e \in Database /\ e.cols = cols /\ e.repos = d.repos /\ e.logs = d.logs
        /\ SameSets(d, e) /\ SameRequests(d, e)
    BY <1>1 DEF Database, SameSets, SameRequests
  <1>3. [d EXCEPT !.cols = @ \ dropped] = [d EXCEPT !.cols = cols]
    BY DEF Database, cols
  <1>4. QED
    BY <1>2, <1>3 DEF cols

LEMMA RebuildRequestsIs ==
  ASSUME NEW d \in Database, IdsGiven(d), NEW dropped, "slug" \in dropped
  PROVE  LET e == RebuildRequests(d, dropped) IN
         /\ e \in Database /\ e.cols = d.cols \ dropped /\ e.repos = d.repos /\ e.logs = d.logs
         /\ SameSets(d, e) /\ SameRows(d, e) /\ DOMAIN e.prs \subseteq 1 .. e.lastId
         /\ \A j \in DOMAIN d.prs :
              /\ e.prs[j].repoName = d.prs[j].repoName
              /\ e.prs[j].activity = d.prs[j].activity /\ e.prs[j].slug = 0
  <1> DEFINE Unnamed(r) == [r EXCEPT !.slug = 0]
             prs == [i \in DOMAIN d.prs |-> Unnamed(d.prs[i])]
             cols == d.cols \ dropped
             last == MaxOr0(DOMAIN d.prs)
  <1>1. \A r \in Row :
          /\ Unnamed(r) \in Row
          /\ Unnamed(r).key = r.key /\ Unnamed(r).repo = r.repo
          /\ Unnamed(r).blank = r.blank /\ Unnamed(r).created = r.created
          /\ Unnamed(r).repoName = r.repoName /\ Unnamed(r).activity = r.activity
          /\ Unnamed(r).slug = 0
    BY DEF Row
  <1>2. RebuildRequests(d, dropped) = [d EXCEPT !.lastId = last, !.cols = cols, !.prs = prs]
    BY DEF RebuildRequests, Database
  <1> HIDE DEF Unnamed
  <1>3. \A j \in DOMAIN d.prs : d.prs[j] \in Row /\ prs[j] = Unnamed(d.prs[j])
    BY Fields
  <1>4. prs \in Tables(Row) /\ DOMAIN prs = DOMAIN d.prs
    BY <1>1, <1>3, Fields, RowsIn
  <1>5. last \in Nat /\ DOMAIN d.prs \subseteq 1 .. last
    <2>1. d.lastId \in Nat /\ DOMAIN d.prs \in SUBSET (1 .. d.lastId)
      BY Fields DEF IdsGiven
    <2>2. last \in 0 .. d.lastId /\ DOMAIN d.prs \subseteq 1 .. last
      BY <2>1, MaxOr0Is
    <2>3. QED
      BY <2>1, <2>2
  <1>6. cols \in SUBSET Columns
    BY Fields
  <1> HIDE DEF prs, last, cols
  <1>7. LET e == [d EXCEPT !.lastId = last, !.cols = cols, !.prs = prs] IN
        /\ e \in Database /\ e.cols = cols /\ e.repos = d.repos /\ e.logs = d.logs
        /\ SameSets(d, e) /\ e.lastId = last /\ e.prs = prs
    BY <1>4, <1>5, <1>6 DEF Database, SameSets
  <1>8. QED
    BY <1>1, <1>2, <1>3, <1>4, <1>5, <1>7 DEF SameRows, cols

LEMMA DropStatusIs ==
  ASSUME NEW d \in Database, IdsGiven(d)
  PROVE  LET e == DropStatus(d) IN
         /\ e \in Database /\ e.cols = d.cols \ {"status", "slug"}
         /\ e.logs = {x \in d.logs : x.kind # "pr_status_changed"}
         /\ SameSets(d, e) /\ SameRows(d, e) /\ DOMAIN e.prs \subseteq 1 .. e.lastId
         /\ \A j \in DOMAIN d.prs :
              /\ e.prs[j].repoName = d.prs[j].repoName
              /\ e.prs[j].activity = d.prs[j].activity /\ e.prs[j].slug = 0
  <1> DEFINE c == RebuildRequests(d, {"status", "slug"})
             logs == {x \in d.logs : x.kind # "pr_status_changed"}
             e == [c EXCEPT !.logs = logs]
  <1>1. /\ c \in Database /\ c.cols = d.cols \ {"status", "slug"} /\ c.logs = d.logs
        /\ SameSets(d, c) /\ SameRows(d, c) /\ DOMAIN c.prs \subseteq 1 .. c.lastId
        /\ \A j \in DOMAIN d.prs :
             /\ c.prs[j].repoName = d.prs[j].repoName
             /\ c.prs[j].activity = d.prs[j].activity /\ c.prs[j].slug = 0
    BY RebuildRequestsIs
  <1> HIDE DEF c
  <1>2. logs \in SUBSET Entry
    BY Fields
  <1>3. DropStatus(d) = e
    BY <1>1 DEF DropStatus, Database, c
  <1> HIDE DEF logs
  <1>4. /\ e \in Database /\ e.cols = c.cols /\ e.logs = logs
        /\ SameSets(c, e) /\ SameRequests(c, e)
    BY <1>1, <1>2 DEF Database, SameSets, SameRequests
  <1> HIDE DEF e
  <1>5. QED
    BY <1>1, <1>3, <1>4 DEF SameSets, SameRequests, SameRows, logs

LEMMA FillSlugsIs ==
  ASSUME NEW d \in Database
  PROVE  LET e == FillSlugs(d) IN
         /\ e \in Database /\ e.cols = d.cols \cup {"slug"} /\ e.repos = d.repos
         /\ e.logs = d.logs
         /\ SameSets(d, e) /\ e.lastId = d.lastId /\ SameRows(d, e)
         /\ \A j \in DOMAIN d.prs :
              /\ e.prs[j].repoName = d.prs[j].repoName
              /\ e.prs[j].activity = d.prs[j].activity
              /\ e.prs[j].slug = IF d.prs[j].slug = 0 THEN j ELSE d.prs[j].slug
  <1> DEFINE Named(r, i) == IF r.slug = 0 THEN [r EXCEPT !.slug = i] ELSE r
             prs == [i \in DOMAIN d.prs |-> Named(d.prs[i], i)]
             cols == d.cols \cup {"slug"}
  <1>1. \A r \in Row, i \in Nat :
          /\ Named(r, i) \in Row
          /\ Named(r, i).key = r.key /\ Named(r, i).repo = r.repo
          /\ Named(r, i).blank = r.blank /\ Named(r, i).created = r.created
          /\ Named(r, i).repoName = r.repoName /\ Named(r, i).activity = r.activity
          /\ Named(r, i).slug = IF r.slug = 0 THEN i ELSE r.slug
    BY DEF Row
  <1>2. FillSlugs(d) = [d EXCEPT !.prs = prs, !.cols = cols]
    BY DEF FillSlugs, Database
  <1> HIDE DEF Named
  <1>3. \A j \in DOMAIN d.prs : j \in Nat /\ d.prs[j] \in Row /\ prs[j] = Named(d.prs[j], j)
    BY Fields
  <1>4. prs \in Tables(Row) /\ DOMAIN prs = DOMAIN d.prs
    BY <1>1, <1>3, Fields, RowsIn
  <1>5. cols \in SUBSET Columns
    BY Fields DEF Columns
  <1> HIDE DEF prs, cols
  <1>6. LET e == [d EXCEPT !.prs = prs, !.cols = cols] IN
        /\ e \in Database /\ e.cols = cols /\ e.repos = d.repos /\ e.logs = d.logs
        /\ SameSets(d, e) /\ e.lastId = d.lastId /\ e.prs = prs
    BY <1>4, <1>5 DEF Database, SameSets
  <1>7. QED
    BY <1>1, <1>2, <1>3, <1>4, <1>6 DEF SameRows, cols
-----------------------------------------------------------------------------
(***************************************************************************)
(* Each migration takes a database to the next stage.                      *)
(***************************************************************************)

LEMMA MigrateIs ==
  ASSUME NEW d
  PROVE  /\ Migrate(1, d) = AddColumn(d, "base_commit_sha")
         /\ Migrate(2, d) = d
         /\ Migrate(3, d) = AddColumn(d, "repos")
         /\ Migrate(4, d) = FillRepos(d)
         /\ Migrate(5, d) = CopyRequests(d)
         /\ Migrate(6, d) = AddColumn(d, "event_repo_ref")
         /\ Migrate(7, d) = AddColumn(d, "repo_name")
         /\ Migrate(8, d) = NameRepos(d)
         /\ Migrate(9, d) = DropOrphans(d)
         /\ Migrate(10, d) = AddColumn(d, "last_activity")
         /\ Migrate(11, d) = ActivityFromLogs(d)
         /\ Migrate(12, d) = ActivityFromCreation(d)
         /\ Migrate(13, d) = d
         /\ Migrate(14, d) = [d EXCEPT !.repos = {}, !.cols = @ \ {"repos"}]
         /\ Migrate(15, d) = RebuildRequests(d, {"repo", "repo_ref", "slug"})
         /\ Migrate(16, d) = [d EXCEPT !.cols = @ \ {"event_repo", "event_repo_ref"}]
         /\ Migrate(17, d) = d
         /\ Migrate(18, d) = DropUntitled(d)
         /\ Migrate(19, d) = DropStatus(d)
         /\ Migrate(20, d) = FillSlugs(d)
  <1>1. Migrate(1, d) = AddColumn(d, "base_commit_sha") /\ Migrate(2, d) = d
    BY DEF Migrate
  <1>2. Migrate(3, d) = AddColumn(d, "repos") /\ Migrate(4, d) = FillRepos(d)
    BY DEF Migrate
  <1>3. Migrate(5, d) = CopyRequests(d) /\ Migrate(6, d) = AddColumn(d, "event_repo_ref")
    BY DEF Migrate
  <1>4. Migrate(7, d) = AddColumn(d, "repo_name") /\ Migrate(8, d) = NameRepos(d)
    BY DEF Migrate
  <1>5. Migrate(9, d) = DropOrphans(d) /\ Migrate(10, d) = AddColumn(d, "last_activity")
    BY DEF Migrate
  <1>6. Migrate(11, d) = ActivityFromLogs(d) /\ Migrate(12, d) = ActivityFromCreation(d)
    BY DEF Migrate
  <1>7. Migrate(13, d) = d /\ Migrate(17, d) = d
    BY DEF Migrate
  <1>8. Migrate(14, d) = [d EXCEPT !.repos = {}, !.cols = @ \ {"repos"}]
    BY DEF Migrate
  <1>9. Migrate(15, d) = RebuildRequests(d, {"repo", "repo_ref", "slug"})
    BY DEF Migrate
  <1>10. Migrate(16, d) = [d EXCEPT !.cols = @ \ {"event_repo", "event_repo_ref"}]
    BY DEF Migrate
  <1>11. Migrate(18, d) = DropUntitled(d) /\ Migrate(19, d) = DropStatus(d)
    BY DEF Migrate
  <1>12. Migrate(20, d) = FillSlugs(d)
    BY DEF Migrate
  <1>13. QED
    BY <1>1, <1>2, <1>3, <1>4, <1>5, <1>6, <1>7, <1>8, <1>9, <1>10, <1>11, <1>12

LEMMA TimesOf ==
  ASSUME NEW d \in Database, TimesEnd(d), NEW j
  PROVE  /\ MaxOr0(LogTimes(d, j)) \in LogTimes(d, j) \cup {0}
         /\ MaxOr0(LogTimes(d, j)) \in Nat
         /\ \A t \in LogTimes(d, j) : t <= MaxOr0(LogTimes(d, j))
  <1> DEFINE T == LogTimes(d, j) \cup {0}
  <1>1. PICK n \in Nat : \A x \in d.logs : x.at <= n
    BY DEF TimesEnd
  <1>2. \A x \in d.logs : x.at \in 0 .. n
    BY <1>1, Fields DEF Entry
  <1>3. LogTimes(d, j) \in SUBSET (0 .. n)
    BY <1>2 DEF LogTimes
  <1>4. T \in SUBSET (0 .. n) /\ T # {}
    BY <1>3
  <1>5. MaxOr0(LogTimes(d, j)) = Max(T)
    BY DEF MaxOr0
  <1> HIDE DEF T
  <1>6. Max(T) \in T /\ \A y \in T : Max(T) >= y
    BY <1>4, GreatestOf
  <1>7. \A y \in T : y \in Nat
    BY <1>4
  <1>8. QED
    BY <1>5, <1>6, <1>7 DEF T

LEMMA DropSound ==
  ASSUME NEW i \in 1 .. Current, NEW d, Sound(i, d), NEW ids
  PROVE  Sound(i, DropRequests(d, ids))
  <1> DEFINE e == DropRequests(d, ids)
  <1>1. d \in Database /\ IdsGiven(d) /\ ColumnsAre(i, d) /\ RowsFilled(i, d)
        /\ TimesEnd(d)
    BY DEF Sound
  <1>2. /\ e \in Database /\ e.cols = d.cols /\ e.lastId = d.lastId /\ e.lastSet = d.lastSet
        /\ e.prs = Keep(d.prs, DOMAIN d.prs \ ids)
        /\ e.sets = Keep(d.sets, {s \in DOMAIN d.sets : d.sets[s].pr \notin ids})
        /\ e.logs = {x \in d.logs : x.pr \notin ids}
    BY <1>1, DropIs
  <1> HIDE DEF e
  <1>3. DOMAIN e.prs \subseteq DOMAIN d.prs /\ \A j \in DOMAIN e.prs : e.prs[j] = d.prs[j]
    BY <1>2 DEF Keep
  <1>4. DOMAIN e.sets \subseteq DOMAIN d.sets
    BY <1>2 DEF Keep
  <1>5. IdsGiven(e)
    BY <1>1, <1>2, <1>3, <1>4 DEF IdsGiven
  <1>6. ColumnsAre(i, e)
    BY <1>1, <1>2 DEF ColumnsAre
  <1>7. RowsFilled(i, e)
    BY <1>1, <1>3 DEF RowsFilled, NotNull, NoNameTwice
  <1>8. TimesEnd(e)
    BY <1>1, <1>2 DEF TimesEnd
  <1>9. QED
    BY <1>2, <1>5, <1>6, <1>7, <1>8 DEF e, Sound

LEMMA FilledStep ==
  ASSUME NEW i \in 1 .. 20, i \notin {9, 12, 19, 20}, NEW d, RowsFilled(i, d),
         NEW e, DOMAIN e.prs = DOMAIN d.prs,
         i >= 10 => \A j \in DOMAIN d.prs : e.prs[j].repoName = d.prs[j].repoName,
         i >= 13 => \A j \in DOMAIN d.prs : e.prs[j].activity = d.prs[j].activity,
         \A j \in DOMAIN d.prs : d.prs[j].slug = 0 => e.prs[j].slug = 0
  PROVE  RowsFilled(i + 1, e)
  <1>1. i + 1 >= 10 => NotNull(e, "repoName")
    <2>1. i + 1 >= 10 => i >= 10 /\ NotNull(d, "repoName")
      BY DEF RowsFilled
    <2>2. QED
      BY <2>1 DEF NotNull
  <1>2. i + 1 >= 13 => NotNull(e, "activity")
    <2>1. i + 1 >= 13 => i >= 13 /\ NotNull(d, "activity")
      BY DEF RowsFilled
    <2>2. QED
      BY <2>1 DEF NotNull
  <1>3. i + 1 <= 20 /\ i + 1 \notin {18, 19} => i <= 20 /\ i \notin {18, 19}
    OBVIOUS
  <1>4. i + 1 <= 20 /\ i + 1 \notin {18, 19} => \A j \in DOMAIN e.prs : e.prs[j].slug = 0
    BY <1>3 DEF RowsFilled
  <1>5. i + 1 # 21
    OBVIOUS
  <1>6. QED
    BY <1>1, <1>2, <1>4, <1>5 DEF RowsFilled

\* Migrations that leave the rows alone.
LEMMA PlainSound ==
  ASSUME NEW i \in 1 .. 20, i \notin {9, 12, 19, 20}, NEW d, Sound(i, d),
         NEW e \in Database, SameRequests(d, e), SameSets(d, e), e.logs = d.logs,
         ColumnsAre(i + 1, e)
  PROVE  Sound(i + 1, e)
  <1>1. RowsFilled(i + 1, e)
    BY FilledStep DEF Sound, SameRequests
  <1>2. IdsGiven(e) /\ TimesEnd(e)
    BY DEF Sound, IdsGiven, SameRequests, SameSets, TimesEnd
  <1>3. QED
    BY <1>1, <1>2 DEF Sound

LEMMA AddColumnSound ==
  ASSUME NEW i \in {1, 3, 6, 7, 10}, NEW d, Sound(i, d)
  PROVE  Sound(i + 1, Migrate(i, d))
  <1> DEFINE e == Migrate(i, d)
  <1>1. d \in Database /\ ColumnsAre(i, d)
    BY DEF Sound
  <1> DEFINE c == IF i = 1 THEN "base_commit_sha" ELSE IF i = 3 THEN "repos"
                  ELSE IF i = 6 THEN "event_repo_ref" ELSE IF i = 7 THEN "repo_name"
                  ELSE "last_activity"
  <1>2. c \in Columns /\ e = AddColumn(d, c)
    <2>1. i = 1 => e = AddColumn(d, c)
      BY MigrateIs
    <2>2. i = 3 => e = AddColumn(d, c)
      BY MigrateIs
    <2>3. i = 6 => e = AddColumn(d, c)
      BY MigrateIs
    <2>4. i = 7 => e = AddColumn(d, c)
      BY MigrateIs
    <2>5. i = 10 => e = AddColumn(d, c)
      BY MigrateIs
    <2>6. c \in Columns
      BY DEF Columns
    <2>7. QED
      BY <2>1, <2>2, <2>3, <2>4, <2>5, <2>6
  <1> HIDE DEF e
  <1>3. /\ e \in Database /\ e.cols = d.cols \cup {c} /\ e.logs = d.logs
        /\ SameSets(d, e) /\ SameRequests(d, e)
    BY <1>1, <1>2, AddColumnIs, Zenon
  <1>4. ColumnsAre(i + 1, e)
    BY <1>1, <1>2, <1>3 DEF ColumnsAre
  <1>5. QED
    BY <1>3, <1>4, PlainSound DEF e

LEMMA SoundStep ==
  ASSUME NEW i \in 1 .. 20, NEW d, Sound(i, d)
  PROVE  Sound(i + 1, Migrate(i, d))
  <1> DEFINE e == Migrate(i, d)
  <1>1. /\ d \in Database /\ IdsGiven(d) /\ ColumnsAre(i, d) /\ RowsFilled(i, d)
        /\ TimesEnd(d)
    BY DEF Sound
  <1>2. CASE i \in {1, 3, 6, 7, 10}
    BY <1>2, AddColumnSound
  <1>3. CASE i \in {2, 13, 17}
    <2>1. e = d
      BY <1>3, MigrateIs
    <2>2. ColumnsAre(i + 1, d)
      BY <1>1, <1>3 DEF ColumnsAre
    <2>3. SameRequests(d, d) /\ SameSets(d, d)
      BY DEF SameRequests, SameSets
    <2>4. QED
      BY <1>1, <1>3, <2>1, <2>2, <2>3, PlainSound
  <1>4. CASE i = 4
    <2>1. e = FillRepos(d)
      BY <1>4, MigrateIs
    <2> HIDE DEF e
    <2>2. /\ e \in Database /\ e.cols = d.cols /\ e.logs = d.logs
          /\ SameSets(d, e) /\ SameRequests(d, e)
      BY <1>1, <2>1, FillReposIs
    <2>3. ColumnsAre(i + 1, e)
      BY <1>1, <1>4, <2>2 DEF ColumnsAre
    <2>4. QED
      BY <1>4, <2>2, <2>3, PlainSound DEF e
  <1>5. CASE i = 5
    <2>1. e = CopyRequests(d)
      BY <1>5, MigrateIs
    <2> HIDE DEF e
    <2>2. /\ e \in Database /\ e.cols = d.cols \cup {"repo_ref"} /\ e.logs = d.logs
          /\ SameSets(d, e) /\ DOMAIN e.prs = 1 .. e.lastId
          /\ \A k \in DOMAIN e.prs : \E j \in DOMAIN d.prs : e.prs[k] = d.prs[j]
      BY <1>1, <2>1, CopyRequestsIs
    <2>3. ColumnsAre(i + 1, e)
      BY <1>1, <1>5, <2>2 DEF ColumnsAre
    <2>4. \A j \in DOMAIN d.prs : d.prs[j].slug = 0
      BY <1>1, <1>5 DEF RowsFilled
    <2>5. \A k \in DOMAIN e.prs : e.prs[k].slug = 0
      BY <2>2, <2>4
    <2>6. RowsFilled(i + 1, e)
      BY <1>5, <2>5 DEF RowsFilled
    <2>7. IdsGiven(e) /\ TimesEnd(e)
      BY <1>1, <2>2 DEF IdsGiven, SameSets, TimesEnd
    <2>8. QED
      BY <2>2, <2>3, <2>6, <2>7 DEF Sound, e
  <1>6. CASE i = 8
    <2>1. e = NameRepos(d)
      BY <1>6, MigrateIs
    <2> HIDE DEF e
    <2>2. /\ e \in Database /\ e.cols = d.cols /\ e.logs = d.logs
          /\ SameSets(d, e) /\ e.lastId = d.lastId /\ SameRows(d, e)
          /\ \A j \in DOMAIN d.prs : e.prs[j].slug = d.prs[j].slug
      BY <1>1, <2>1, NameReposIs
    <2>3. ColumnsAre(i + 1, e)
      BY <1>1, <1>6, <2>2 DEF ColumnsAre
    <2>4. RowsFilled(i + 1, e)
      BY <1>1, <1>6, <2>2, FilledStep DEF SameRows
    <2>5. IdsGiven(e) /\ TimesEnd(e)
      BY <1>1, <2>2 DEF IdsGiven, SameSets, SameRows, TimesEnd
    <2>6. QED
      BY <2>2, <2>3, <2>4, <2>5 DEF Sound, e
  <1>7. CASE i \in {9, 18}
    <2> DEFINE gone == IF i = 9 THEN {j \in DOMAIN d.prs : d.prs[j].repoName = 0}
                       ELSE {j \in DOMAIN d.prs : d.prs[j].blank}
    <2>1. e = DropRequests(d, gone)
      <3>1. CASE i = 9
        <4>1. gone = {j \in DOMAIN d.prs : d.prs[j].repoName = 0}
          BY <3>1
        <4>2. e = DropOrphans(d)
          BY <3>1, MigrateIs
        <4> HIDE DEF e, gone
        <4>3. QED
          BY <4>1, <4>2 DEF DropOrphans
      <3>2. CASE i = 18
        <4>1. gone = {j \in DOMAIN d.prs : d.prs[j].blank}
          BY <3>2
        <4>2. e = DropUntitled(d)
          BY <3>2, MigrateIs
        <4> HIDE DEF e, gone
        <4>3. QED
          BY <4>1, <4>2 DEF DropUntitled
      <3>3. QED
        BY <1>7, <3>1, <3>2
    <2>2. i = 9 => \A j \in DOMAIN d.prs \ gone : d.prs[j].repoName # 0
      OBVIOUS
    <2> HIDE DEF e, gone
    <2>3. Sound(i, e)
      BY <2>1, DropSound DEF Current
    <2>4. e.prs = Keep(d.prs, DOMAIN d.prs \ gone)
      BY <1>1, <2>1, DropIs
    <2>5. i = 9 => NotNull(e, "repoName")
      BY <2>2, <2>4 DEF Keep, NotNull
    <2>6. RowsFilled(i + 1, e)
      BY <1>7, <2>3, <2>5 DEF Sound, RowsFilled
    <2>7. ColumnsAre(i + 1, e)
      BY <1>7, <2>3 DEF Sound, ColumnsAre
    <2>8. QED
      BY <2>3, <2>6, <2>7 DEF Sound, e
  <1>8. CASE i \in {11, 12}
    <2> DEFINE times == IF i = 11 THEN [j \in DOMAIN d.prs |-> MaxOr0(LogTimes(d, j))]
                        ELSE [j \in DOMAIN d.prs |-> d.prs[j].created]
    <2>1. e = FillActivity(d, times)
      <3>1. CASE i = 11
        <4>1. times = [j \in DOMAIN d.prs |-> MaxOr0(LogTimes(d, j))]
          BY <3>1
        <4>2. e = ActivityFromLogs(d)
          BY <3>1, MigrateIs
        <4> HIDE DEF e, times
        <4>3. QED
          BY <4>1, <4>2 DEF ActivityFromLogs
      <3>2. CASE i = 12
        <4>1. times = [j \in DOMAIN d.prs |-> d.prs[j].created]
          BY <3>2
        <4>2. e = ActivityFromCreation(d)
          BY <3>2, MigrateIs
        <4> HIDE DEF e, times
        <4>3. QED
          BY <4>1, <4>2 DEF ActivityFromCreation
      <3>3. QED
        BY <1>8, <3>1, <3>2
    <2>2. \A j \in DOMAIN d.prs : MaxOr0(LogTimes(d, j)) \in Nat
      BY <1>1, TimesOf
    <2>3. \A j \in DOMAIN d.prs : d.prs[j].created \in Nat \ {0}
      BY <1>1, Fields DEF Row
    <2>4. /\ \A j \in DOMAIN d.prs : times[j] \in Nat
          /\ i = 12 => \A j \in DOMAIN d.prs : times[j] # 0
      BY <2>2, <2>3
    <2> HIDE DEF e, times
    <2>5. /\ e \in Database /\ e.cols = d.cols /\ e.logs = d.logs
          /\ SameSets(d, e) /\ e.lastId = d.lastId /\ SameRows(d, e)
          /\ \A j \in DOMAIN d.prs :
               /\ e.prs[j].repoName = d.prs[j].repoName /\ e.prs[j].slug = d.prs[j].slug
               /\ e.prs[j].activity =
                    IF d.prs[j].activity = 0 THEN times[j] ELSE d.prs[j].activity
      BY <1>1, <2>1, <2>4, FillActivityIs
    <2>6. i = 12 => NotNull(e, "activity")
      BY <2>4, <2>5 DEF NotNull, SameRows
    <2>7. ColumnsAre(i + 1, e)
      BY <1>1, <1>8, <2>5 DEF ColumnsAre
    <2>8. RowsFilled(i + 1, e)
      BY <1>1, <1>8, <2>5, <2>6 DEF RowsFilled, SameRows, NotNull
    <2>9. IdsGiven(e) /\ TimesEnd(e)
      BY <1>1, <2>5 DEF IdsGiven, SameSets, SameRows, TimesEnd
    <2>10. QED
      BY <2>5, <2>7, <2>8, <2>9 DEF Sound, e
  <1>9. CASE i = 14
    <2>1. e = [d EXCEPT !.repos = {}, !.cols = @ \ {"repos"}]
      BY <1>9, MigrateIs
    <2> HIDE DEF e
    <2>2. /\ e \in Database /\ e.cols = d.cols \ {"repos"} /\ e.logs = d.logs
          /\ SameSets(d, e) /\ SameRequests(d, e)
      BY <1>1, <2>1, DropReposIs
    <2>3. ColumnsAre(i + 1, e)
      BY <1>1, <1>9, <2>2 DEF ColumnsAre
    <2>4. QED
      BY <1>9, <2>2, <2>3, PlainSound DEF e
  <1>10. CASE i = 15
    <2>1. e = RebuildRequests(d, {"repo", "repo_ref", "slug"})
      BY <1>10, MigrateIs
    <2> HIDE DEF e
    <2>2. /\ e \in Database /\ e.cols = d.cols \ {"repo", "repo_ref", "slug"}
          /\ e.logs = d.logs
          /\ SameSets(d, e) /\ SameRows(d, e) /\ DOMAIN e.prs \subseteq 1 .. e.lastId
          /\ \A j \in DOMAIN d.prs :
               /\ e.prs[j].repoName = d.prs[j].repoName
               /\ e.prs[j].activity = d.prs[j].activity /\ e.prs[j].slug = 0
      BY <1>1, <2>1, RebuildRequestsIs
    <2>3. ColumnsAre(i + 1, e)
      BY <1>1, <1>10, <2>2 DEF ColumnsAre
    <2>4. RowsFilled(i + 1, e)
      BY <1>1, <1>10, <2>2, FilledStep DEF SameRows
    <2>5. IdsGiven(e) /\ TimesEnd(e)
      BY <1>1, <2>2 DEF IdsGiven, SameSets, TimesEnd
    <2>6. QED
      BY <2>2, <2>3, <2>4, <2>5 DEF Sound, e
  <1>11. CASE i = 16
    <2>1. e = [d EXCEPT !.cols = @ \ {"event_repo", "event_repo_ref"}]
      BY <1>11, MigrateIs
    <2> HIDE DEF e
    <2>2. /\ e \in Database /\ e.cols = d.cols \ {"event_repo", "event_repo_ref"}
          /\ e.logs = d.logs
          /\ SameSets(d, e) /\ SameRequests(d, e)
      BY <1>1, <2>1, DropColumnsIs
    <2>3. ColumnsAre(i + 1, e)
      BY <1>1, <1>11, <2>2 DEF ColumnsAre
    <2>4. QED
      BY <1>11, <2>2, <2>3, PlainSound DEF e
  <1>12. CASE i = 19
    <2>1. e = DropStatus(d)
      BY <1>12, MigrateIs
    <2> HIDE DEF e
    <2>2. /\ e \in Database /\ e.cols = d.cols \ {"status", "slug"}
          /\ e.logs = {x \in d.logs : x.kind # "pr_status_changed"}
          /\ SameSets(d, e) /\ SameRows(d, e) /\ DOMAIN e.prs \subseteq 1 .. e.lastId
          /\ \A j \in DOMAIN d.prs :
               /\ e.prs[j].repoName = d.prs[j].repoName
               /\ e.prs[j].activity = d.prs[j].activity /\ e.prs[j].slug = 0
      BY <1>1, <2>1, DropStatusIs
    <2>3. ColumnsAre(i + 1, e)
      BY <1>1, <1>12, <2>2 DEF ColumnsAre
    <2>4. RowsFilled(i + 1, e)
      BY <1>1, <1>12, <2>2 DEF RowsFilled, SameRows, NotNull
    <2>5. IdsGiven(e) /\ TimesEnd(e)
      BY <1>1, <2>2 DEF IdsGiven, SameSets, TimesEnd
    <2>6. QED
      BY <2>2, <2>3, <2>4, <2>5 DEF Sound, e
  <1>13. CASE i = 20
    <2>1. e = FillSlugs(d)
      BY <1>13, MigrateIs
    <2> HIDE DEF e
    <2>2. /\ e \in Database /\ e.cols = d.cols \cup {"slug"} /\ e.logs = d.logs
          /\ SameSets(d, e) /\ e.lastId = d.lastId /\ SameRows(d, e)
          /\ \A j \in DOMAIN d.prs :
               /\ e.prs[j].repoName = d.prs[j].repoName
               /\ e.prs[j].activity = d.prs[j].activity
               /\ e.prs[j].slug = IF d.prs[j].slug = 0 THEN j ELSE d.prs[j].slug
      BY <1>1, <2>1, FillSlugsIs
    <2>3. ColumnsAre(i + 1, e)
      BY <1>1, <1>13, <2>2 DEF ColumnsAre
    <2>4. \A j \in DOMAIN d.prs : d.prs[j].slug = 0 /\ j # 0
      BY <1>1, <1>13 DEF RowsFilled, IdsGiven
    <2>5. \A j \in DOMAIN e.prs : j # 0 /\ e.prs[j].slug = j
      BY <2>2, <2>4 DEF SameRows
    <2>6. NotNull(e, "slug") /\ NoNameTwice(e)
      BY <2>5 DEF NotNull, NoNameTwice
    <2>7. NotNull(e, "repoName") /\ NotNull(e, "activity")
      BY <1>1, <1>13, <2>2 DEF NotNull, SameRows, RowsFilled
    <2>8. RowsFilled(i + 1, e)
      BY <1>13, <2>6, <2>7 DEF RowsFilled
    <2>9. IdsGiven(e) /\ TimesEnd(e)
      BY <1>1, <2>2 DEF IdsGiven, SameSets, SameRows, TimesEnd
    <2>10. QED
      BY <2>2, <2>3, <2>8, <2>9 DEF Sound, e
  <1>14. QED
    BY <1>2, <1>3, <1>4, <1>5, <1>6, <1>7, <1>8, <1>9, <1>10, <1>11, <1>12, <1>13

\* Rows that belong together stay together where none is removed, and where
\* DropRequests removes them.
LEMMA BelongSame ==
  ASSUME NEW d, RowsBelong(d), NEW e, SameSets(d, e), SameRows(d, e), e.logs \subseteq d.logs
  PROVE  RowsBelong(e)
  <1>1. ASSUME NEW s \in DOMAIN e.sets
        PROVE  e.sets[s].pr \in DOMAIN e.prs /\ e.prs[e.sets[s].pr].key = e.sets[s].key
    BY DEF RowsBelong, SameSets, SameRows
  <1>2. ASSUME NEW x \in e.logs
        PROVE  x.pr \in DOMAIN e.prs /\ e.prs[x.pr].key = x.key
    BY DEF RowsBelong, SameRows
  <1>3. ASSUME NEW p \in e.patches
        PROVE  p.set \in DOMAIN e.sets /\ e.sets[p.set].key = p.key
    BY DEF RowsBelong, SameSets
  <1>4. QED
    BY <1>1, <1>2, <1>3 DEF RowsBelong

LEMMA BelongDrop ==
  ASSUME NEW d \in Database, RowsBelong(d), NEW ids
  PROVE  RowsBelong(DropRequests(d, ids))
  <1> DEFINE e == DropRequests(d, ids)
  <1>1. /\ e.prs = Keep(d.prs, DOMAIN d.prs \ ids)
        /\ e.sets = Keep(d.sets, {s \in DOMAIN d.sets : d.sets[s].pr \notin ids})
        /\ e.patches = {p \in d.patches : ~ (p.set \in DOMAIN d.sets /\ d.sets[p.set].pr \in ids)}
        /\ e.logs = {x \in d.logs : x.pr \notin ids}
    BY DropIs
  <1> HIDE DEF e
  <1>2. /\ DOMAIN e.prs = DOMAIN d.prs \ ids
        /\ \A j \in DOMAIN e.prs : e.prs[j] = d.prs[j]
    BY <1>1 DEF Keep
  <1>3. /\ DOMAIN e.sets = {s \in DOMAIN d.sets : d.sets[s].pr \notin ids}
        /\ \A s \in DOMAIN e.sets : e.sets[s] = d.sets[s]
    BY <1>1 DEF Keep
  <1>4. ASSUME NEW s \in DOMAIN e.sets
        PROVE  e.sets[s].pr \in DOMAIN e.prs /\ e.prs[e.sets[s].pr].key = e.sets[s].key
    BY <1>2, <1>3 DEF RowsBelong
  <1>5. ASSUME NEW x \in e.logs
        PROVE  x.pr \in DOMAIN e.prs /\ e.prs[x.pr].key = x.key
    BY <1>1, <1>2 DEF RowsBelong
  <1>6. ASSUME NEW p \in e.patches
        PROVE  p.set \in DOMAIN e.sets /\ e.sets[p.set].key = p.key
    BY <1>1, <1>3 DEF RowsBelong
  <1>7. QED
    BY <1>4, <1>5, <1>6 DEF RowsBelong, e

LEMMA SameRowsWhole ==
  ASSUME NEW d, NEW e, SameRequests(d, e)
  PROVE  SameRows(d, e)
  BY DEF SameRequests, SameRows

\* What a migration other than 9 and 18 leaves as it was.
LEMMA StepIs ==
  ASSUME NEW i \in 1 .. 20, i \notin {9, 18}, NEW d, Sound(i, d), Belong(i, d)
  PROVE  LET e == Migrate(i, d) IN
         /\ SameSets(d, e) /\ SameRows(d, e) /\ e.logs \subseteq d.logs
         /\ i <= 4 => SameRequests(d, e)
         /\ i = 4 => \A j \in DOMAIN d.prs : d.prs[j].repo \in e.repos
         /\ i \in 5 .. 8 => e.repos = d.repos
         /\ i # 19 => e.logs = d.logs
         /\ \A x \in d.logs : x.kind = "pr_created" => x \in e.logs
         /\ i # 8 => \A j \in DOMAIN d.prs : e.prs[j].repoName = d.prs[j].repoName
         /\ i = 8 => \A j \in DOMAIN d.prs : d.prs[j].repo \in d.repos =>
                       e.prs[j].repoName = d.prs[j].repo
         /\ i \notin {11, 12} => \A j \in DOMAIN d.prs : e.prs[j].activity = d.prs[j].activity
         /\ \A j \in DOMAIN d.prs :
              /\ i = 11 => e.prs[j].activity = IF d.prs[j].activity = 0
                             THEN MaxOr0(LogTimes(d, j)) ELSE d.prs[j].activity
              /\ i = 12 => e.prs[j].activity = IF d.prs[j].activity = 0
                             THEN d.prs[j].created ELSE d.prs[j].activity
  <1> DEFINE e == Migrate(i, d)
  <1>1. d \in Database /\ IdsGiven(d) /\ TimesEnd(d) /\ NoGaps(i, d)
    BY DEF Sound, Belong
  <1>2. SUFFICES
         /\ SameSets(d, e) /\ SameRows(d, e) /\ e.logs \subseteq d.logs
         /\ i <= 4 => SameRequests(d, e)
         /\ i = 4 => \A j \in DOMAIN d.prs : d.prs[j].repo \in e.repos
         /\ i \in 5 .. 8 => e.repos = d.repos
         /\ i # 19 => e.logs = d.logs
         /\ \A x \in d.logs : x.kind = "pr_created" => x \in e.logs
         /\ i # 8 => \A j \in DOMAIN d.prs : e.prs[j].repoName = d.prs[j].repoName
         /\ i = 8 => \A j \in DOMAIN d.prs : d.prs[j].repo \in d.repos =>
                       e.prs[j].repoName = d.prs[j].repo
         /\ i \notin {11, 12} => \A j \in DOMAIN d.prs : e.prs[j].activity = d.prs[j].activity
         /\ \A j \in DOMAIN d.prs :
              /\ i = 11 => e.prs[j].activity = IF d.prs[j].activity = 0
                             THEN MaxOr0(LogTimes(d, j)) ELSE d.prs[j].activity
              /\ i = 12 => e.prs[j].activity = IF d.prs[j].activity = 0
                             THEN d.prs[j].created ELSE d.prs[j].activity
    OBVIOUS
  <1>3. CASE i \in {1, 3, 6, 7, 10}
    <2> DEFINE c == IF i = 1 THEN "base_commit_sha" ELSE IF i = 3 THEN "repos"
                    ELSE IF i = 6 THEN "event_repo_ref" ELSE IF i = 7 THEN "repo_name"
                    ELSE "last_activity"
    <2>1. c \in Columns
      BY DEF Columns
    <2>2. e = AddColumn(d, c)
      <3>1. i = 1 => e = AddColumn(d, c)
        BY MigrateIs
      <3>2. i = 3 => e = AddColumn(d, c)
        BY MigrateIs
      <3>3. i = 6 => e = AddColumn(d, c)
        BY MigrateIs
      <3>4. i = 7 => e = AddColumn(d, c)
        BY MigrateIs
      <3>5. i = 10 => e = AddColumn(d, c)
        BY MigrateIs
      <3>6. QED
        BY <1>3, <3>1, <3>2, <3>3, <3>4, <3>5
    <2> HIDE DEF e, c
    <2>3. e.repos = d.repos /\ e.logs = d.logs /\ SameSets(d, e) /\ SameRequests(d, e)
      BY <1>1, <2>1, <2>2, AddColumnIs, Zenon
    <2>4. SameRows(d, e)
      BY <2>3, SameRowsWhole
    <2>5. QED
      BY <1>3, <2>3, <2>4 DEF SameRequests
  <1>4. CASE i \in {2, 13, 17}
    <2>1. e = d
      BY <1>4, MigrateIs
    <2> HIDE DEF e
    <2>2. SameSets(d, e) /\ SameRequests(d, e) /\ SameRows(d, e)
      BY <2>1 DEF SameSets, SameRequests, SameRows
    <2>3. QED
      BY <1>4, <2>1, <2>2
  <1>5. CASE i = 4
    <2>1. e = FillRepos(d)
      BY <1>5, MigrateIs
    <2> HIDE DEF e
    <2>2. /\ e.logs = d.logs /\ SameSets(d, e) /\ SameRequests(d, e)
          /\ \A j \in DOMAIN d.prs : d.prs[j].repo \in e.repos
      BY <1>1, <2>1, FillReposIs
    <2>3. SameRows(d, e)
      BY <2>2, SameRowsWhole
    <2>4. QED
      BY <1>5, <2>2, <2>3 DEF SameRequests
  <1>6. CASE i = 5
    <2>1. e = CopyRequests(d)
      BY <1>6, MigrateIs
    <2>2. DOMAIN d.prs = 1 .. d.lastId /\ (\A j \in DOMAIN d.prs : d.prs[j].repo \in d.repos)
      BY <1>1, <1>6 DEF NoGaps
    <2> HIDE DEF e
    <2>3. /\ e.logs = d.logs /\ SameSets(d, e) /\ SameRequests(d, e) /\ e.repos = d.repos
      BY <1>1, <2>1, <2>2, CopyRequestsIs
    <2>4. SameRows(d, e)
      BY <2>3, SameRowsWhole
    <2>5. QED
      BY <1>6, <2>3, <2>4 DEF SameRequests
  <1>7. CASE i = 8
    <2>1. e = NameRepos(d)
      BY <1>7, MigrateIs
    <2> HIDE DEF e
    <2>2. /\ e.logs = d.logs /\ e.repos = d.repos /\ SameSets(d, e) /\ SameRows(d, e)
          /\ \A j \in DOMAIN d.prs :
               /\ e.prs[j].activity = d.prs[j].activity
               /\ d.prs[j].repo \in d.repos => e.prs[j].repoName = d.prs[j].repo
      BY <1>1, <2>1, NameReposIs
    <2>3. QED
      BY <1>7, <2>2
  <1>8. CASE i = 11
    <2> DEFINE times == [j \in DOMAIN d.prs |-> MaxOr0(LogTimes(d, j))]
    <2>1. e = FillActivity(d, times)
      BY <1>8, MigrateIs DEF ActivityFromLogs
    <2>2. \A j \in DOMAIN d.prs : MaxOr0(LogTimes(d, j)) \in Nat
      BY <1>1, TimesOf
    <2>3. \A j \in DOMAIN d.prs : times[j] = MaxOr0(LogTimes(d, j))
      OBVIOUS
    <2> HIDE DEF e, times
    <2>4. /\ e.logs = d.logs /\ SameSets(d, e) /\ SameRows(d, e)
          /\ \A j \in DOMAIN d.prs :
               /\ e.prs[j].repoName = d.prs[j].repoName
               /\ e.prs[j].activity =
                    IF d.prs[j].activity = 0 THEN times[j] ELSE d.prs[j].activity
      BY <1>1, <2>1, <2>2, <2>3, FillActivityIs
    <2>5. QED
      BY <1>8, <2>3, <2>4
  <1>9. CASE i = 12
    <2> DEFINE times == [j \in DOMAIN d.prs |-> d.prs[j].created]
    <2>1. e = FillActivity(d, times)
      BY <1>9, MigrateIs DEF ActivityFromCreation
    <2>2. \A j \in DOMAIN d.prs : times[j] \in Nat
      BY <1>1, Fields DEF Row
    <2>3. \A j \in DOMAIN d.prs : times[j] = d.prs[j].created
      OBVIOUS
    <2> HIDE DEF e, times
    <2>4. /\ e.logs = d.logs /\ SameSets(d, e) /\ SameRows(d, e)
          /\ \A j \in DOMAIN d.prs :
               /\ e.prs[j].repoName = d.prs[j].repoName
               /\ e.prs[j].activity =
                    IF d.prs[j].activity = 0 THEN times[j] ELSE d.prs[j].activity
      BY <1>1, <2>1, <2>2, FillActivityIs
    <2>5. QED
      BY <1>9, <2>3, <2>4
  <1>10. CASE i = 14
    <2>1. e = [d EXCEPT !.repos = {}, !.cols = @ \ {"repos"}]
      BY <1>10, MigrateIs
    <2> HIDE DEF e
    <2>2. e.logs = d.logs /\ SameSets(d, e) /\ SameRequests(d, e)
      BY <1>1, <2>1, DropReposIs
    <2>3. SameRows(d, e)
      BY <2>2, SameRowsWhole
    <2>4. QED
      BY <1>10, <2>2, <2>3 DEF SameRequests
  <1>11. CASE i = 15
    <2>1. e = RebuildRequests(d, {"repo", "repo_ref", "slug"})
      BY <1>11, MigrateIs
    <2> HIDE DEF e
    <2>2. /\ e.logs = d.logs /\ SameSets(d, e) /\ SameRows(d, e)
          /\ \A j \in DOMAIN d.prs :
               /\ e.prs[j].repoName = d.prs[j].repoName
               /\ e.prs[j].activity = d.prs[j].activity
      BY <1>1, <2>1, RebuildRequestsIs
    <2>3. QED
      BY <1>11, <2>2
  <1>12. CASE i = 16
    <2>1. e = [d EXCEPT !.cols = @ \ {"event_repo", "event_repo_ref"}]
      BY <1>12, MigrateIs
    <2> HIDE DEF e
    <2>2. e.logs = d.logs /\ SameSets(d, e) /\ SameRequests(d, e)
      BY <1>1, <2>1, DropColumnsIs
    <2>3. SameRows(d, e)
      BY <2>2, SameRowsWhole
    <2>4. QED
      BY <1>12, <2>2, <2>3 DEF SameRequests
  <1>13. CASE i = 19
    <2>1. e = DropStatus(d)
      BY <1>13, MigrateIs
    <2> HIDE DEF e
    <2>2. /\ e.logs = {x \in d.logs : x.kind # "pr_status_changed"}
          /\ SameSets(d, e) /\ SameRows(d, e)
          /\ \A j \in DOMAIN d.prs :
               /\ e.prs[j].repoName = d.prs[j].repoName
               /\ e.prs[j].activity = d.prs[j].activity
      BY <1>1, <2>1, DropStatusIs
    <2>3. QED
      BY <1>13, <2>2
  <1>14. CASE i = 20
    <2>1. e = FillSlugs(d)
      BY <1>14, MigrateIs
    <2> HIDE DEF e
    <2>2. /\ e.logs = d.logs /\ SameSets(d, e) /\ SameRows(d, e)
          /\ \A j \in DOMAIN d.prs :
               /\ e.prs[j].repoName = d.prs[j].repoName
               /\ e.prs[j].activity = d.prs[j].activity
      BY <1>1, <2>1, FillSlugsIs
    <2>3. QED
      BY <1>14, <2>2
  <1>15. QED
    BY <1>3, <1>4, <1>5, <1>6, <1>7, <1>8, <1>9, <1>10, <1>11, <1>12, <1>13, <1>14

LEMMA BelongStep ==
  ASSUME NEW i \in 1 .. 20, NEW d, Sound(i, d), Belong(i, d)
  PROVE  Belong(i + 1, Migrate(i, d))
  <1> DEFINE e == Migrate(i, d)
  <1>1. CASE i \in {9, 18}
    <2>1. PICK ids : e = DropRequests(d, ids)
      <3>1. i = 9 => e = DropOrphans(d)
        BY MigrateIs
      <3>2. i = 18 => e = DropUntitled(d)
        BY MigrateIs
      <3> HIDE DEF e
      <3>3. QED
        BY <1>1, <3>1, <3>2 DEF DropOrphans, DropUntitled
    <2>2. RowsBelong(e)
      BY <2>1, BelongDrop DEF Belong, Sound
    <2>3. NoGaps(i + 1, e)
      BY <1>1 DEF NoGaps
    <2>4. QED
      BY <2>2, <2>3 DEF Belong
  <1>2. CASE i \notin {9, 18}
    <2>1. /\ SameSets(d, e) /\ SameRows(d, e) /\ e.logs \subseteq d.logs
          /\ i <= 4 => SameRequests(d, e)
          /\ i = 4 => \A j \in DOMAIN d.prs : d.prs[j].repo \in e.repos
      BY <1>2, StepIs
    <2> HIDE DEF e
    <2>2. RowsBelong(e)
      BY <2>1, BelongSame DEF Belong
    <2>3. NoGaps(i + 1, e)
      BY <2>1 DEF Belong, NoGaps, SameRequests
    <2>4. QED
      BY <2>2, <2>3 DEF Belong, e
  <1>3. QED
    BY <1>1, <1>2

\* Patch request k is kept by what leaves its row, its patchset, its patch and
\* the entry of its creation.
LEMMA KeptSame ==
  ASSUME NEW i \in 1 .. 20, i \notin {8, 11, 12}, NEW d, NEW l, NEW k, Kept(i, d, l, k),
         NEW e, k \in DOMAIN e.prs,
         /\ e.prs[k].key = d.prs[k].key /\ e.prs[k].repo = d.prs[k].repo
         /\ e.prs[k].created = d.prs[k].created /\ e.prs[k].blank = d.prs[k].blank
         /\ e.prs[k].repoName = d.prs[k].repoName /\ e.prs[k].activity = d.prs[k].activity,
         i + 1 \in 5 .. 8 => l.repo[k] \in e.repos,
         k \in DOMAIN e.sets, e.sets[k].pr = k, [set |-> k, key |-> k] \in e.patches,
         e.logs \subseteq d.logs,
         \A x \in d.logs : x.pr = k /\ (x.kind = "pr_created" \/ i # 19) => x \in e.logs
  PROVE  Kept(i + 1, e, l, k)
  <1>1. /\ k \in l.logged => \E x \in e.logs : x.pr = k /\ x.kind = "pr_created"
    BY DEF Kept
  <1>2. ASSUME i + 1 <= 11
        PROVE  /\ e.prs[k].activity = 0
               /\ \A x \in e.logs : x.pr = k => x.at = k \/ (x.at = 10 + k /\ k \in l.changed)
               /\ k \in l.logged => \E x \in e.logs : x.pr = k /\ x.at = k
               /\ k \in l.changed => \E x \in e.logs : x.pr = k /\ x.at = 10 + k
    <2>1. /\ d.prs[k].activity = 0
          /\ \A x \in d.logs : x.pr = k => x.at = k \/ (x.at = 10 + k /\ k \in l.changed)
          /\ k \in l.logged => \E x \in d.logs : x.pr = k /\ x.at = k
          /\ k \in l.changed => \E x \in d.logs : x.pr = k /\ x.at = 10 + k
      BY <1>2 DEF Kept
    <2>2. i # 19
      BY <1>2
    <2>3. QED
      BY <2>1, <2>2
  <1>3. i + 1 # 12
    OBVIOUS
  <1>4. i + 1 >= 13 => e.prs[k].activity = IF k \in l.changed THEN 10 + k ELSE k
    <2>1. i + 1 >= 13 => i >= 13
      OBVIOUS
    <2>2. QED
      BY <2>1 DEF Kept
  <1>5. i + 1 >= 9 => e.prs[k].repoName = l.repo[k]
    <2>1. i + 1 >= 9 => i >= 9
      OBVIOUS
    <2>2. QED
      BY <2>1 DEF Kept
  <1>6. /\ k \in DOMAIN e.prs
        /\ e.prs[k].key = k /\ e.prs[k].repo = l.repo[k] /\ e.prs[k].created = k
        /\ ~e.prs[k].blank
    BY DEF Kept
  <1>7. QED
    BY <1>1, <1>2, <1>3, <1>4, <1>5, <1>6 DEF Kept

LEMMA LegacyIs ==
  ASSUME NEW l \in Legacy
  PROVE  /\ Cardinality(l.ids) \in Nat /\ l.ids = 1 .. Cardinality(l.ids)
         /\ l.repo \in [l.ids -> Nat \ {0}]
         /\ l.removed \subseteq l.ids /\ l.blank \subseteq l.ids /\ l.logged \subseteq l.ids
         /\ l.changed \subseteq l.logged /\ l.gone \subseteq Nat
         /\ \A k \in l.ids : k \in Nat /\ k # 0 /\ l.repo[k] \in Nat /\ l.repo[k] # 0
  <1>1. /\ IsFiniteSet(l.ids) /\ l.ids = 1 .. Cardinality(l.ids)
        /\ l.repo \in [l.ids -> Nat \ {0}]
        /\ l.removed \subseteq l.ids /\ l.blank \subseteq l.ids /\ l.logged \subseteq l.ids
        /\ l.changed \subseteq l.logged /\ l.gone \subseteq Nat
    BY LegacyAssumption
  <1>2. Cardinality(l.ids) \in Nat
    BY <1>1, FS_CardinalityType
  <1>3. \A k \in l.ids : k \in Nat /\ k # 0 /\ l.repo[k] \in Nat /\ l.repo[k] # 0
    BY <1>1, <1>2
  <1>4. QED
    BY <1>1, <1>2, <1>3

\* The activity of a patch request is the time of its latest event.
LEMMA KeptActivity ==
  ASSUME NEW d, Sound(11, d), NEW l \in Legacy, NEW k \in l.ids, Kept(11, d, l, k)
  PROVE  /\ MaxOr0(LogTimes(d, k)) \in {0, IF k \in l.changed THEN 10 + k ELSE k}
         /\ k \in l.changed => MaxOr0(LogTimes(d, k)) = 10 + k
  <1> DEFINE m == MaxOr0(LogTimes(d, k))
             T == LogTimes(d, k)
  <1>1. m \in T \cup {0} /\ m \in Nat /\ \A t \in T : t <= m
    BY TimesOf DEF Sound
  <1>2. T = {x.at : x \in {y \in d.logs : y.pr = k}}
    BY DEF LogTimes
  <1> HIDE DEF m, T
  <1>3. k \in Nat /\ k # 0
    BY LegacyIs
  <1>4. /\ \A x \in d.logs : x.pr = k => x.at = k \/ (x.at = 10 + k /\ k \in l.changed)
        /\ k \in l.changed => \E x \in d.logs : x.pr = k /\ x.at = 10 + k
    BY DEF Kept
  <1>5. /\ \A t \in T : t = k \/ (t = 10 + k /\ k \in l.changed)
        /\ k \in l.changed => 10 + k \in T
    BY <1>2, <1>4
  <1>6. m \in {0, IF k \in l.changed THEN 10 + k ELSE k}
        /\ (k \in l.changed => m = 10 + k)
    BY <1>1, <1>3, <1>5
  <1>7. QED
    BY <1>6 DEF m

LEMMA KeptStep ==
  ASSUME NEW i \in 1 .. 20, NEW d, Sound(i, d), Belong(i, d),
         NEW l \in Legacy, NEW k \in l.ids \ l.blank, Kept(i, d, l, k)
  PROVE  Kept(i + 1, Migrate(i, d), l, k)
  <1> DEFINE e == Migrate(i, d)
  <1>1. d \in Database
    BY DEF Sound
  <1>2. /\ k \in DOMAIN d.prs
        /\ d.prs[k].key = k /\ d.prs[k].repo = l.repo[k] /\ d.prs[k].created = k
        /\ ~d.prs[k].blank
        /\ k \in DOMAIN d.sets /\ d.sets[k].pr = k /\ [set |-> k, key |-> k] \in d.patches
        /\ k \in l.logged => \E x \in d.logs : x.pr = k /\ x.kind = "pr_created"
    BY DEF Kept
  <1>3. k \in Nat /\ k # 0 /\ l.repo[k] # 0
    BY LegacyIs
  <1>4. CASE i \in {9, 18}
    <2>1. PICK ids : e = DropRequests(d, ids) /\ k \notin ids
      <3>1. i = 9 => e = DropOrphans(d)
        BY MigrateIs
      <3>2. i = 18 => e = DropUntitled(d)
        BY MigrateIs
      <3>3. i = 9 => d.prs[k].repoName # 0
        BY <1>3 DEF Kept
      <3> HIDE DEF e
      <3>4. QED
        BY <1>2, <1>4, <3>1, <3>2, <3>3 DEF DropOrphans, DropUntitled
    <2> HIDE DEF e
    <2>2. /\ e.prs = Keep(d.prs, DOMAIN d.prs \ ids)
          /\ e.sets = Keep(d.sets, {s \in DOMAIN d.sets : d.sets[s].pr \notin ids})
          /\ e.patches = {p \in d.patches : ~ (p.set \in DOMAIN d.sets /\ d.sets[p.set].pr \in ids)}
          /\ e.logs = {x \in d.logs : x.pr \notin ids}
      BY <1>1, <2>1, DropIs
    <2>3. k \in DOMAIN e.prs /\ e.prs[k] = d.prs[k]
      BY <1>2, <2>1, <2>2 DEF Keep
    <2>4. k \in DOMAIN e.sets /\ e.sets[k] = d.sets[k]
      BY <1>2, <2>1, <2>2 DEF Keep
    <2>5. [set |-> k, key |-> k] \in e.patches
      BY <1>2, <2>1, <2>2
    <2>6. e.logs \subseteq d.logs /\ \A x \in d.logs : x.pr = k => x \in e.logs
      BY <2>1, <2>2
    <2>7. QED
      BY <1>2, <1>4, <2>3, <2>4, <2>5, <2>6, KeptSame DEF e
  <1>5. CASE i \notin {9, 18}
    <2>1. /\ SameSets(d, e) /\ SameRows(d, e) /\ e.logs \subseteq d.logs
          /\ i = 4 => \A j \in DOMAIN d.prs : d.prs[j].repo \in e.repos
          /\ i \in 5 .. 8 => e.repos = d.repos
          /\ i # 19 => e.logs = d.logs
          /\ \A x \in d.logs : x.kind = "pr_created" => x \in e.logs
          /\ i # 8 => e.prs[k].repoName = d.prs[k].repoName
          /\ i = 8 => (d.prs[k].repo \in d.repos => e.prs[k].repoName = d.prs[k].repo)
          /\ i \notin {11, 12} => e.prs[k].activity = d.prs[k].activity
          /\ i = 11 => e.prs[k].activity = IF d.prs[k].activity = 0
                         THEN MaxOr0(LogTimes(d, k)) ELSE d.prs[k].activity
          /\ i = 12 => e.prs[k].activity = IF d.prs[k].activity = 0
                         THEN d.prs[k].created ELSE d.prs[k].activity
      BY <1>2, <1>5, StepIs
    <2> HIDE DEF e
    <2>2. /\ k \in DOMAIN e.prs
          /\ e.prs[k].key = k /\ e.prs[k].repo = l.repo[k] /\ e.prs[k].created = k
          /\ ~e.prs[k].blank
          /\ k \in DOMAIN e.sets /\ e.sets[k].pr = k /\ [set |-> k, key |-> k] \in e.patches
      BY <1>2, <2>1 DEF SameSets, SameRows
    <2>3. k \in l.logged => \E x \in e.logs : x.pr = k /\ x.kind = "pr_created"
      BY <1>2, <2>1
    <2>4. CASE i = 8
      <3>1. e.prs[k].repoName = l.repo[k]
        BY <1>2, <2>1, <2>4 DEF Kept
      <3>2. /\ e.prs[k].activity = 0
            /\ \A x \in e.logs : x.pr = k => x.at = k \/ (x.at = 10 + k /\ k \in l.changed)
            /\ k \in l.logged => \E x \in e.logs : x.pr = k /\ x.at = k
            /\ k \in l.changed => \E x \in e.logs : x.pr = k /\ x.at = 10 + k
        BY <2>1, <2>4 DEF Kept
      <3>3. QED
        BY <2>2, <2>3, <2>4, <3>1, <3>2 DEF Kept, e
    <2>5. CASE i = 11
      <3>1. d.prs[k].activity = 0 /\ d.prs[k].repoName = l.repo[k]
        BY <2>5 DEF Kept
      <3>2. e.prs[k].activity = MaxOr0(LogTimes(d, k)) /\ e.prs[k].repoName = l.repo[k]
        BY <2>1, <2>5, <3>1
      <3>3. /\ e.prs[k].activity \in {0, IF k \in l.changed THEN 10 + k ELSE k}
            /\ k \in l.changed => e.prs[k].activity = 10 + k
        BY <2>5, <3>2, KeptActivity
      <3>4. QED
        BY <2>2, <2>3, <2>5, <3>2, <3>3 DEF Kept, e
    <2>6. CASE i = 12
      <3>1. /\ d.prs[k].activity \in {0, IF k \in l.changed THEN 10 + k ELSE k}
            /\ k \in l.changed => d.prs[k].activity = 10 + k
            /\ d.prs[k].repoName = l.repo[k]
        BY <2>6 DEF Kept
      <3>2. /\ e.prs[k].repoName = l.repo[k]
            /\ e.prs[k].activity = IF d.prs[k].activity = 0 THEN k ELSE d.prs[k].activity
        BY <1>2, <2>1, <2>6, <3>1
      <3>3. e.prs[k].activity = IF k \in l.changed THEN 10 + k ELSE k
        BY <1>3, <3>1, <3>2
      <3>4. QED
        BY <2>2, <2>3, <2>6, <3>2, <3>3 DEF Kept, e
    <2>7. CASE i \notin {8, 11, 12}
      <3>1. i + 1 \in 5 .. 8 => l.repo[k] \in e.repos
        <4>1. i = 4 => l.repo[k] \in e.repos
          BY <1>2, <2>1
        <4>2. i \in 5 .. 7 => l.repo[k] \in d.repos /\ e.repos = d.repos
          BY <2>1 DEF Kept
        <4>3. i + 1 \in 5 .. 8 => i = 4 \/ i \in 5 .. 7
          OBVIOUS
        <4>4. QED
          BY <4>1, <4>2, <4>3
      <3>2. \A x \in d.logs : x.pr = k /\ (x.kind = "pr_created" \/ i # 19) => x \in e.logs
        BY <2>1
      <3>3. /\ e.prs[k].blank = d.prs[k].blank /\ e.prs[k].repoName = d.prs[k].repoName
            /\ e.prs[k].activity = d.prs[k].activity
        BY <1>2, <2>1, <2>7 DEF SameRows
      <3>4. QED
        BY <1>2, <2>1, <2>2, <2>7, <3>1, <3>2, <3>3, KeptSame DEF e
    <2>8. QED
      BY <2>4, <2>5, <2>6, <2>7
  <1>6. QED
    BY <1>4, <1>5
-----------------------------------------------------------------------------
(***************************************************************************)
(* The files that servers find.                                            *)
(***************************************************************************)

Good(i, d, l) ==
  Sound(i, d) /\ Belong(i, d) /\ \A k \in l.ids \ l.blank : Kept(i, d, l, k)

LEMMA FirstIs ==
  ASSUME NEW l \in Legacy
  PROVE  LET d == First(l) IN
         /\ d \in Database /\ d.version = 1 /\ d.cols = {"repo", "event_repo", "status"}
         /\ DOMAIN d.prs = l.ids /\ DOMAIN d.sets = l.ids
         /\ d.lastId = Cardinality(l.ids) /\ d.lastSet = Cardinality(l.ids)
         /\ \A k \in l.ids :
              /\ d.prs[k].key = k /\ d.prs[k].repo = l.repo[k] /\ d.prs[k].created = k
              /\ d.prs[k].blank = (k \in l.blank)
              /\ d.prs[k].activity = 0 /\ d.prs[k].slug = 0
              /\ d.sets[k] = [pr |-> k, key |-> k]
         /\ d.patches = {[set |-> k, key |-> k] : k \in l.ids}
         /\ d.logs =
              {[pr |-> k, kind |-> "pr_created", at |-> k, key |-> k] : k \in l.logged}
              \cup {[pr |-> k, kind |-> "pr_status_changed", at |-> 10 + k, key |-> k] :
                      k \in l.changed}
  <1> DEFINE d == First(l)
             n == Cardinality(l.ids)
             prs == [k \in l.ids |->
                       [key |-> k, repo |-> l.repo[k], repoName |-> 0, blank |-> k \in l.blank,
                        created |-> k, activity |-> 0, slug |-> 0]]
             sets == [k \in l.ids |-> [pr |-> k, key |-> k]]
             patches == {[set |-> k, key |-> k] : k \in l.ids}
             logs == {[pr |-> k, kind |-> "pr_created", at |-> k, key |-> k] : k \in l.logged}
                     \cup {[pr |-> k, kind |-> "pr_status_changed", at |-> 10 + k, key |-> k] :
                             k \in l.changed}
             cols == {"repo", "event_repo", "status"}
  <1>1. /\ n \in Nat /\ l.ids = 1 .. n /\ l.logged \subseteq l.ids /\ l.changed \subseteq l.logged
        /\ l.ids \in SUBSET Nat
        /\ \A k \in l.ids : k \in Nat /\ k # 0 /\ l.repo[k] \in Nat /\ 10 + k \in Nat
    BY LegacyIs
  <1> HIDE DEF n
  <1>2. MaxOr0(l.ids) = n
    <2>1. l.ids \in SUBSET (1 .. n)
      BY <1>1
    <2>2. MaxOr0(l.ids) \in 0 .. n /\ l.ids \subseteq 1 .. MaxOr0(l.ids)
      BY <1>1, <2>1, MaxOr0Is
    <2>3. QED
      BY <1>1, <2>2
  <1>3. prs \in [l.ids -> Row] /\ sets \in [l.ids -> [pr : Nat, key : Nat]]
    BY <1>1 DEF Row
  <1>4. prs \in Tables(Row) /\ DOMAIN prs = l.ids
        /\ sets \in Tables([pr : Nat, key : Nat]) /\ DOMAIN sets = l.ids
    <2> HIDE DEF prs, sets
    <2>1. QED
      BY <1>1, <1>3, RowsIn
  <1>5. patches \in SUBSET [set : Nat, key : Nat]
    BY <1>1
  <1>6. logs \in SUBSET Entry
    BY <1>1 DEF Entry
  <1>7. cols \in SUBSET Columns /\ {} \in SUBSET Nat
    BY DEF Columns
  <1>8. \A k \in l.ids :
          /\ prs[k].key = k /\ prs[k].repo = l.repo[k] /\ prs[k].created = k
          /\ prs[k].blank = (k \in l.blank)
          /\ prs[k].activity = 0 /\ prs[k].slug = 0
          /\ sets[k] = [pr |-> k, key |-> k]
    OBVIOUS
  <1>9. d = [version |-> 1, cols |-> cols, repos |-> {}, prs |-> prs, lastId |-> n,
             sets |-> sets, lastSet |-> n, patches |-> patches, logs |-> logs]
    BY <1>2 DEF First
  <1> HIDE DEF prs, sets, patches, logs, cols, d
  <1>10. /\ d \in Database /\ d.version = 1 /\ d.cols = cols /\ d.prs = prs /\ d.sets = sets
         /\ d.lastId = n /\ d.lastSet = n /\ d.patches = patches /\ d.logs = logs
    BY <1>1, <1>4, <1>5, <1>6, <1>7, <1>9 DEF Database
  <1>11. QED
    BY <1>4, <1>8, <1>10 DEF d, n, patches, logs, cols

LEMMA FirstGood ==
  ASSUME NEW l \in Legacy
  PROVE  Good(1, First(l), l)
  <1> DEFINE d == First(l)
             n == Cardinality(l.ids)
  <1>1. /\ n \in Nat /\ l.ids = 1 .. n /\ l.logged \subseteq l.ids /\ l.changed \subseteq l.logged
        /\ \A k \in l.ids : k \in Nat /\ k # 0
    BY LegacyIs
  <1>2. /\ d \in Database /\ d.cols = {"repo", "event_repo", "status"}
        /\ DOMAIN d.prs = l.ids /\ DOMAIN d.sets = l.ids /\ d.lastId = n /\ d.lastSet = n
        /\ \A k \in l.ids :
             /\ d.prs[k].key = k /\ d.prs[k].repo = l.repo[k] /\ d.prs[k].created = k
             /\ d.prs[k].blank = (k \in l.blank)
             /\ d.prs[k].activity = 0 /\ d.prs[k].slug = 0
             /\ d.sets[k] = [pr |-> k, key |-> k]
        /\ d.patches = {[set |-> k, key |-> k] : k \in l.ids}
        /\ d.logs =
             {[pr |-> k, kind |-> "pr_created", at |-> k, key |-> k] : k \in l.logged}
             \cup {[pr |-> k, kind |-> "pr_status_changed", at |-> 10 + k, key |-> k] :
                     k \in l.changed}
    BY FirstIs
  <1> HIDE DEF d, n
  <1>14. DOMAIN d.prs = l.ids /\ DOMAIN d.sets = l.ids
    BY <1>2, Zenon
  <1>15. \A k \in l.ids :
           /\ d.prs[k].key = k /\ d.prs[k].repo = l.repo[k] /\ d.prs[k].created = k
           /\ d.prs[k].activity = 0 /\ d.prs[k].slug = 0
           /\ d.sets[k].pr = k /\ d.sets[k].key = k
    <2>1. \A k \in l.ids :
            /\ d.prs[k].key = k /\ d.prs[k].repo = l.repo[k] /\ d.prs[k].created = k
            /\ d.prs[k].activity = 0 /\ d.prs[k].slug = 0
      BY <1>2, Zenon
    <2>2. \A k \in l.ids : d.sets[k] = [pr |-> k, key |-> k]
      BY <1>2, Zenon
    <2>3. \A k : [pr |-> k, key |-> k].pr = k /\ [pr |-> k, key |-> k].key = k
      OBVIOUS
    <2>4. QED
      BY <2>1, <2>2, <2>3, Zenon
  <1>16. \A k \in l.ids \ l.blank : ~d.prs[k].blank
    BY <1>2, Zenon
  <1>17. d.patches = {[set |-> k, key |-> k] : k \in l.ids}
    BY <1>2, Zenon
  <1>3. \A x \in d.logs :
          x.pr \in l.ids /\ x.key = x.pr /\ (x.at = x.pr \/ (x.at = 10 + x.pr /\ x.pr \in l.changed))
    BY <1>1, <1>2
  <1>4. \A k \in l.logged : \E x \in d.logs : x.pr = k /\ x.kind = "pr_created" /\ x.at = k
    <2> SUFFICES ASSUME NEW k \in l.logged
                 PROVE  \E x \in d.logs : x.pr = k /\ x.kind = "pr_created" /\ x.at = k
      OBVIOUS
    <2>1. [pr |-> k, kind |-> "pr_created", at |-> k, key |-> k] \in d.logs
      BY <1>2
    <2>2. QED
      BY <2>1
  <1>5. \A k \in l.changed : \E x \in d.logs : x.pr = k /\ x.at = 10 + k
    <2> SUFFICES ASSUME NEW k \in l.changed
                 PROVE  \E x \in d.logs : x.pr = k /\ x.at = 10 + k
      OBVIOUS
    <2>1. [pr |-> k, kind |-> "pr_status_changed", at |-> 10 + k, key |-> k] \in d.logs
      BY <1>2
    <2>2. QED
      BY <2>1
  <1>6. IdsGiven(d)
    BY <1>1, <1>2 DEF IdsGiven
  <1>7. ColumnsAre(1, d)
    BY <1>2 DEF ColumnsAre
  <1>8. RowsFilled(1, d)
    <2>1. \A j \in DOMAIN d.prs : d.prs[j].slug = 0
      BY <1>14, <1>15, Zenon
    <2>2. QED
      BY <2>1 DEF RowsFilled
  <1>9. TimesEnd(d)
    <2>1. \A x \in d.logs : x.at <= 10 + n
      BY <1>1, <1>3
    <2>2. 10 + n \in Nat
      BY <1>1
    <2>3. QED
      BY <2>1, <2>2 DEF TimesEnd
  <1>10. RowsBelong(d)
    <2>1. \A s \in DOMAIN d.sets :
            d.sets[s].pr \in DOMAIN d.prs /\ d.prs[d.sets[s].pr].key = d.sets[s].key
      <3> SUFFICES ASSUME NEW s \in l.ids
                   PROVE  d.sets[s].pr \in l.ids /\ d.prs[d.sets[s].pr].key = d.sets[s].key
        BY <1>14
      <3>1. d.sets[s].pr = s /\ d.sets[s].key = s /\ d.prs[s].key = s
        BY <1>15
      <3>2. QED
        BY <3>1
    <2>2. \A x \in d.logs : x.pr \in DOMAIN d.prs /\ d.prs[x.pr].key = x.key
      <3>1. \A x \in d.logs : x.pr \in l.ids /\ x.key = x.pr
        BY <1>3
      <3>2. QED
        BY <1>14, <1>15, <3>1, Zenon
    <2>3. \A p \in d.patches : p.set \in DOMAIN d.sets /\ d.sets[p.set].key = p.key
      BY <1>14, <1>15, <1>17
    <2>4. QED
      BY <2>1, <2>2, <2>3 DEF RowsBelong
  <1>11. NoGaps(1, d)
    BY <1>1, <1>2 DEF NoGaps
  <1>12. ASSUME NEW k \in l.ids \ l.blank
         PROVE  Kept(1, d, l, k)
    <2>1. /\ k \in DOMAIN d.prs
          /\ d.prs[k].key = k /\ d.prs[k].repo = l.repo[k] /\ d.prs[k].created = k
          /\ ~d.prs[k].blank /\ d.prs[k].activity = 0
          /\ k \in DOMAIN d.sets /\ d.sets[k].pr = k /\ [set |-> k, key |-> k] \in d.patches
      BY <1>14, <1>15, <1>16, <1>17
    <2>2. /\ k \in l.logged => \E x \in d.logs : x.pr = k /\ x.kind = "pr_created"
          /\ k \in l.logged => \E x \in d.logs : x.pr = k /\ x.at = k
          /\ k \in l.changed => \E x \in d.logs : x.pr = k /\ x.at = 10 + k
      BY <1>4, <1>5
    <2>3. \A x \in d.logs : x.pr = k => x.at = k \/ (x.at = 10 + k /\ k \in l.changed)
      BY <1>3
    <2>4. QED
      BY <2>1, <2>2, <2>3 DEF Kept
  <1>13. QED
    BY <1>2, <1>6, <1>7, <1>8, <1>9, <1>10, <1>11, <1>12 DEF Good, Sound, Belong, d

LEMMA GoodStep ==
  ASSUME NEW i \in 1 .. 20, NEW l \in Legacy, NEW d, Good(i, d, l)
  PROVE  Good(i + 1, Migrate(i, d), l)
  <1>1. Sound(i + 1, Migrate(i, d))
    BY SoundStep DEF Good
  <1>2. Belong(i + 1, Migrate(i, d))
    BY BelongStep DEF Good
  <1>3. \A k \in l.ids \ l.blank : Kept(i + 1, Migrate(i, d), l, k)
    BY KeptStep DEF Good
  <1>4. QED
    BY <1>1, <1>2, <1>3 DEF Good

LEMMA UpgradedGood ==
  ASSUME NEW l \in Legacy, NEW v \in 1 .. 21
  PROVE  Good(v, Upgraded(First(l), 1, v), l)
  <1>1. PICK h : /\ h[1] = First(l) /\ h[v] = Upgraded(First(l), 1, v)
                 /\ \A i \in 1 .. v - 1 : h[i + 1] = Migrate(i, h[i])
    BY UpgradedBy
  <1> DEFINE bad == {i \in 1 .. v : ~Good(i, h[i], l)}
             least == Min(bad)
  <1>2. bad = {}
    <2> SUFFICES ASSUME bad # {}
                 PROVE  FALSE
      OBVIOUS
    <2>1. least \in bad /\ \A y \in bad : least <= y
      BY LeastOf
    <2> HIDE DEF least
    <2>2. least \in 1 .. v /\ ~Good(least, h[least], l)
      BY <2>1
    <2>3. CASE least = 1
      BY <1>1, <2>2, <2>3, FirstGood
    <2>4. CASE least # 1
      <3> DEFINE i == least - 1
      <3>1. i \in 1 .. v - 1 /\ i \in 1 .. 20 /\ i \in 1 .. v /\ i + 1 = least /\ i < least
        BY <2>2, <2>4
      <3> HIDE DEF i
      <3>2. i \notin bad
        BY <2>1, <2>2, <3>1
      <3>3. Good(i, h[i], l)
        BY <3>1, <3>2
      <3>4. Good(i + 1, h[i + 1], l)
        BY <1>1, <3>1, <3>3, GoodStep
      <3>5. QED
        BY <2>2, <3>1, <3>4
    <2>5. QED
      BY <2>3, <2>4
  <1>3. v \in 1 .. v
    OBVIOUS
  <1>4. QED
    BY <1>1, <1>2, <1>3

\* A number in PRAGMA user_version, or repos deleted, change nothing that counts.
LEMMA Relabelled ==
  ASSUME NEW d \in Database, NEW v \in Nat, NEW gone
  PROVE  LET e == [d EXCEPT !.version = v, !.repos = @ \ gone] IN
         /\ e \in Database /\ e.version = v /\ e.cols = d.cols /\ e.repos = d.repos \ gone
         /\ e.logs = d.logs /\ SameSets(d, e) /\ SameRequests(d, e)
  <1> DEFINE repos == d.repos \ gone
             e == [d EXCEPT !.version = v, !.repos = repos]
  <1>1. repos \in SUBSET Nat
    BY Fields
  <1>2. [d EXCEPT !.version = v, !.repos = @ \ gone] = e
    BY DEF Database
  <1> HIDE DEF repos
  <1>3. /\ e \in Database /\ e.version = v /\ e.cols = d.cols /\ e.repos = repos
        /\ e.logs = d.logs /\ SameSets(d, e) /\ SameRequests(d, e)
    BY <1>1 DEF Database, SameSets, SameRequests
  <1> HIDE DEF e
  <1>4. QED
    BY <1>2, <1>3 DEF repos

LEMMA FileIs ==
  ASSUME NEW l \in Legacy, NEW v \in Nat \ {0}
  PROVE  LET i == IF v > Current THEN Current ELSE v
             e == File(v, l)
         IN
         /\ e.version = v
         /\ Sound(i, e) /\ RowsBelong(e)
         /\ v \in 1 .. 5 /\ l.removed = {} /\ l.gone = {} => NoGaps(i, e)
         /\ \A k \in ToKeep(l) : Kept(i, e, l, k)
  <1> DEFINE i == IF v > Current THEN Current ELSE v
             d == Upgraded(First(l), 1, i)
             c == DropRequests(d, l.removed)
             e == [c EXCEPT !.version = v, !.repos = @ \ l.gone]
  <1>1. i \in 1 .. 21 /\ i = (IF v < Current THEN v ELSE Current)
    BY DEF Current
  <1>2. File(v, l) = e
    BY <1>1 DEF File
  <1>3. Good(i, d, l)
    BY <1>1, UpgradedGood
  <1> HIDE DEF i, d
  <1>4. /\ d \in Database /\ RowsBelong(d) /\ NoGaps(i, d) /\ Sound(i, d)
        /\ \A k \in l.ids \ l.blank : Kept(i, d, l, k)
    BY <1>3 DEF Good, Sound, Belong
  <1>5. Sound(i, c) /\ RowsBelong(c)
    BY <1>1, <1>4, DropSound, BelongDrop DEF Current
  <1>13. d \in Database
    BY <1>4
  <1>6. /\ c.repos = d.repos /\ c.lastId = d.lastId
        /\ c.prs = Keep(d.prs, DOMAIN d.prs \ l.removed)
        /\ c.sets = Keep(d.sets, {s \in DOMAIN d.sets : d.sets[s].pr \notin l.removed})
        /\ c.patches = {p \in d.patches : ~ (p.set \in DOMAIN d.sets /\ d.sets[p.set].pr \in l.removed)}
        /\ c.logs = {x \in d.logs : x.pr \notin l.removed}
    BY <1>13, DropIs
  <1> HIDE DEF c
  <1>7. /\ e \in Database /\ e.version = v /\ e.cols = c.cols /\ e.repos = c.repos \ l.gone
        /\ e.logs = c.logs /\ SameSets(c, e) /\ SameRequests(c, e)
    BY <1>5, Relabelled DEF Sound
  <1> HIDE DEF e
  <1>8. Sound(i, e)
    <2>1. IdsGiven(e) /\ ColumnsAre(i, e) /\ TimesEnd(e)
      BY <1>5, <1>7 DEF Sound, IdsGiven, ColumnsAre, TimesEnd, SameSets, SameRequests
    <2>2. RowsFilled(i, e)
      BY <1>5, <1>7 DEF Sound, SameRequests, RowsFilled, NotNull, NoNameTwice
    <2>3. QED
      BY <1>7, <2>1, <2>2 DEF Sound
  <1>9. RowsBelong(e)
    BY <1>5, <1>7, BelongSame, SameRowsWhole
  <1>10. ASSUME l.removed = {}, l.gone = {}
         PROVE  NoGaps(i, e)
    <2>1. c.prs = d.prs
      <3>1. DOMAIN d.prs \cap (DOMAIN d.prs \ l.removed) = DOMAIN d.prs
        BY <1>10
      <3>2. d.prs \in [DOMAIN d.prs -> Row]
        BY <1>4, Fields, TableIs
      <3>3. QED
        BY <1>6, <3>1, <3>2 DEF Keep
    <2>2. e.repos = d.repos
      BY <1>6, <1>7, <1>10
    <2>3. QED
      BY <1>4, <1>6, <1>7, <2>1, <2>2 DEF NoGaps, SameRequests
  <1>11. ASSUME NEW k \in ToKeep(l)
         PROVE  Kept(i, e, l, k)
    <2>1. k \in l.ids \ l.blank /\ k \notin l.removed /\ l.repo[k] \notin l.gone
      BY DEF ToKeep
    <2>2. Kept(i, d, l, k)
      BY <1>4, <2>1
    <2>3. /\ k \in DOMAIN d.prs /\ k \in DOMAIN d.sets /\ d.sets[k].pr = k
          /\ [set |-> k, key |-> k] \in d.patches
      BY <2>2 DEF Kept
    <2>4. k \in DOMAIN e.prs /\ e.prs[k] = d.prs[k]
      BY <1>6, <1>7, <2>1, <2>3 DEF Keep, SameRequests
    <2>5. k \in DOMAIN e.sets /\ e.sets[k] = d.sets[k]
      BY <1>6, <1>7, <2>1, <2>3 DEF Keep, SameSets
    <2>6. [set |-> k, key |-> k] \in e.patches
      BY <1>6, <1>7, <2>1, <2>3 DEF SameSets
    <2>7. e.logs \subseteq d.logs /\ \A x \in d.logs : x.pr = k => x \in e.logs
      BY <1>6, <1>7, <2>1
    <2>8. l.repo[k] \in d.repos => l.repo[k] \in e.repos
      BY <1>6, <1>7, <2>1
    <2>9. QED
      BY <2>2, <2>4, <2>5, <2>6, <2>7, <2>8 DEF Kept
  <1>12. QED
    BY <1>2, <1>7, <1>8, <1>9, <1>10, <1>11 DEF i

LEMMA StageStep ==
  ASSUME legacy \in Legacy, NEW i \in 1 .. 20, NEW d, Stage(i, d)
  PROVE  Stage(i + 1, Migrate(i, d))
  <1>1. Sound(i + 1, Migrate(i, d))
    BY SoundStep DEF Stage
  <1>2. Dense => Belong(i + 1, Migrate(i, d))
    BY BelongStep DEF Stage
  <1>3. Dense /\ start # 0 => \A k \in ToKeep(legacy) : Kept(i + 1, Migrate(i, d), legacy, k)
    BY KeptStep DEF Stage, ToKeep
  <1>4. QED
    BY <1>1, <1>2, <1>3 DEF Stage

LEMMA StageVersion ==
  ASSUME NEW i, NEW d, Stage(i, d), NEW v \in Nat
  PROVE  Stage(i, [d EXCEPT !.version = v])
  <1> DEFINE e == [d EXCEPT !.version = v]
  <1>1. d \in Database
    BY DEF Stage, Sound
  <1>2. /\ e \in Database /\ e.cols = d.cols /\ e.repos = d.repos
        /\ e.prs = d.prs /\ e.lastId = d.lastId
        /\ e.sets = d.sets /\ e.lastSet = d.lastSet
        /\ e.patches = d.patches /\ e.logs = d.logs
    BY <1>1 DEF Database
  <1> HIDE DEF e
  <1>3. Sound(i, e)
    BY <1>2 DEF Stage, Sound, IdsGiven, ColumnsAre, RowsFilled, NotNull, NoNameTwice, TimesEnd
  <1>4. Belong(i, d) => Belong(i, e)
    BY <1>2 DEF Belong, RowsBelong, NoGaps
  <1>5. \A k : Kept(i, d, legacy, k) => Kept(i, e, legacy, k)
    BY <1>2 DEF Kept
  <1>6. QED
    BY <1>3, <1>4, <1>5 DEF Stage, e

\* The schema of this version in an empty file.
LEMMA EmptyStage ==
  ASSUME start = 0
  PROVE  Stage(Current, [Empty EXCEPT !.cols =
                           @ \cup {"base_commit_sha", "repo_name", "last_activity", "slug"}])
  <1> DEFINE cols == {"base_commit_sha", "repo_name", "last_activity", "slug"}
             none == <<>>
             e == [version |-> 0, cols |-> cols, repos |-> {}, prs |-> none, lastId |-> 0,
                   sets |-> none, lastSet |-> 0, patches |-> {}, logs |-> {}]
  <1>1. [Empty EXCEPT !.cols = @ \cup cols] = e
    <2>1. {} \cup cols = cols
      OBVIOUS
    <2> HIDE DEF cols
    <2>2. Empty.cols = {}
      BY DEF Empty
    <2>3. [Empty EXCEPT !.cols = @ \cup cols] = [Empty EXCEPT !.cols = cols]
      BY <2>1, <2>2
    <2>4. [Empty EXCEPT !.cols = cols] = e
      <3>1. Empty = [version |-> 0, cols |-> {}, repos |-> {}, prs |-> none, lastId |-> 0,
                     sets |-> none, lastSet |-> 0, patches |-> {}, logs |-> {}]
        BY DEF Empty
      <3> HIDE DEF none
      <3>2. QED
        BY <3>1
    <2>5. QED
      BY <2>3, <2>4
  <1>2. cols \in SUBSET Columns
    BY DEF Columns
  <1>3. DOMAIN <<>> = {} /\ <<>> \in Tables(Row) /\ <<>> \in Tables([pr : Nat, key : Nat])
    <2>1. DOMAIN <<>> = {}
      OBVIOUS
    <2>2. <<>> \in [{} -> Row] /\ <<>> \in [{} -> [pr : Nat, key : Nat]]
      OBVIOUS
    <2>3. QED
      BY <2>1, <2>2, TableIs
  <1>4. e \in Database
    BY <1>2, <1>3 DEF Database
  <1>5. IdsGiven(e) /\ RowsFilled(Current, e) /\ TimesEnd(e)
    BY <1>3 DEF IdsGiven, RowsFilled, NotNull, NoNameTwice, TimesEnd
  <1>6. ColumnsAre(Current, e)
    BY DEF ColumnsAre, Current
  <1>7. Belong(Current, e)
    BY <1>3 DEF Belong, RowsBelong, NoGaps, Current
  <1>8. Stage(Current, e)
    BY <1>4, <1>5, <1>6, <1>7 DEF Stage, Sound
  <1>9. QED
    BY <1>1, <1>8

\* A second upgrade of a file of version 18 or 19 starts over.
LEMMA StageAgain ==
  ASSUME NEW i \in {18, 19}, NEW d, Stage(Current, d)
  PROVE  Stage(i, d)
  <1>1. Sound(i, d)
    BY DEF Stage, Sound, ColumnsAre, RowsFilled, Current
  <1>2. Belong(Current, d) => Belong(i, d)
    BY DEF Belong, NoGaps
  <1>3. \A k : Kept(Current, d, legacy, k) => Kept(i, d, legacy, k)
    BY DEF Kept, Current
  <1>4. QED
    BY <1>1, <1>2, <1>3 DEF Stage

\* A patch request pushed to an upgraded file.
Pushed(d, r, key) ==
  LET id == d.lastId + 1
      set == d.lastSet + 1
  IN  [d EXCEPT
         !.prs = InsertRow(@, id, [key |-> key, repo |-> 0, repoName |-> r.repo,
                   blank |-> r.blank, created |-> 30, activity |-> 30, slug |-> r.slug]),
         !.lastId = id,
         !.sets = InsertRow(@, set, [pr |-> id, key |-> key]),
         !.lastSet = set,
         !.patches = @ \cup {[set |-> set, key |-> key]},
         !.logs = @ \cup {[pr |-> id, kind |-> "pr_created", at |-> 30, key |-> key]}]

LEMMA PushedIs ==
  ASSUME NEW d \in Database, IdsGiven(d), NEW r \in Pushes, NEW key \in Nat
  PROVE  LET e == Pushed(d, r, key)
             id == d.lastId + 1
             set == d.lastSet + 1
         IN
         /\ e \in Database /\ e.version = d.version /\ e.cols = d.cols /\ e.repos = d.repos
         /\ id \in Nat /\ id \notin DOMAIN d.prs /\ set \in Nat /\ set \notin DOMAIN d.sets
         /\ e.lastId = id /\ e.lastSet = set
         /\ DOMAIN e.prs = DOMAIN d.prs \cup {id}
         /\ \A j \in DOMAIN d.prs : e.prs[j] = d.prs[j]
         /\ e.prs[id].key = key /\ e.prs[id].repoName = r.repo /\ e.prs[id].slug = r.slug
         /\ e.prs[id].activity = 30
         /\ r.repo # 0 /\ r.slug # 0
         /\ DOMAIN e.sets = DOMAIN d.sets \cup {set}
         /\ \A s \in DOMAIN d.sets : e.sets[s] = d.sets[s]
         /\ e.sets[set].pr = id /\ e.sets[set].key = key
         /\ e.patches = d.patches \cup {[set |-> set, key |-> key]}
         /\ e.logs = d.logs \cup {[pr |-> id, kind |-> "pr_created", at |-> 30, key |-> key]}
  <1> DEFINE id == d.lastId + 1
             set == d.lastSet + 1
             row == [key |-> key, repo |-> 0, repoName |-> r.repo,
                     blank |-> r.blank, created |-> 30, activity |-> 30, slug |-> r.slug]
             setRow == [pr |-> id, key |-> key]
             prs == InsertRow(d.prs, id, row)
             sets == InsertRow(d.sets, set, setRow)
             patches == d.patches \cup {[set |-> set, key |-> key]}
             logs == d.logs \cup {[pr |-> id, kind |-> "pr_created", at |-> 30, key |-> key]}
             e == [d EXCEPT !.prs = prs, !.lastId = id, !.sets = sets, !.lastSet = set,
                            !.patches = patches, !.logs = logs]
  <1>1. /\ d.prs \in Tables(Row) /\ d.sets \in Tables([pr : Nat, key : Nat])
        /\ d.lastId \in Nat /\ d.lastSet \in Nat
        /\ d.patches \in SUBSET [set : Nat, key : Nat] /\ d.logs \in SUBSET Entry
    BY Fields
  <1>2. /\ id \in Nat /\ id \notin DOMAIN d.prs /\ set \in Nat /\ set \notin DOMAIN d.sets
    BY <1>1 DEF IdsGiven
  <1>3. /\ r.repo \in Nat /\ r.repo # 0 /\ r.slug \in Nat /\ r.slug # 0 /\ r.blank \in BOOLEAN
    BY PushesAssumption
  <1>4. /\ row \in Row /\ row.key = key /\ row.repoName = r.repo /\ row.slug = r.slug
        /\ row.activity = 30
    BY <1>3 DEF Row
  <1>5. setRow \in [pr : Nat, key : Nat] /\ setRow.pr = id /\ setRow.key = key
    BY <1>2
  <1>6. patches \in SUBSET [set : Nat, key : Nat] /\ logs \in SUBSET Entry
    BY <1>1, <1>2 DEF Entry
  <1>7. Pushed(d, r, key) = e
    BY DEF Pushed
  <1> HIDE DEF id, set, row, setRow
  <1>8. /\ prs \in Tables(Row) /\ DOMAIN prs = DOMAIN d.prs \cup {id} /\ prs[id] = row
        /\ \A j \in DOMAIN d.prs : prs[j] = d.prs[j]
    <2>1. /\ prs \in Tables(Row) /\ DOMAIN prs = DOMAIN d.prs \cup {id} /\ prs[id] = row
          /\ \A j \in DOMAIN d.prs \ {id} : prs[j] = d.prs[j]
      <3> DEFINE t == d.prs
      <3>1. t \in Tables(Row) /\ id \in Nat /\ row \in Row
        BY <1>1, <1>2, <1>4
      <3> HIDE DEF t
      <3>2. /\ InsertRow(t, id, row) \in Tables(Row)
            /\ DOMAIN InsertRow(t, id, row) = DOMAIN t \cup {id}
            /\ InsertRow(t, id, row)[id] = row
            /\ \A i \in DOMAIN t \ {id} : InsertRow(t, id, row)[i] = t[i]
        BY <3>1, InsertIs
      <3>3. QED
        BY <3>2 DEF t
    <2> HIDE DEF prs
    <2>2. QED
      BY <1>2, <2>1
  <1>9. /\ sets \in Tables([pr : Nat, key : Nat]) /\ DOMAIN sets = DOMAIN d.sets \cup {set}
        /\ sets[set] = setRow
        /\ \A s \in DOMAIN d.sets : sets[s] = d.sets[s]
    <2>1. /\ sets \in Tables([pr : Nat, key : Nat]) /\ DOMAIN sets = DOMAIN d.sets \cup {set}
          /\ sets[set] = setRow
          /\ \A s \in DOMAIN d.sets \ {set} : sets[s] = d.sets[s]
      <3> DEFINE t == d.sets
                 Refs == [pr : Nat, key : Nat]
      <3>1. t \in Tables(Refs) /\ set \in Nat /\ setRow \in Refs
        BY <1>1, <1>2, <1>5
      <3> HIDE DEF t, Refs
      <3>2. /\ InsertRow(t, set, setRow) \in Tables(Refs)
            /\ DOMAIN InsertRow(t, set, setRow) = DOMAIN t \cup {set}
            /\ InsertRow(t, set, setRow)[set] = setRow
            /\ \A i \in DOMAIN t \ {set} : InsertRow(t, set, setRow)[i] = t[i]
        <4>1. InsertRow(t, set, setRow) \in Tables(Refs)
          BY <3>1, InsertIs
        <4>2. /\ DOMAIN InsertRow(t, set, setRow) = DOMAIN t \cup {set}
              /\ InsertRow(t, set, setRow)[set] = setRow
              /\ \A i \in DOMAIN t \ {set} : InsertRow(t, set, setRow)[i] = t[i]
          BY DEF InsertRow
        <4>3. QED
          BY <4>1, <4>2
      <3>3. QED
        BY <3>2 DEF t, Refs
    <2> HIDE DEF sets
    <2>2. QED
      BY <1>2, <2>1
  <1> HIDE DEF prs, sets, patches, logs
  <1>10. /\ e \in Database /\ e.version = d.version /\ e.cols = d.cols /\ e.repos = d.repos
         /\ e.prs = prs /\ e.lastId = id /\ e.sets = sets /\ e.lastSet = set
         /\ e.patches = patches /\ e.logs = logs
    BY <1>2, <1>6, <1>8, <1>9 DEF Database
  <1> HIDE DEF e
  <1>11. QED
    BY <1>2, <1>3, <1>4, <1>5, <1>7, <1>8, <1>9, <1>10 DEF id, set, patches, logs

LEMMA PushedStage ==
  ASSUME NEW d, Stage(Current, d), NEW r \in Pushes, NEW key \in Nat,
         ~ \E j \in DOMAIN d.prs : d.prs[j].repoName = r.repo /\ d.prs[j].slug = r.slug
  PROVE  Stage(Current, Pushed(d, r, key))
  <1> DEFINE e == Pushed(d, r, key)
             id == d.lastId + 1
             set == d.lastSet + 1
  <1>1. /\ d \in Database /\ IdsGiven(d) /\ ColumnsAre(Current, d) /\ RowsFilled(Current, d)
        /\ TimesEnd(d)
    BY DEF Stage, Sound
  <1>2. /\ e \in Database /\ e.cols = d.cols /\ e.repos = d.repos
        /\ id \in Nat /\ id \notin DOMAIN d.prs /\ set \in Nat /\ set \notin DOMAIN d.sets
        /\ e.lastId = id /\ e.lastSet = set
        /\ DOMAIN e.prs = DOMAIN d.prs \cup {id}
        /\ \A j \in DOMAIN d.prs : e.prs[j] = d.prs[j]
        /\ e.prs[id].key = key /\ e.prs[id].repoName = r.repo /\ e.prs[id].slug = r.slug
        /\ e.prs[id].activity = 30
        /\ r.repo # 0 /\ r.slug # 0
        /\ DOMAIN e.sets = DOMAIN d.sets \cup {set}
        /\ \A s \in DOMAIN d.sets : e.sets[s] = d.sets[s]
        /\ e.sets[set].pr = id /\ e.sets[set].key = key
        /\ e.patches = d.patches \cup {[set |-> set, key |-> key]}
        /\ e.logs = d.logs \cup {[pr |-> id, kind |-> "pr_created", at |-> 30, key |-> key]}
    BY <1>1, PushedIs
  <1>3. d.lastId \in Nat /\ d.lastSet \in Nat /\ id = d.lastId + 1 /\ set = d.lastSet + 1
    BY <1>1, Fields
  <1> HIDE DEF e, id, set
  <1>4. IdsGiven(e)
    BY <1>1, <1>2, <1>3 DEF IdsGiven
  <1>5. ColumnsAre(Current, e)
    BY <1>1, <1>2 DEF ColumnsAre
  <1>6. RowsFilled(Current, e)
    <2>1. /\ NotNull(d, "repoName") /\ NotNull(d, "activity") /\ NotNull(d, "slug")
          /\ NoNameTwice(d)
      BY <1>1 DEF RowsFilled, Current
    <2>2. NotNull(e, "repoName") /\ NotNull(e, "activity") /\ NotNull(e, "slug")
      BY <1>2, <2>1 DEF NotNull
    <2>3. NoNameTwice(e)
      BY <1>2, <2>1 DEF NoNameTwice
    <2>4. QED
      BY <2>2, <2>3 DEF RowsFilled, Current
  <1>7. TimesEnd(e)
    <2>1. PICK n \in Nat : \A x \in d.logs : x.at <= n
      BY <1>1 DEF TimesEnd
    <2>2. \A x \in d.logs : x.at \in Nat
      BY <1>1, Fields DEF Entry
    <2>3. \A x \in e.logs : x.at <= n + 30
      BY <1>2, <2>1, <2>2
    <2>4. n + 30 \in Nat
      OBVIOUS
    <2>5. QED
      BY <2>3, <2>4 DEF TimesEnd
  <1>8. ASSUME RowsBelong(d)
        PROVE  RowsBelong(e)
    <2>1. ASSUME NEW s \in DOMAIN e.sets
          PROVE  e.sets[s].pr \in DOMAIN e.prs /\ e.prs[e.sets[s].pr].key = e.sets[s].key
      <3>1. CASE s = set
        BY <1>2, <3>1
      <3>2. CASE s \in DOMAIN d.sets
        BY <1>2, <1>8, <3>2 DEF RowsBelong
      <3>3. QED
        BY <1>2, <3>1, <3>2
    <2>2. ASSUME NEW x \in e.logs
          PROVE  x.pr \in DOMAIN e.prs /\ e.prs[x.pr].key = x.key
      <3>1. CASE x \in d.logs
        BY <1>2, <1>8, <3>1 DEF RowsBelong
      <3>2. CASE x \notin d.logs
        BY <1>2, <3>2
      <3>3. QED
        BY <3>1, <3>2
    <2>3. ASSUME NEW p \in e.patches
          PROVE  p.set \in DOMAIN e.sets /\ e.sets[p.set].key = p.key
      <3>1. CASE p \in d.patches
        BY <1>2, <1>8, <3>1 DEF RowsBelong
      <3>2. CASE p \notin d.patches
        BY <1>2, <3>2
      <3>3. QED
        BY <3>1, <3>2
    <2>4. QED
      BY <2>1, <2>2, <2>3 DEF RowsBelong
  <1>9. NoGaps(Current, e)
    BY DEF NoGaps, Current
  <1>10. ASSUME NEW k, Kept(Current, d, legacy, k)
         PROVE  Kept(Current, e, legacy, k)
    <2>1. /\ k \in DOMAIN d.prs /\ k \in DOMAIN d.sets
          /\ [set |-> k, key |-> k] \in d.patches
      BY <1>10 DEF Kept
    <2>2. /\ k \in DOMAIN e.prs /\ e.prs[k] = d.prs[k]
          /\ k \in DOMAIN e.sets /\ e.sets[k] = d.sets[k]
          /\ [set |-> k, key |-> k] \in e.patches
          /\ d.logs \subseteq e.logs
      BY <1>2, <2>1
    <2>3. QED
      BY <1>10, <2>2 DEF Kept, Current
  <1>11. Sound(Current, e)
    BY <1>2, <1>4, <1>5, <1>6, <1>7 DEF Sound
  <1>12. QED
    BY <1>8, <1>9, <1>10, <1>11 DEF Stage, Belong, e

\* What the queries of this version read.
LEMMA ColumnsNow ==
  ASSUME NEW d, Sound(Current, d)
  PROVE  d.cols = {"base_commit_sha", "repo_name", "last_activity", "slug"}
  <1>1. d.cols \in SUBSET Columns
    BY Fields DEF Sound
  <1>2. /\ "repo" \notin d.cols /\ "event_repo" \notin d.cols /\ "status" \notin d.cols
        /\ "repos" \notin d.cols /\ "repo_ref" \notin d.cols /\ "event_repo_ref" \notin d.cols
        /\ "base_commit_sha" \in d.cols /\ "repo_name" \in d.cols
        /\ "last_activity" \in d.cols /\ "slug" \in d.cols
    BY DEF Sound, ColumnsAre, Current
  <1>3. QED
    BY <1>1, <1>2 DEF Columns
-----------------------------------------------------------------------------
(***************************************************************************)
(* An upgrade of a file that another process has upgraded.                 *)
(***************************************************************************)

LEMMA FirstWall ==
  ASSUME start \in 1 .. 20, start \notin {18, 19}
  PROVE  BeforeWall(start)
  <1>1. start = 1 => BeforeWall(start)
    BY DEF BeforeWall, Walls
  <1>2. start \in 2 .. 4 => BeforeWall(start)
    BY DEF BeforeWall, Walls
  <1>3. start \in 5 .. 8 => BeforeWall(start)
    BY DEF BeforeWall, Walls
  <1>4. start \in 9 .. 10 => BeforeWall(start)
    BY DEF BeforeWall, Walls
  <1>5. start \in 11 .. 15 => BeforeWall(start)
    BY DEF BeforeWall, Walls
  <1>6. start \in 16 .. 17 => BeforeWall(start)
    BY DEF BeforeWall, Walls
  <1>7. start = 20 => BeforeWall(start)
    BY DEF BeforeWall, Walls
  <1>8. QED
    BY <1>1, <1>2, <1>3, <1>4, <1>5, <1>6, <1>7

LEMMA WallStops ==
  ASSUME start \in 1 .. 20, start \notin {18, 19},
         NEW i \in start .. 20, BeforeWall(i), i \in Walls, NEW d, ColumnsOfLater(d)
  PROVE  ~Accepted(i, d)
  <1>1. i = 20 => start = 20
    BY DEF BeforeWall, Walls
  <1>2. /\ "repo" \notin d.cols /\ "event_repo" \notin d.cols
        /\ "repo_ref" \notin d.cols /\ "status" \notin d.cols
        /\ "base_commit_sha" \in d.cols /\ "repo_name" \in d.cols /\ "last_activity" \in d.cols
        /\ start = 20 => "slug" \in d.cols
    BY DEF ColumnsOfLater
  <1>3. i \in {1, 4, 5} => ~Accepted(i, d)
    BY <1>2 DEF Accepted
  <1>4. i \in {6, 7} => ~Accepted(i, d)
    BY <1>2 DEF Accepted
  <1>5. i \in {8, 10} => ~Accepted(i, d)
    BY <1>2 DEF Accepted
  <1>6. i \in {15, 17} => ~Accepted(i, d)
    BY <1>2 DEF Accepted
  <1>7. i = 20 => ~Accepted(i, d)
    BY <1>1, <1>2 DEF Accepted
  <1>8. QED
    BY <1>3, <1>4, <1>5, <1>6, <1>7 DEF Walls

LEMMA WallStep ==
  ASSUME start \in 1 .. 20, start \notin {18, 19},
         NEW i \in start .. 20, BeforeWall(i),
         NEW d \in Database, TimesEnd(d), ColumnsOfLater(d), Accepted(i, d)
  PROVE  LET e == Migrate(i, d) IN
         e \in Database /\ TimesEnd(e) /\ BeforeWall(i + 1) /\ ColumnsOfLater(e)
  <1> DEFINE e == Migrate(i, d)
  <1>1. i \notin Walls
    BY WallStops
  <1>2. BeforeWall(i + 1)
    <2>1. PICK w \in Walls : i <= w /\ \A u \in Walls : u < start \/ w <= u
      BY DEF BeforeWall
    <2>2. w \in Nat /\ i \in Nat /\ i + 1 <= w
      BY <1>1, <2>1 DEF Walls
    <2>3. QED
      BY <2>1, <2>2 DEF BeforeWall
  <1>3. i \in {2, 3, 9, 11, 12, 13, 14, 16}
    <2>1. i \in {2, 3, 9, 11, 12, 13, 14, 16, 18, 19}
      BY <1>1 DEF Walls
    <2>2. i \notin {18, 19}
      BY DEF BeforeWall, Walls
    <2>3. QED
      BY <2>1, <2>2
  <1>4. /\ e \in Database /\ e.logs \subseteq d.logs
        /\ e.cols \subseteq d.cols \cup {"repos"}
        /\ d.cols \subseteq e.cols \cup {"repos", "event_repo", "event_repo_ref"}
    <2>1. CASE i \in {2, 13}
      <3>1. e = d
        BY <2>1, MigrateIs
      <3>2. QED
        BY <3>1
    <2>2. CASE i = 3
      <3>1. e = AddColumn(d, "repos") /\ "repos" \in Columns
        BY <2>2, MigrateIs DEF Columns
      <3> HIDE DEF e
      <3>2. e \in Database /\ e.cols = d.cols \cup {"repos"} /\ e.logs = d.logs
        BY <3>1, AddColumnIs
      <3>3. QED
        BY <3>2
    <2>3. CASE i = 9
      <3>1. e = DropOrphans(d)
        BY <2>3, MigrateIs
      <3> HIDE DEF e
      <3>2. PICK ids : e = DropRequests(d, ids)
        BY <3>1 DEF DropOrphans
      <3>3. e \in Database /\ e.cols = d.cols /\ e.logs = {x \in d.logs : x.pr \notin ids}
        BY <3>2, DropIs
      <3>4. QED
        BY <3>3
    <2>4. CASE i = 11
      <3> DEFINE times == [j \in DOMAIN d.prs |-> MaxOr0(LogTimes(d, j))]
      <3>1. e = FillActivity(d, times)
        BY <2>4, MigrateIs DEF ActivityFromLogs
      <3>2. \A j \in DOMAIN d.prs : times[j] \in Nat
        BY TimesOf
      <3> HIDE DEF e, times
      <3>3. e \in Database /\ e.cols = d.cols /\ e.logs = d.logs
        BY <3>1, <3>2, FillActivityIs
      <3>4. QED
        BY <3>3
    <2>5. CASE i = 12
      <3> DEFINE times == [j \in DOMAIN d.prs |-> d.prs[j].created]
      <3>1. e = FillActivity(d, times)
        BY <2>5, MigrateIs DEF ActivityFromCreation
      <3>2. \A j \in DOMAIN d.prs : times[j] \in Nat
        BY Fields DEF Row
      <3> HIDE DEF e, times
      <3>3. e \in Database /\ e.cols = d.cols /\ e.logs = d.logs
        BY <3>1, <3>2, FillActivityIs
      <3>4. QED
        BY <3>3
    <2>6. CASE i = 14
      <3>1. e = [d EXCEPT !.repos = {}, !.cols = @ \ {"repos"}]
        BY <2>6, MigrateIs
      <3> HIDE DEF e
      <3>2. e \in Database /\ e.cols = d.cols \ {"repos"} /\ e.logs = d.logs
        BY <3>1, DropReposIs
      <3>3. QED
        BY <3>2
    <2>7. CASE i = 16
      <3>1. e = [d EXCEPT !.cols = @ \ {"event_repo", "event_repo_ref"}]
        BY <2>7, MigrateIs
      <3> HIDE DEF e
      <3>2. e \in Database /\ e.cols = d.cols \ {"event_repo", "event_repo_ref"}
            /\ e.logs = d.logs
        BY <3>1, DropColumnsIs
      <3>3. QED
        BY <3>2
    <2>8. QED
      BY <1>3, <2>1, <2>2, <2>3, <2>4, <2>5, <2>6, <2>7
  <1> HIDE DEF e
  <1>5. TimesEnd(e)
    BY <1>4 DEF TimesEnd
  <1>6. ColumnsOfLater(e)
    BY <1>4 DEF ColumnsOfLater
  <1>7. QED
    BY <1>2, <1>4, <1>5, <1>6 DEF e

\* The first upgrade of a file finds what every migration needs.
LEMMA SoundAccepted ==
  ASSUME NEW i \in 1 .. 20, NEW d, Sound(i, d)
  PROVE  Accepted(i, d)
  <1>1. ColumnsAre(i, d) /\ RowsFilled(i, d)
    BY DEF Sound
  <1>2. i \in {1, 7, 10} => Accepted(i, d)
    BY <1>1 DEF ColumnsAre, Accepted
  <1>3. i \in {4, 5, 6, 8} => Accepted(i, d)
    BY <1>1 DEF ColumnsAre, Accepted
  <1>4. i = 15 => Accepted(i, d)
    BY <1>1 DEF ColumnsAre, RowsFilled, Accepted
  <1>5. i \in {17, 20} => Accepted(i, d)
    BY <1>1 DEF ColumnsAre, Accepted
  <1>6. i \notin {1, 4, 5, 6, 7, 8, 10, 15, 17, 20} => Accepted(i, d)
    BY DEF Accepted
  <1>7. QED
    BY <1>2, <1>3, <1>4, <1>5, <1>6
-----------------------------------------------------------------------------
(***************************************************************************)
(* The invariant is inductive.                                             *)
(***************************************************************************)

LEMMA InitUpgradeInv == Init => UpgradeInv
  <1> SUFFICES ASSUME Init
               PROVE  UpgradeInv
    OBVIOUS
  <1>1. /\ start \in Nat /\ legacy \in Legacy /\ pushed = 0
        /\ legacy.gone = {} \/ start \in 6 .. 8
        /\ disk = File(start, legacy)
        /\ proc = [p \in Procs |-> Idle]
    BY StartsAssumption DEF Init
  <1>2. CASE start = 0
    <2>1. disk = Empty
      BY <1>1, <1>2 DEF File
    <2>2. disk.version = 0
      BY <2>1 DEF Empty
    <2>3. DiskInv
      BY <1>2, <2>1, <2>2 DEF DiskInv
    <2>4. ProcInv /\ WorkInv
      BY <1>1 DEF ProcInv, ProcType, WorkInv, Idle
    <2>5. QED
      BY <1>1, <2>3, <2>4 DEF UpgradeInv
  <1>3. CASE start # 0
    <2> DEFINE i == IF start > Current THEN Current ELSE start
    <2>1. /\ disk.version = start /\ Sound(i, disk) /\ RowsBelong(disk)
          /\ start \in 1 .. 5 /\ legacy.removed = {} /\ legacy.gone = {} => NoGaps(i, disk)
          /\ \A k \in ToKeep(legacy) : Kept(i, disk, legacy, k)
      <3>1. start \in Nat \ {0}
        BY <1>1, <1>3
      <3>2. QED
        BY <1>1, <3>1, FileIs
    <2>2. Dense => NoGaps(i, disk)
      <3>1. CASE start \in 1 .. 5
        BY <1>1, <2>1, <3>1 DEF Dense
      <3>2. CASE start \notin 1 .. 5
        <4>1. ~(i <= 5) /\ i # 5
          BY <1>1, <1>3, <3>2 DEF Current
        <4>2. QED
          BY <4>1 DEF NoGaps
      <3>3. QED
        BY <3>1, <3>2
    <2>3. Stage(i, disk)
      BY <2>1, <2>2 DEF Stage, Belong
    <2>4. DiskInv
      BY <1>3, <2>1, <2>3 DEF DiskInv
    <2>5. ProcInv /\ WorkInv
      BY <1>1 DEF ProcInv, ProcType, WorkInv, Idle
    <2>6. QED
      BY <1>1, <2>4, <2>5 DEF UpgradeInv
  <1>4. QED
    BY <1>2, <1>3

\* Where the file and the history stay as they are, what is said of them stays.
LEMMA DiskStays ==
  ASSUME DiskInv, UNCHANGED <<disk, start, legacy>>
  PROVE  DiskInv'
  BY DEF DiskInv, Stage, Dense

\* A process that leaves its transaction, or is in none, and the others.
LEMMA OthersGoOn ==
  ASSUME ProcInv, WorkInv, UNCHANGED <<disk, start, legacy>>,
         NEW p \in Procs, NEW q \in ProcType, proc' = [proc EXCEPT ![p] = q],
         q.pc # "tx", q.pc = "up" => q.opened > 0, q.opened > 0 => UpToDate,
         q.pc = "begin" => q.at = start /\ start < Current,
         lock # p => UNCHANGED <<lock, work>>
  PROVE  ProcInv' /\ WorkInv'
  <1>1. proc' \in [Procs -> ProcType] /\ proc'[p] = q
        /\ \A r \in Procs \ {p} : proc'[r] = proc[r]
    BY DEF ProcInv
  <1>2. \A r \in Procs : proc'[r].pc = "tx" =>
          r # p /\ proc[r].pc = "tx" /\ lock = r /\ lock' = lock /\ work' = work
    BY <1>1 DEF ProcInv
  <1>3. UpToDate' = UpToDate
    BY DEF UpToDate
  <1>4. ProcInv'
    <2> SUFFICES ASSUME NEW r \in Procs
                 PROVE  /\ proc'[r].pc = "up" => proc'[r].opened > 0
                        /\ proc'[r].opened > 0 => UpToDate
                        /\ proc'[r].pc = "begin" => proc'[r].at = start /\ start < Current
                        /\ proc'[r].pc = "tx" => lock' = r
      BY <1>1, <1>3 DEF ProcInv
    <2>1. CASE r = p
      BY <1>1, <2>1
    <2>2. CASE r # p
      BY <1>1, <1>2, <2>2 DEF ProcInv
    <2>3. QED
      BY <2>1, <2>2
  <1>5. WorkInv'
    <2> SUFFICES ASSUME NEW r \in Procs, proc'[r].pc = "tx"
                 PROVE  WorkAt(proc[r].at)'
      BY DEF WorkInv
    <2>1. /\ proc'[r] = proc[r] /\ work' = work /\ WorkAt(proc[r].at)
      BY <1>1, <1>2 DEF WorkInv
    <2>2. QED
      BY <2>1 DEF WorkAt, Stage, Dense, UpToDate, BeforeWall, ColumnsOfLater
  <1>6. QED
    BY <1>4, <1>5

\* The process that has the lock goes on in its transaction.
LEMMA LockHolder ==
  ASSUME ProcInv, UNCHANGED <<disk, lock, start, legacy>>,
         NEW p \in Procs, lock = p, proc[p].pc = "tx", NEW i \in Nat,
         proc' = [proc EXCEPT ![p] = [proc[p] EXCEPT !.at = i]]
  PROVE  /\ ProcInv'
         /\ \A r \in Procs : proc'[r].pc = "tx" => proc'[r].at = i
  <1>1. proc \in [Procs -> ProcType]
    BY DEF ProcInv
  <1>2. LET q == [proc[p] EXCEPT !.at = i] IN
        q \in ProcType /\ q.pc = "tx" /\ q.at = i /\ q.opened = proc[p].opened
    BY <1>1 DEF ProcType
  <1>3. /\ proc' \in [Procs -> ProcType]
        /\ proc'[p].pc = "tx" /\ proc'[p].at = i /\ proc'[p].opened = proc[p].opened
        /\ \A r \in Procs \ {p} : proc'[r] = proc[r] /\ proc[r].pc # "tx"
    BY <1>1, <1>2 DEF ProcInv
  <1>4. ProcInv'
    BY <1>3 DEF ProcInv, UpToDate
  <1>5. QED
    BY <1>3, <1>4

LEMMA PanicInv ==
  ASSUME UpgradeInv, NEW p \in Procs, Panic(p), UNCHANGED <<disk, pushed, start, legacy>>
  PROVE  UpgradeInv'
  <1>1. Idle \in ProcType /\ Idle.pc = "open" /\ Idle.opened = 0
    BY DEF Idle, ProcType
  <1>2. proc' = [proc EXCEPT ![p] = Idle] /\ (lock # p => UNCHANGED <<lock, work>>)
    BY DEF Panic
  <1>6. /\ Idle.pc # "tx" /\ (Idle.pc = "up" => Idle.opened > 0)
        /\ (Idle.opened > 0 => UpToDate) /\ (Idle.pc = "begin" => Idle.at = start /\ start < Current)
    BY <1>1
  <1>7. ProcInv /\ WorkInv /\ DiskInv
    BY DEF UpgradeInv
  <1>3. ProcInv' /\ WorkInv'
    BY <1>1, <1>2, <1>6, <1>7, OthersGoOn
  <1>4. DiskInv'
    BY <1>7, DiskStays
  <1>5. QED
    BY <1>3, <1>4 DEF UpgradeInv

\* What the transaction leaves when it has come to the end.
LEMMA EndStage ==
  ASSUME UpgradeInv, NEW p \in Procs, proc[p].pc = "tx", proc[p].at = Current
  PROVE  Stage(Current, work)
  <1>1. WorkAt(Current)
    BY DEF UpgradeInv, WorkInv
  <1>2. start \in Nat
    BY DEF UpgradeInv
  <1>3. CASE start = 0
    BY <1>1, <1>3 DEF WorkAt
  <1>4. CASE start # 0
    <2>1. ~BeforeWall(Current)
      BY DEF BeforeWall, Walls, Current
    <2>2. QED
      BY <1>1, <1>4, <2>1 DEF WorkAt
  <1>5. QED
    BY <1>3, <1>4

LEMMA DiskUpToDate ==
  ASSUME DiskInv, UpToDate
  PROVE  Stage(Current, disk) /\ disk.version = Current
  BY DEF DiskInv, UpToDate, Current

LEMMA NextUpgradeInv == UpgradeInv /\ [Next]_vars => UpgradeInv'
  <1> SUFFICES ASSUME UpgradeInv, [Next]_vars
               PROVE  UpgradeInv'
    OBVIOUS
  <1>1. /\ start \in Nat /\ legacy \in Legacy /\ pushed \in Nat
        /\ DiskInv /\ ProcInv /\ WorkInv
    BY DEF UpgradeInv
  <1>2. ASSUME UNCHANGED vars
        PROVE  UpgradeInv'
    <2>1. UNCHANGED <<disk, work, lock, proc, pushed, start, legacy>>
      BY <1>2 DEF vars
    <2>2. DiskInv'
      BY <1>1, <2>1, DiskStays
    <2>3. ProcInv'
      BY <1>1, <2>1 DEF ProcInv, UpToDate
    <2>4. WorkInv'
      BY <1>1, <2>1 DEF WorkInv, WorkAt, Stage, Dense, UpToDate, BeforeWall, ColumnsOfLater
    <2>5. QED
      BY <1>1, <2>1, <2>2, <2>3, <2>4 DEF UpgradeInv
  <1>3. ASSUME NEW p \in Procs, ReadVersion(p)
        PROVE  UpgradeInv'
    <2>1. UNCHANGED <<disk, pushed, stops, start, legacy>> /\ proc[p].pc = "open"
      BY <1>3 DEF ReadVersion
    <2>2. CASE disk.version > Current
      BY <1>3, <2>1, <2>2, PanicInv DEF ReadVersion
    <2>3. CASE ~(disk.version > Current)
      <3>1. PICK q : /\ proc' = [proc EXCEPT ![p] = q] /\ UNCHANGED <<lock, work>>
                     /\ disk.version = Current => q = Opened(proc[p])
                     /\ disk.version # Current =>
                          q = [proc[p] EXCEPT !.pc = "begin", !.at = disk.version]
        BY <1>1, <1>3, <2>3 DEF ReadVersion, ProcInv
      <3>2. proc[p] \in ProcType /\ (proc[p].opened > 0 => UpToDate)
        BY <1>1 DEF ProcInv
      <3>3. CASE disk.version = Current
        <4>1. /\ q \in ProcType /\ q.pc \in {"up", "open"} /\ (q.pc = "up" => q.opened > 0)
          BY <3>1, <3>2, <3>3 DEF Opened, ProcType
        <4>2. UpToDate
          BY <3>3 DEF UpToDate
        <4>3. ProcInv' /\ WorkInv'
          BY <1>1, <2>1, <3>1, <4>1, <4>2, OthersGoOn
        <4>4. QED
          BY <1>1, <2>1, <4>3, DiskStays DEF UpgradeInv
      <3>4. CASE disk.version # Current
        <4>1. disk.version = start /\ start < Current
          BY <1>1, <2>3, <3>4 DEF DiskInv, Current
        <4>2. /\ q \in ProcType /\ q.pc = "begin" /\ q.opened = proc[p].opened /\ q.at = start
          BY <1>1, <3>1, <3>2, <3>4, <4>1 DEF ProcType
        <4>3. ProcInv' /\ WorkInv'
          BY <1>1, <2>1, <3>1, <3>2, <4>1, <4>2, OthersGoOn
        <4>4. QED
          BY <1>1, <2>1, <4>3, DiskStays DEF UpgradeInv
      <3>5. QED
        BY <3>3, <3>4
    <2>4. QED
      BY <2>2, <2>3
  <1>4. ASSUME NEW p \in Procs, Begin(p)
        PROVE  UpgradeInv'
    <2>1. /\ proc[p].pc = "begin" /\ lock = NoProc /\ lock' = p /\ work' = disk
          /\ proc' = [proc EXCEPT ![p].pc = "tx"]
          /\ UNCHANGED <<disk, pushed, stops, start, legacy>>
      BY <1>4 DEF Begin
    <2>2. proc[p].at = start /\ start < Current /\ proc[p] \in ProcType
      BY <1>1, <2>1 DEF ProcInv
    <2>3. /\ proc' \in [Procs -> ProcType]
          /\ proc'[p].pc = "tx" /\ proc'[p].at = start /\ proc'[p].opened = proc[p].opened
          /\ \A r \in Procs \ {p} : proc'[r] = proc[r] /\ proc[r].pc # "tx"
      <3>1. [proc[p] EXCEPT !.pc = "tx"] \in ProcType
        BY <2>2 DEF ProcType
      <3>2. \A r \in Procs : proc[r].pc # "tx"
        BY <1>1, <2>1, ProcsAssumption DEF ProcInv
      <3>3. proc \in [Procs -> ProcType]
        BY <1>1 DEF ProcInv
      <3>4. proc' = [proc EXCEPT ![p] = [proc[p] EXCEPT !.pc = "tx"]]
        BY <2>1, <3>3
      <3>5. proc'[p] = [proc[p] EXCEPT !.pc = "tx"]
        BY <3>3, <3>4
      <3>6. QED
        BY <2>2, <3>1, <3>2, <3>3, <3>4, <3>5 DEF ProcType
    <2>4. ProcInv'
      BY <1>1, <2>1, <2>3 DEF ProcInv, UpToDate
    <2>5. start # 0 /\ ~UpToDate => Stage(start, disk)
      BY <1>1, <2>2 DEF DiskInv, UpToDate, Current
    <2>6. start \in {18, 19} /\ UpToDate => Stage(start, disk)
      BY <1>1, DiskUpToDate, StageAgain
    <2>7. start # 0 /\ UpToDate /\ start \notin {18, 19} =>
            disk \in Database /\ TimesEnd(disk) /\ BeforeWall(start) /\ ColumnsOfLater(disk)
      <3> SUFFICES ASSUME start # 0, UpToDate, start \notin {18, 19}
                   PROVE  /\ disk \in Database /\ TimesEnd(disk)
                          /\ BeforeWall(start) /\ ColumnsOfLater(disk)
        OBVIOUS
      <3>1. Sound(Current, disk)
        BY <1>1, DiskUpToDate DEF Stage
      <3>2. ColumnsOfLater(disk)
        BY <3>1, ColumnsNow DEF ColumnsOfLater
      <3>3. start \in 1 .. 20
        BY <1>1, <2>2 DEF Current
      <3>4. QED
        BY <3>1, <3>2, <3>3, FirstWall DEF Sound
    <2>8. start = 0 /\ ~UpToDate => disk = Empty
      BY <1>1 DEF DiskInv, UpToDate
    <2>9. start \in start .. Current /\ (start = 0 => start # Current)
      BY <1>1, <2>2 DEF Current
    <2>10. WorkAt(start)'
      BY <2>1, <2>2, <2>5, <2>6, <2>7, <2>8, <2>9
         DEF WorkAt, Stage, Dense, UpToDate, BeforeWall, ColumnsOfLater
    <2>11. WorkInv'
      BY <2>1, <2>3, <2>10 DEF WorkInv
    <2>12. QED
      BY <1>1, <2>1, <2>4, <2>11, DiskStays DEF UpgradeInv
  <1>5. ASSUME NEW p \in Procs, Busy(p)
        PROVE  UpgradeInv'
    BY <1>5, PanicInv DEF Busy
  <1>6. ASSUME NEW p \in Procs, Stop(p)
        PROVE  UpgradeInv'
    BY <1>6, PanicInv DEF Stop
  <1>7. ASSUME NEW p \in Procs, CreateSchema(p)
        PROVE  UpgradeInv'
    <2> DEFINE cols == {"base_commit_sha", "repo_name", "last_activity", "slug"}
    <2>1. /\ proc[p].pc = "tx" /\ proc[p].at = 0
          /\ work' = [work EXCEPT !.cols = @ \cup cols]
          /\ proc' = [proc EXCEPT ![p].at = Current]
          /\ UNCHANGED <<disk, lock, pushed, stops, start, legacy>>
      BY <1>7 DEF CreateSchema
    <2>2. WorkAt(0) /\ lock = p
      BY <1>1, <2>1 DEF WorkInv, ProcInv
    <2>3. start = 0
      BY <1>1, <2>2 DEF WorkAt, Current
    <2>4. CASE UpToDate
      <3>1. Stage(Current, disk) /\ work = disk
        BY <1>1, <2>2, <2>3, <2>4, DiskUpToDate DEF WorkAt
      <3>2. disk \in Database /\ disk.cols = cols
        BY <3>1, ColumnsNow DEF Stage, Sound
      <3>3. disk.cols \cup cols = disk.cols
        BY <3>2
      <3> HIDE DEF cols
      <3>4. work' = disk
        <4>1. work' = [disk EXCEPT !.cols = disk.cols]
          BY <2>1, <3>1, <3>2, <3>3 DEF Database
        <4>2. QED
          BY <3>2, <4>1 DEF Database
      <3>5. proc' = [proc EXCEPT ![p] = [proc[p] EXCEPT !.at = Current]]
        BY <1>1, <2>1 DEF ProcInv
      <3>6. Stage(Current, work')
        BY <3>1, <3>4
      <3>7. WorkAt(Current)'
        BY <2>1, <2>2, <2>3, <2>4, <3>4, <3>6 DEF WorkAt, Stage, Dense, UpToDate
      <3>10. ProcInv' /\ \A r \in Procs : proc'[r].pc = "tx" => proc'[r].at = Current
        BY <1>1, <2>1, <2>2, <3>5, LockHolder DEF Current
      <3>8. ProcInv' /\ WorkInv'
        BY <3>7, <3>10 DEF WorkInv
      <3>9. QED
        BY <1>1, <2>1, <3>8, DiskStays DEF UpgradeInv
    <2>5. CASE ~UpToDate
      <3>1. work = Empty
        BY <2>2, <2>3, <2>5 DEF WorkAt
      <3>2. Stage(Current, work')
        BY <2>1, <2>3, <3>1, EmptyStage
      <3>3. proc' = [proc EXCEPT ![p] = [proc[p] EXCEPT !.at = Current]]
        BY <1>1, <2>1 DEF ProcInv
      <3>4. WorkAt(Current)'
        BY <2>1, <2>2, <2>3, <2>5, <3>2 DEF WorkAt, Stage, Dense, UpToDate, Current
      <3>7. ProcInv' /\ \A r \in Procs : proc'[r].pc = "tx" => proc'[r].at = Current
        BY <1>1, <2>1, <2>2, <3>3, LockHolder DEF Current
      <3>5. ProcInv' /\ WorkInv'
        BY <3>4, <3>7 DEF WorkInv
      <3>6. QED
        BY <1>1, <2>1, <3>5, DiskStays DEF UpgradeInv
    <2>6. QED
      BY <2>4, <2>5
  <1>8. ASSUME NEW p \in Procs, NextMigration(p)
        PROVE  UpgradeInv'
    <2>7. PICK i : i = proc[p].at
      OBVIOUS
    <2>1. /\ proc[p].pc = "tx" /\ i \in 1 .. 20
          /\ UNCHANGED <<disk, pushed, stops, start, legacy>>
      BY <1>8, <2>7 DEF NextMigration, Current
    <2>2. WorkAt(i) /\ lock = p
      BY <1>1, <2>1, <2>7 DEF WorkInv, ProcInv
    <2>3. start # 0 /\ start \in 1 .. 20 /\ i \in start .. 20
      BY <1>1, <2>1, <2>2 DEF WorkAt, Current
    <2>4. CASE ~Accepted(i, work)
      BY <1>8, <2>1, <2>4, <2>7, PanicInv DEF NextMigration
    <2>5. CASE Accepted(i, work)
      <3>1. /\ work' = Migrate(i, work) /\ UNCHANGED lock
            /\ proc' = [proc EXCEPT ![p].at = i + 1]
        BY <1>8, <2>5, <2>7 DEF NextMigration
      <3>2. proc' = [proc EXCEPT ![p] = [proc[p] EXCEPT !.at = i + 1]]
        BY <1>1, <3>1 DEF ProcInv
      <3>3. i + 1 \in start .. Current /\ i + 1 \in Nat
        BY <2>3 DEF Current
      <3>4. ~UpToDate \/ start \in {18, 19} => Stage(i + 1, work')
        BY <1>1, <2>1, <2>2, <2>3, <3>1, StageStep DEF WorkAt
      <3>5. UpToDate /\ start \notin {18, 19} =>
              /\ work' \in Database /\ TimesEnd(work')
              /\ BeforeWall(i + 1) /\ ColumnsOfLater(work')
        BY <2>2, <2>3, <2>5, <3>1, WallStep DEF WorkAt
      <3>6. WorkAt(i + 1)'
        BY <2>1, <2>2, <2>3, <3>3, <3>4, <3>5
           DEF WorkAt, Stage, Dense, UpToDate, BeforeWall, ColumnsOfLater
      <3>9. ProcInv' /\ \A r \in Procs : proc'[r].pc = "tx" => proc'[r].at = i + 1
        BY <1>1, <2>1, <2>2, <3>1, <3>2, <3>3, LockHolder
      <3>7. ProcInv' /\ WorkInv'
        BY <3>6, <3>9 DEF WorkInv
      <3>8. QED
        BY <1>1, <2>1, <3>7, DiskStays DEF UpgradeInv
    <2>6. QED
      BY <2>4, <2>5
  <1>9. ASSUME NEW p \in Procs, Commit(p)
        PROVE  UpgradeInv'
    <2>1. /\ proc[p].pc = "tx" /\ proc[p].at = Current
          /\ disk' = [work EXCEPT !.version = Current]
          /\ proc' = [proc EXCEPT ![p] = Opened(proc[p])]
          /\ UNCHANGED <<pushed, stops, start, legacy>>
      BY <1>1, <1>9 DEF Commit, ProcInv
    <2>2. Stage(Current, work)
      BY <2>1, EndStage
    <2>3. Stage(Current, disk')
      BY <2>1, <2>2, StageVersion DEF Current
    <2>4. disk'.version = Current
      BY <2>1, <2>2 DEF Stage, Sound, Database
    <2>5. DiskInv'
      BY <2>1, <2>3, <2>4 DEF DiskInv, Stage, Dense, Current
    <2>6. /\ Opened(proc[p]) \in ProcType /\ Opened(proc[p]).pc \in {"up", "open"}
          /\ Opened(proc[p]).opened > 0
      BY <1>1 DEF ProcInv, ProcType, Opened
    <2>7. \A r \in Procs \ {p} : proc[r].pc # "tx"
      BY <1>1, <2>1 DEF ProcInv
    <2> DEFINE q == Opened(proc[p])
    <2> HIDE DEF q
    <2>8. /\ proc' \in [Procs -> ProcType] /\ proc'[p] = q
          /\ \A r \in Procs \ {p} : proc'[r] = proc[r]
      BY <1>1, <2>1, <2>6 DEF ProcInv, q
    <2>9. \A r \in Procs : proc'[r].pc # "tx"
      BY <2>6, <2>7, <2>8 DEF q
    <2>10. ProcInv'
      <3> SUFFICES ASSUME NEW r \in Procs
                   PROVE  /\ proc'[r].pc = "up" => proc'[r].opened > 0
                          /\ proc'[r].pc = "begin" => proc'[r].at = start /\ start < Current
        BY <2>1, <2>4, <2>8, <2>9 DEF ProcInv, UpToDate
      <3>1. CASE r = p
        BY <2>6, <2>8, <3>1 DEF q
      <3>2. CASE r # p
        BY <1>1, <2>8, <3>2 DEF ProcInv
      <3>3. QED
        BY <3>1, <3>2
    <2>11. WorkInv'
      BY <2>9 DEF WorkInv
    <2>12. QED
      BY <1>1, <2>1, <2>5, <2>10, <2>11 DEF UpgradeInv
  <1>10. ASSUME NEW p \in Procs, Submit(p)
         PROVE  UpgradeInv'
    <2>1. /\ proc[p].pc = "up" /\ lock = NoProc /\ pushed' = pushed + 1
          /\ UNCHANGED <<work, lock, proc, stops, start, legacy>>
      BY <1>10 DEF Submit
    <2>2. PICK r \in Pushes :
            /\ ~ \E j \in DOMAIN disk.prs :
                   disk.prs[j].repoName = r.repo /\ disk.prs[j].slug = r.slug
            /\ disk' = Pushed(disk, r, 100 + pushed)
      BY <1>10 DEF Submit, Pushed
    <2>3. UpToDate
      BY <1>1, <2>1 DEF ProcInv
    <2>4. Stage(Current, disk) /\ disk.version = Current
      BY <1>1, <2>3, DiskUpToDate
    <2>5. 100 + pushed \in Nat
      BY <1>1
    <2>6. Stage(Current, disk')
      BY <2>2, <2>4, <2>5, PushedStage
    <2>7. disk'.version = Current
      BY <2>2, <2>4, <2>5, PushedIs DEF Stage, Sound
    <2>8. DiskInv'
      BY <2>1, <2>6, <2>7 DEF DiskInv, Stage, Dense, Current
    <2>9. ProcInv'
      BY <1>1, <2>1, <2>7 DEF ProcInv, UpToDate
    <2>10. \A q \in Procs : proc[q].pc # "tx"
      BY <1>1, <2>1, ProcsAssumption DEF ProcInv
    <2>11. WorkInv'
      BY <2>1, <2>10 DEF WorkInv
    <2>12. QED
      BY <1>1, <2>1, <2>8, <2>9, <2>11 DEF UpgradeInv
  <1>11. QED
    BY <1>2, <1>3, <1>4, <1>5, <1>6, <1>7, <1>8, <1>9, <1>10 DEF Next, Open
-----------------------------------------------------------------------------
(***************************************************************************)
(* Theorems.                                                               *)
(***************************************************************************)

\* Wherever upgrades are cut short, and however many servers run them on one
\* file, the file is what the migrations it has seen leave of a sound one, and
\* so is what an open transaction sees.
THEOREM UpgradeSound == Spec => []UpgradeInv
  <1>1. Init => UpgradeInv
    BY InitUpgradeInv
  <1>2. UpgradeInv /\ [Next]_vars => UpgradeInv'
    BY NextUpgradeInv
  <1>3. QED
    BY <1>1, <1>2, PTL DEF Spec

\* A server that has opened the database finds the schema its queries are
\* written for and no row that they cannot read (sqliteSchema, SqliteOpen).
THEOREM ServedSchema == Spec => []ServedCurrent
  <1>1. UpgradeInv => ServedCurrent
    <2> SUFFICES ASSUME UpgradeInv, NEW p \in Procs, proc[p].opened > 0
                 PROVE  /\ UpToDate
                        /\ disk.cols = {"base_commit_sha", "repo_name", "last_activity", "slug"}
                        /\ \A f \in {"repoName", "activity", "slug"} : NotNull(disk, f)
                        /\ \A i, j \in DOMAIN disk.prs :
                             disk.prs[i].repoName = disk.prs[j].repoName
                             /\ disk.prs[i].slug = disk.prs[j].slug => i = j
      BY DEF ServedCurrent
    <2>1. UpToDate /\ DiskInv
      BY DEF UpgradeInv, ProcInv
    <2>2. Sound(Current, disk)
      BY <2>1, DiskUpToDate DEF Stage
    <2>3. disk.cols = {"base_commit_sha", "repo_name", "last_activity", "slug"}
      BY <2>2, ColumnsNow
    <2>4. RowsFilled(Current, disk)
      BY <2>2 DEF Sound
    <2>5. /\ NotNull(disk, "repoName") /\ NotNull(disk, "activity") /\ NotNull(disk, "slug")
          /\ NoNameTwice(disk)
      BY <2>4 DEF RowsFilled, Current
    <2>6. QED
      BY <2>1, <2>3, <2>5 DEF NoNameTwice
  <1>2. QED
    BY <1>1, UpgradeSound, PTL

\* The numbers that migration 5 gives patch requests anew, the rows that the
\* migrations drop and the ids that AUTOINCREMENT gives again leave no patchset,
\* patch or log entry to a patch request it was not written for.
THEOREM RowsOwned == Spec => []OwnRows
  <1>1. UpgradeInv => OwnRows
    <2> SUFFICES ASSUME UpgradeInv, Dense
                 PROVE  RowsBelong(disk)
      BY DEF OwnRows, RowsBelong
    <2>1. DiskInv
      BY DEF UpgradeInv
    <2>2. CASE disk.version = 0
      <3>1. disk = Empty
        BY <2>1, <2>2 DEF DiskInv
      <3>2. disk.sets = <<>> /\ disk.patches = {} /\ disk.logs = {}
        BY <3>1 DEF Empty
      <3>3. DOMAIN <<>> = {}
        OBVIOUS
      <3>4. DOMAIN disk.sets = {}
        BY <3>2, <3>3
      <3>5. QED
        BY <3>2, <3>4 DEF RowsBelong
    <2>3. CASE disk.version # 0
      BY <2>1, <2>3 DEF DiskInv, Stage, Belong
    <2>4. QED
      BY <2>2, <2>3
  <1>2. QED
    BY <1>1, UpgradeSound, PTL

\* From the first schema to this one no patch request with a title whose repo
\* exists is lost, nor its repo, its patches or the time of its last event.
THEOREM NothingLost == Spec => []LegacyKept
  <1>1. UpgradeInv => LegacyKept
    <2> SUFFICES ASSUME UpgradeInv, UpToDate, start # 0, Dense,
                        NEW k \in legacy.ids \ (legacy.blank \cup legacy.removed),
                        legacy.repo[k] \notin legacy.gone
                 PROVE  Survives(k)
      BY DEF LegacyKept
    <2>1. Stage(Current, disk)
      BY DiskUpToDate DEF UpgradeInv
    <2>2. k \in ToKeep(legacy)
      BY DEF ToKeep
    <2>3. Kept(Current, disk, legacy, k)
      BY <2>1, <2>2 DEF Stage
    <2>4. /\ k \in DOMAIN disk.prs /\ disk.prs[k].key = k /\ disk.prs[k].repoName = legacy.repo[k]
          /\ k \in DOMAIN disk.sets /\ disk.sets[k].pr = k
          /\ [set |-> k, key |-> k] \in disk.patches
          /\ k \in legacy.logged => \E e \in disk.logs : e.pr = k /\ e.kind = "pr_created"
          /\ disk.prs[k].activity = IF k \in legacy.changed THEN 10 + k ELSE k
      BY <2>3 DEF Kept, Current
    <2>5. QED
      BY <2>4 DEF Survives
  <1>2. QED
    BY <1>1, UpgradeSound, PTL

\* A server that read an older version upgrades a file which another one has
\* upgraded only as far as the first migration that fails the second time: what
\* is served keeps its ids and its names.
THEOREM NamesKept == Spec => NamesHold
  <1> DEFINE Hold == start \notin {18, 19} /\ UpToDate =>
               \A i \in DOMAIN disk.prs :
                 /\ i \in DOMAIN disk'.prs
                 /\ disk'.prs[i].key = disk.prs[i].key
                 /\ disk'.prs[i].slug = disk.prs[i].slug
  <1>1. UpgradeInv /\ [Next]_vars => [Hold]_disk
    <2> SUFFICES ASSUME UpgradeInv, [Next]_vars, disk' # disk,
                        start \notin {18, 19}, UpToDate, NEW i \in DOMAIN disk.prs
                 PROVE  /\ i \in DOMAIN disk'.prs
                        /\ disk'.prs[i].key = disk.prs[i].key
                        /\ disk'.prs[i].slug = disk.prs[i].slug
      OBVIOUS
    <2>1. Stage(Current, disk) /\ start \in Nat /\ pushed \in Nat
      BY DiskUpToDate DEF UpgradeInv
    <2>2. disk \in Database /\ IdsGiven(disk)
      BY <2>1 DEF Stage, Sound
    <2>3. PICK p \in Procs : Commit(p) \/ Submit(p)
      BY DEF Next, Open, vars, ReadVersion, Begin, Busy, CreateSchema, NextMigration, Stop
    <2>4. CASE Commit(p)
      <3>1. /\ proc[p].pc = "tx" /\ proc[p].at = Current
            /\ disk' = [work EXCEPT !.version = Current]
        BY <2>4 DEF Commit
      <3>2. WorkAt(Current)
        BY <3>1 DEF UpgradeInv, WorkInv
      <3>3. ~BeforeWall(Current)
        BY DEF BeforeWall, Walls, Current
      <3>4. work = disk
        BY <3>2, <3>3 DEF WorkAt
      <3>5. disk'.prs = disk.prs
        BY <2>2, <3>1, <3>4 DEF Database
      <3>6. QED
        BY <3>5
    <2>5. CASE Submit(p)
      <3>1. PICK r \in Pushes : disk' = Pushed(disk, r, 100 + pushed)
        BY <2>5 DEF Submit, Pushed
      <3>2. 100 + pushed \in Nat
        BY <2>1
      <3>3. i \in DOMAIN disk'.prs /\ disk'.prs[i] = disk.prs[i]
        BY <2>2, <3>1, <3>2, PushedIs
      <3>4. QED
        BY <3>3
    <2>6. QED
      BY <2>3, <2>4, <2>5
  <1>2. QED
    BY <1>1, UpgradeSound, PTL DEF Spec, NamesHold

\* The first upgrade of a file never meets a migration that fails: each finds the
\* tables and columns its statements name and none of those it adds.
THEOREM FirstUpgradeGoesOn == Spec => []NeverRefused
  <1>1. UpgradeInv => NeverRefused
    <2> SUFFICES ASSUME UpgradeInv, NEW p \in Procs, proc[p].pc = "tx",
                        proc[p].at \in 1 .. Current - 1, ~UpToDate
                 PROVE  Accepted(proc[p].at, work)
      BY DEF NeverRefused
    <2>1. PICK i : i = proc[p].at
      OBVIOUS
    <2>2. WorkAt(i) /\ i \in 1 .. 20
      BY <2>1 DEF UpgradeInv, WorkInv, Current
    <2>3. Stage(i, work)
      BY <2>2 DEF WorkAt, Current
    <2>4. QED
      BY <2>1, <2>2, <2>3, SoundAccepted DEF Stage
  <1>2. QED
    BY <1>1, UpgradeSound, PTL
=============================================================================

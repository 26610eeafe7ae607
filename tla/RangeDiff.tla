----------------------------- MODULE RangeDiff -----------------------------
(***************************************************************************)
(* RangeDiff: how the PR page compares a patchset with the one before it.  *)
(* Commits with the same content are paired, then the rest by the sizes of *)
(* their patches as an assignment problem, then the pairs are listed.      *)
(*                                                                         *)
(* A commit is what the comparison sees of a patch: its content_sha, the   *)
(* length of its text, the files it touches.  A file that a patch creates  *)
(* has no old name, one that it deletes no new name.  Positions count from *)
(* 1, and 0 stands for the code's -1.                                      *)
(***************************************************************************)
EXTENDS Integers, Sequences, FiniteSetsExt, Functions

CONSTANTS
  Olds, News,     \* the series compared: patchsets, as sequences of commits
  NoName,         \* the empty file name
  CostMax,        \* COST_MAX
  CreationMax     \* stands for math.MaxInt32: above any sum of the other costs

IsSeries(s) == s \in Seq(Range(s))

ASSUME SeriesAssumption ==
  \A s \in Olds \cup News :
    IsSeries(s) /\ \A i \in DOMAIN s : s[i].size \in Nat /\ IsSeries(s[i].files)
ASSUME CostAssumption ==
  /\ CostMax \in Nat \ {0} /\ CreationMax \in Nat \ {0}
  /\ \A s \in News : \A j \in DOMAIN s : (s[j].size * 60) \div 100 <= CreationMax

Nothing == <<>>   \* a result that is not there yet

VARIABLES
  a, b,     \* the old and the new series
  ma, mb,   \* Matching of their entries
  out,      \* the listing
  step      \* what RangeDiff does next

vars == <<a, b, ma, mb, out, step>>

Init ==
  /\ a \in Olds /\ b \in News
  /\ ma = [i \in DOMAIN a |-> 0] /\ mb = [j \in DOMAIN b |-> 0]
  /\ out = Nothing
  /\ step = "exact"
-----------------------------------------------------------------------------
\* The last of the positions, 0 if there is none.
LastOf(positions) == IF positions = {} THEN 0 ELSE Max(positions)

\* findExactMatches: every pair with the same content, the last one stays.
FindExactMatches ==
  /\ step = "exact" /\ step' = "solve"
  /\ ma' = [i \in DOMAIN a |-> LastOf({j \in DOMAIN b : b[j].sha = a[i].sha})]
  /\ mb' = [j \in DOMAIN b |-> LastOf({i \in DOMAIN a : a[i].sha = b[j].sha})]
  /\ UNCHANGED <<a, b, out>>
-----------------------------------------------------------------------------
Distance(x, y) == IF x > y THEN x - y ELSE y - x

\* (fault: whether the two are matched already is not looked at)
PairCostUnguarded(i, j) == IF ma[i] = j THEN 0 ELSE Distance(a[i].size, b[j].size)

\* What it costs to show a[i] as turned into b[j]...
PairCost(i, j) ==
  CASE ma[i] = j -> 0
    [] ma[i] = 0 /\ mb[j] = 0 -> Distance(a[i].size, b[j].size)
    [] OTHER -> CostMax

\* (fault: RANGE_DIFF_CREATION_FACTOR_DEFAULT is taken for a factor, not percents)
CreationCostInFull(j) == IF mb[j] = 0 THEN b[j].size * 60 ELSE CreationMax

\* ... and b[j] as new.  To show a commit as removed costs nothing.
CreationCost(j) == IF mb[j] = 0 THEN (b[j].size * 60) \div 100 ELSE CreationMax

\* An assignment is an injective partial function from a's to b's positions: a
\* row of `a` left over takes a free column, a column of `b` left over an extra
\* row, and there are as many of both as needed.
Assignments ==
  {f \in [DOMAIN a -> {0} \cup DOMAIN b] :
     \A i, k \in DOMAIN a : f[i] = f[k] /\ f[i] # 0 => i = k}

RowCost(i, j) == IF j = 0 THEN 0 ELSE PairCost(i, j)

Cost(f) ==
  SumFunction([i \in DOMAIN a |-> RowCost(i, f[i])])
  + SumFunction([j \in DOMAIN b |-> IF j \in Range(f) THEN 0 ELSE CreationCost(j)])

\* The Hungarian algorithm returns one of the cheapest.
Cheapest ==
  LET least == Min({Cost(f) : f \in Assignments})
  IN {f \in Assignments : Cost(f) = least}

\* (fault: the entries of b are not told)
OverwriteOneWay(f) ==
  /\ ma' = [i \in DOMAIN a |-> IF f[i] = 0 THEN ma[i] ELSE f[i]]
  /\ UNCHANGED mb

\* Only rows that got a column of `b` are overwritten.
Overwrite(f) ==
  /\ ma' = [i \in DOMAIN a |-> IF f[i] = 0 THEN ma[i] ELSE f[i]]
  /\ mb' = [j \in DOMAIN b |->
              IF j \in Range(f) THEN CHOOSE i \in DOMAIN a : f[i] = j ELSE mb[j]]

GetCorrespondences ==
  /\ step = "solve" /\ step' = "output"
  /\ \E f \in Cheapest : Overwrite(f)
  /\ UNCHANGED <<a, b, out>>
-----------------------------------------------------------------------------
\* A map keyed by NewName holds the last file of each name.
NamesOf(files) == {files[k].new : k \in DOMAIN files}
Named(files, name) == files[LastOf({k \in DOMAIN files : files[k].new = name})]

\* (fault: a file is compared by its old name as well)
FilesChangedUnlessRenamed(x, y) ==
  {[old |-> Named(x, n).old, new |-> NoName, type |-> "removed"] :
     n \in NamesOf(x) \ NamesOf(y)}
  \cup
  {[old |-> Named(x, n).old, new |-> n, type |-> "changed"] :
     n \in {m \in NamesOf(x) \cap NamesOf(y) :
              Named(x, m).body # Named(y, m).body /\ Named(x, m).old = Named(y, m).old}}
  \cup
  {[old |-> Named(y, n).old, new |-> n, type |-> "added"] : n \in NamesOf(y) \ NamesOf(x)}

\* filesChanged.  Bodies are the lines that fileContent keeps.
FilesChanged(x, y) ==
  {[old |-> Named(x, n).old, new |-> NoName, type |-> "removed"] :
     n \in NamesOf(x) \ NamesOf(y)}
  \cup
  {[old |-> Named(x, n).old, new |-> n, type |-> "changed"] :
     n \in {m \in NamesOf(x) \cap NamesOf(y) : Named(x, m).body # Named(y, m).body}}
  \cup
  {[old |-> Named(y, n).old, new |-> n, type |-> "added"] : n \in NamesOf(y) \ NamesOf(x)}

\* filesRemoved and filesAdded: all files of the commit.
FilesOf(commit, type) ==
  {[old |-> commit.files[k].old, new |-> commit.files[k].new, type |-> type] :
     k \in DOMAIN commit.files}

\* The header of a pair takes its new index from a's side, whatever b's says.
PairEntry(j) ==
  LET i == mb[j]
      same == a[i].sha = b[j].sha
  IN [from |-> <<"b", j>>, type |-> IF same THEN "equal" ELSE "changed",
      old |-> i, new |-> ma[i], order |-> ma[i],
      files |-> IF same THEN {} ELSE FilesChanged(a[i].files, b[j].files)]

RemovedEntry(i) ==
  [from |-> <<"a", i>>, type |-> "rm", old |-> i, new |-> 0, order |-> i,
   files |-> FilesOf(a[i], "removed")]

AddedEntry(j) ==
  [from |-> <<"b", j>>, type |-> "add", old |-> 0, new |-> j, order |-> j,
   files |-> FilesOf(b[j], "added")]

\* buildOutput.  The entries are listed by `order`, in any order where it is
\* the same (sort.Slice is not stable).
BuildOutput ==
  /\ step = "output" /\ step' = "shown"
  /\ out' = {RemovedEntry(i) : i \in {k \in DOMAIN a : ma[k] = 0}}
            \cup {AddedEntry(j) : j \in {k \in DOMAIN b : mb[k] = 0}}
            \cup {PairEntry(j) : j \in {k \in DOMAIN b : mb[k] # 0}}
  /\ UNCHANGED <<a, b, ma, mb>>

Next == FindExactMatches \/ GetCorrespondences \/ BuildOutput

Spec == Init /\ [][Next]_vars
-----------------------------------------------------------------------------
Shown == step = "shown"

\* Every commit of its series has other content than the rest of it.
Distinct(s) == \A i, k \in DOMAIN s : s[i].sha = s[k].sha => i = k

\* A patch is no longer than COST_MAX.  (Two pairs with the same content are
\* torn apart when a commit beside them is so long that to show it as new costs
\* more than twice COST_MAX.)
Short(s) == \A i \in DOMAIN s : s[i].size <= CostMax

\* Every commit of either series is listed, once, with its own number.
ListedOnce ==
  /\ \A i \in DOMAIN a : Cardinality({e \in out : e.old = i}) = 1
  /\ \A j \in DOMAIN b : Cardinality({e \in out : e.new = j}) = 1

\* Two phases write Matching and the second leaves stale ones: all the same,
\* with no content twice in a series no commit is lost, doubled or misnumbered.
EveryCommitOnce == Shown /\ Distinct(a) /\ Distinct(b) => ListedOnce

\* A commit that comes back with the same content, rebased or moved, is shown
\* as the same one, and the assignment never gives it away to a closer size.
IdenticalShownEqual ==
  Shown /\ Distinct(a) /\ Distinct(b) /\ Short(a) /\ Short(b) =>
    \A i \in DOMAIN a, j \in DOMAIN b :
      a[i].sha = b[j].sha => \E e \in out : e.type = "equal" /\ e.old = i /\ e.new = j

\* A commit is shown as changed into another only if they differ by at most 60
\* percent of the new one's size, and no two commits closer than that are shown
\* as one removed and one added.
PairedWhenClose ==
  Shown /\ Distinct(a) /\ Distinct(b) /\ Short(a) /\ Short(b) =>
    LET allowed(j) == (b[j].size * 60) \div 100
        dist(i, j) == Distance(a[i].size, b[j].size)
    IN /\ \A e \in out : e.type = "changed" => dist(e.old, e.new) <= allowed(e.new)
       /\ \A e, f \in out : e.type = "rm" /\ f.type = "add" =>
            dist(e.old, f.new) >= allowed(f.new)

Touches(commit) == Range(commit.files)
Deleted(commit) == {f \in Touches(commit) : f.new = NoName}

\* As git writes a patch: a file has a name before or after it, and one that
\* is there afterwards is named once.
NamesFiles(commit) ==
  \A f, g \in Touches(commit) :
    /\ f.old # NoName \/ f.new # NoName
    /\ f.new = g.new /\ f.new # NoName => f.old = g.old

\* A line of the list by which a reader can tell file f.
Tells(g, f) ==
  IF g.new # NoName THEN g.new = f.new ELSE g.old # NoName /\ g.old = f.old

\* Where a commit is shown as changed, the list tells of every file that one of
\* the two touches and the other does not touch the same way, unless it is one
\* that the old commit created (listed without any name once it is dropped), or
\* the two delete different files (all of them have one key in the maps).
FilesAccounted ==
  Shown =>
    \A e \in {d \in out : d.type = "changed"} :
      LET x == a[e.old]
          y == b[e.new]
          same == {f \in Touches(x) \cup Touches(y) :
                     \E g \in Touches(x), h \in Touches(y) :
                       g.new = f.new /\ h.new = f.new /\ g.body = h.body}
          dropped == {f \in Touches(x) : f.new \notin NamesOf(y.files)}
      IN NamesFiles(x) /\ NamesFiles(y)
         /\ Cardinality({f.old : f \in Deleted(x) \cup Deleted(y)}) <= 1 =>
           \A f \in (Touches(x) \cup Touches(y)) \ same :
             (f \in dropped => f.old # NoName) => \E g \in e.files : Tells(g, f)
-----------------------------------------------------------------------------
\* range_diff.go: "Removed commits (in A but not matched in B)" are listed, and
\* the rest with their partner.  Of two old commits with the same content one
\* keeps a Matching that no entry of b answers, and is not listed at all.
OldCommitsListed ==
  Shown => \A i \in DOMAIN a : \E e \in out : e.old = i
=============================================================================

----------------------------- MODULE Migrations -----------------------------
(***************************************************************************)
(* Opening the database: the schema, the list of migrations and the        *)
(* transaction that brings an older file up to date (sqlite.go).  Every    *)
(* server process opens the file twice, first for the web server and then  *)
(* for the ssh server, and panics when it cannot; its supervisor starts it *)
(* again.  Any step of an upgrade may be the last one of its process.      *)
(*                                                                         *)
(* A row of patch_requests carries in "key" the patch request it is about, *)
(* as do the rows that belong to it: the code sees ids only, and the       *)
(* migrations renumber them.  0 stands for NULL, a repo id for the repo's  *)
(* name, a slug for the number it spells (0 for '').  Left out: the rows   *)
(* of app_users and acl, which no migration touches, the status values     *)
(* (migration 19 drops them) and indexes that are not unique.              *)
(***************************************************************************)
EXTENDS Integers, FiniteSets, FiniteSetsExt, SequencesExt

CONSTANTS
  Procs,       \* server processes
  NoProc,      \* none of them
  Starts,      \* versions of the files the project is opened on
  Legacy,      \* what those files may hold (see LegacyAssumption)
  Pushes,      \* patch requests pushed to an upgraded file
  MaxPushes,   \* bound: pushes in a behaviour
  MaxStops     \* bound: steps that are cut short in a behaviour

ASSUME ProcsAssumption == NoProc \notin Procs
ASSUME StartsAssumption == Starts \subseteq Nat /\ MaxPushes \in Nat /\ MaxStops \in Nat
\* The repo of each patch request, those without a title, those with a log
\* entry for their creation and for a later change of their status, and the
\* repos and patch requests deleted since.
ASSUME LegacyAssumption ==
  \A l \in Legacy :
    /\ IsFiniteSet(l.ids) /\ l.ids = 1 .. Cardinality(l.ids)
    /\ l.repo \in [l.ids -> Nat \ {0}]
    /\ l.removed \subseteq l.ids
    /\ l.blank \subseteq l.ids
    /\ l.logged \subseteq l.ids
    /\ l.changed \subseteq l.logged
    /\ l.gone \subseteq Nat
ASSUME PushesAssumption ==
  Pushes \subseteq [repo : Nat \ {0}, slug : Nat \ {0}, blank : BOOLEAN]

VARIABLES
  disk,     \* the committed database
  work,     \* the database as the open transaction sees it
  lock,     \* the process that has the transaction, if any
  proc,     \* what each process is doing
  pushed,   \* number of pushes
  stops,    \* number of steps cut short
  start,    \* history: the version the file had at first
  legacy    \* history: the patch requests it had at first

vars == <<disk, work, lock, proc, pushed, stops, start, legacy>>

Current == 21       \* len(sqliteMigrations)
-----------------------------------------------------------------------------
(* Rows and tables. *)

InsertRow(t, id, row) == [i \in DOMAIN t \cup {id} |-> IF i = id THEN row ELSE t[i]]
Keep(t, ids) == [i \in DOMAIN t \cap ids |-> t[i]]
MaxOr0(S) == Max(S \cup {0})

\* INSERT INTO ... SELECT without the id column into a table with AUTOINCREMENT:
\* rows are numbered from 1 in the order of their old ids.
Rank(t, id) == Cardinality({i \in DOMAIN t : i <= id})
Renumbered(t) ==
  [n \in 1 .. Cardinality(DOMAIN t) |-> t[CHOOSE i \in DOMAIN t : Rank(t, i) = n]]

\* The rows of a patch request go in this order: its log entries, its patches,
\* its patchsets and the row itself.
DropLogsOf(d, ids) == [d EXCEPT !.logs = {e \in @ : e.pr \notin ids}]
DropPatchesOf(d, ids) ==
  [d EXCEPT !.patches =
     {p \in @ : ~ \E s \in DOMAIN d.sets : s = p.set /\ d.sets[s].pr \in ids}]
DropSetsOf(d, ids) ==
  [d EXCEPT !.sets = Keep(@, {s \in DOMAIN @ : d.sets[s].pr \notin ids})]
DropRequests(d, ids) ==
  LET rows == DropSetsOf(DropPatchesOf(DropLogsOf(d, ids), ids), ids)
  IN  [rows EXCEPT !.prs = Keep(@, DOMAIN @ \ ids)]
-----------------------------------------------------------------------------
(* The migrations that do something to the data, by index. *)

\* 4: the repos the patch requests name, one row for a name.
FillRepos(d) == [d EXCEPT !.repos = {d.prs[i].repo : i \in DOMAIN d.prs}]

\* 5: patch_requests copied into a table with integer repo ids, without the ids
\* of its rows.  A row whose repo is not in repos is not copied.
CopyRequests(d) ==
  LET joined == Keep(d.prs, {i \in DOMAIN d.prs : d.prs[i].repo \in d.repos})
  IN  [d EXCEPT !.prs = Renumbered(joined), !.lastId = Cardinality(DOMAIN joined),
                !.cols = @ \cup {"repo_ref"}]

\* 8: repo_name from repos, NULL for a repo that is gone.
NameRepos(d) ==
  [d EXCEPT !.prs =
     [i \in DOMAIN @ |->
        [@[i] EXCEPT !.repoName = IF d.prs[i].repo \in d.repos THEN d.prs[i].repo ELSE 0]]]

\* (fault: no orphan is dropped)
OrphansStay(d) == d
\* (fault: patches are looked for when their patchsets are gone)
OrphansDroppedTopDown(d) ==
  LET ids == {i \in DOMAIN d.prs : d.prs[i].repoName = 0}
      rows == DropPatchesOf(DropSetsOf(DropLogsOf(d, ids), ids), ids)
  IN  [rows EXCEPT !.prs = Keep(@, DOMAIN @ \ ids)]

\* 9: patch requests whose repo is gone.
DropOrphans(d) == DropRequests(d, {i \in DOMAIN d.prs : d.prs[i].repoName = 0})

\* 11 and 12: where last_activity is NULL, the latest event of the patch
\* request, else its creation.
FillActivity(d, times) ==
  [d EXCEPT !.prs =
     [i \in DOMAIN @ |->
        IF @[i].activity = 0 THEN [@[i] EXCEPT !.activity = times[i]] ELSE @[i]]]
LogTimes(d, i) == {e.at : e \in {l \in d.logs : l.pr = i}}
\* (fault: MIN(created_at))
ActivityFromFirstLog(d) ==
  FillActivity(d, [i \in DOMAIN d.prs |->
                     IF LogTimes(d, i) = {} THEN 0 ELSE Min(LogTimes(d, i))])
ActivityFromLogs(d) == FillActivity(d, [i \in DOMAIN d.prs |-> MaxOr0(LogTimes(d, i))])
ActivityFromCreation(d) == FillActivity(d, [i \in DOMAIN d.prs |-> d.prs[i].created])

\* 15 and 19: patch_requests copied with its ids into a table of fewer columns;
\* AUTOINCREMENT goes on from the largest id copied.
RebuildRequests(d, dropped) ==
  [d EXCEPT !.lastId = MaxOr0(DOMAIN d.prs), !.cols = @ \ dropped,
            !.prs = IF "slug" \in dropped
                    THEN [i \in DOMAIN @ |-> [@[i] EXCEPT !.slug = 0]] ELSE @]

\* 18: patch requests without a title.
DropUntitled(d) == DropRequests(d, {i \in DOMAIN d.prs : d.prs[i].blank})

\* 19: the status column and the log entries about it.
DropStatus(d) ==
  [RebuildRequests(d, {"status", "slug"}) EXCEPT
     !.logs = {e \in @ : e.kind # "pr_status_changed"}]

\* 20: every patch request is named by its id.
\* (fault: the column is added and left as it is)
NoSlugs(d) == [d EXCEPT !.cols = @ \cup {"slug"}]
FillSlugs(d) ==
  [d EXCEPT !.prs =
              [i \in DOMAIN @ |-> IF @[i].slug = 0 THEN [@[i] EXCEPT !.slug = i] ELSE @[i]],
            !.cols = @ \cup {"slug"}]

AddColumn(d, c) == [d EXCEPT !.cols = @ \cup {c}]

\* What migration i does to the tables.
Migrate(i, d) ==
  CASE i = 1  -> AddColumn(d, "base_commit_sha")
    [] i = 3  -> AddColumn(d, "repos")
    [] i = 4  -> FillRepos(d)
    [] i = 5  -> CopyRequests(d)
    [] i = 6  -> AddColumn(d, "event_repo_ref")
    [] i = 7  -> AddColumn(d, "repo_name")
    [] i = 8  -> NameRepos(d)
    [] i = 9  -> DropOrphans(d)
    [] i = 10 -> AddColumn(d, "last_activity")
    [] i = 11 -> ActivityFromLogs(d)
    [] i = 12 -> ActivityFromCreation(d)
    [] i = 14 -> [d EXCEPT !.repos = {}, !.cols = @ \ {"repos"}]
    [] i = 15 -> RebuildRequests(d, {"repo", "repo_ref", "slug"})
    [] i = 16 -> [d EXCEPT !.cols = @ \ {"event_repo", "event_repo_ref"}]
    [] i = 18 -> DropUntitled(d)
    [] i = 19 -> DropStatus(d)
    [] i = 20 -> FillSlugs(d)
    [] OTHER  -> d      \* 2 is empty, 13 an index, 17 a status that 19 drops

NotNull(d, field) == \A i \in DOMAIN d.prs : d.prs[i][field] # 0

\* Its statements find the tables and columns they name, no column they add,
\* and no NULL where the new table has none.
\* (fault: 15 and 17 do without the column that 19 drops)
AcceptedTwice(i, d) ==
  CASE i \in {4, 5, 6, 8} -> "repos" \in d.cols
    [] i = 1  -> "base_commit_sha" \notin d.cols
    [] i = 7  -> "repo_name" \notin d.cols
    [] i = 10 -> "last_activity" \notin d.cols
    [] i = 20 -> "slug" \notin d.cols
    [] OTHER  -> TRUE
Accepted(i, d) ==
  CASE i = 1        -> "base_commit_sha" \notin d.cols
    [] i \in {4, 5} -> {"repo", "repos"} \subseteq d.cols
    [] i = 6        -> {"event_repo", "repos"} \subseteq d.cols
    [] i = 7        -> "repo_name" \notin d.cols
    [] i = 8        -> {"repo_ref", "repos"} \subseteq d.cols
    [] i = 10       -> "last_activity" \notin d.cols
    [] i = 15       -> /\ {"status", "repo_name", "last_activity"} \subseteq d.cols
                       /\ NotNull(d, "repoName") /\ NotNull(d, "activity")
    [] i = 17       -> "status" \in d.cols
    [] i = 20       -> "slug" \notin d.cols
    [] OTHER        -> TRUE
-----------------------------------------------------------------------------
(* The files servers find: one that is empty, one of each older version     *)
(* that the migrations before it have brought there, and a newer one.       *)

Empty ==
  [version |-> 0, cols |-> {}, repos |-> {}, prs |-> <<>>, lastId |-> 0,
   sets |-> <<>>, lastSet |-> 0, patches |-> {}, logs |-> {}]

\* The first schema: patch requests name their repo, and have a status.
First(l) ==
  LET log(i, kind, at) == [pr |-> i, kind |-> kind, at |-> at, key |-> i]
  IN
  [version |-> 1, cols |-> {"repo", "event_repo", "status"}, repos |-> {},
   prs |-> [i \in l.ids |->
              [key |-> i, repo |-> l.repo[i], repoName |-> 0, blank |-> i \in l.blank,
               created |-> i, activity |-> 0, slug |-> 0]],
   lastId |-> MaxOr0(l.ids),
   sets |-> [i \in l.ids |-> [pr |-> i, key |-> i]], lastSet |-> MaxOr0(l.ids),
   patches |-> {[set |-> i, key |-> i] : i \in l.ids},
   logs |-> {log(i, "pr_created", i) : i \in l.logged}
            \cup {log(i, "pr_status_changed", 10 + i) : i \in l.changed}]

Upgraded(d, from, to) ==
  FoldLeft(LAMBDA e, i : Migrate(i, e), d, [n \in 1 .. (to - from) |-> from + n - 1])

\* Patch requests could be removed by hand, with all that belongs to them, and
\* repos while patch requests referred to them by id.
File(v, l) ==
  IF v = 0 THEN Empty
  ELSE LET d == Upgraded(First(l), 1, IF v < Current THEN v ELSE Current)
       IN  [DropRequests(d, l.removed) EXCEPT !.version = v, !.repos = @ \ l.gone]

Idle == [pc |-> "open", opened |-> 0, at |-> 0]

Init ==
  /\ start \in Starts
  /\ legacy \in Legacy
  /\ legacy.gone = {} \/ start \in 6 .. 8
  /\ disk = File(start, legacy)
  /\ work = Empty /\ lock = NoProc
  /\ proc = [p \in Procs |-> Idle]
  /\ pushed = 0 /\ stops = 0
-----------------------------------------------------------------------------
(* SqliteOpen by the web server, then by the ssh server, of process p.      *)

Unlocked == lock' = NoProc /\ work' = Empty

\* An open returned: the next one, or the process serves both.
Opened(q) ==
  [pc |-> IF q.opened = 1 THEN "up" ELSE "open", opened |-> q.opened + 1, at |-> 0]

\* An error: the transaction rolls back, the process panics and starts again.
Panic(p) ==
  /\ proc' = [proc EXCEPT ![p] = Idle]
  /\ IF lock = p THEN Unlocked ELSE UNCHANGED <<lock, work>>

\* PRAGMA user_version, before the transaction begins.
ReadVersion(p) ==
  /\ proc[p].pc = "open"
  /\ IF disk.version > Current THEN Panic(p)
     ELSE /\ proc' = [proc EXCEPT ![p] =
                        IF disk.version = Current THEN Opened(@)
                        ELSE [@ EXCEPT !.pc = "begin", !.at = disk.version]]
          /\ UNCHANGED <<lock, work>>
  /\ UNCHANGED <<disk, pushed, stops, start, legacy>>

\* The first statement that writes takes the lock.
Begin(p) ==
  /\ proc[p].pc = "begin" /\ lock = NoProc
  /\ lock' = p /\ work' = disk
  /\ proc' = [proc EXCEPT ![p].pc = "tx"]
  /\ UNCHANGED <<disk, pushed, stops, start, legacy>>

\* No busy timeout is set: while another process writes, the query of the
\* version may fail, and a statement that writes does.
Busy(p) ==
  /\ proc[p].pc \in {"open", "begin"} /\ lock \notin {NoProc, p}
  /\ Panic(p)
  /\ UNCHANGED <<disk, pushed, stops, start, legacy>>

\* sqliteSchema creates the tables that are not there.
CreateSchema(p) ==
  /\ proc[p].pc = "tx" /\ proc[p].at = 0
  /\ work' = [work EXCEPT !.cols =
                @ \cup {"base_commit_sha", "repo_name", "last_activity", "slug"}]
  /\ proc' = [proc EXCEPT ![p].at = Current]
  /\ UNCHANGED <<disk, lock, pushed, stops, start, legacy>>

NextMigration(p) ==
  LET i == proc[p].at IN
  /\ proc[p].pc = "tx" /\ i \in 1 .. Current - 1
  /\ IF Accepted(i, work)
     THEN /\ work' = Migrate(i, work)
          /\ proc' = [proc EXCEPT ![p].at = i + 1]
          /\ UNCHANGED lock
     ELSE Panic(p)
  /\ UNCHANGED <<disk, pushed, stops, start, legacy>>

\* PRAGMA user_version = 21 and COMMIT.
Commit(p) ==
  /\ proc[p].pc = "tx" /\ proc[p].at = Current
  /\ disk' = [work EXCEPT !.version = Current]
  /\ Unlocked
  /\ proc' = [proc EXCEPT ![p] = Opened(@)]
  /\ UNCHANGED <<pushed, stops, start, legacy>>

\* The process is killed, or a statement or the commit fails.
Stop(p) ==
  /\ stops < MaxStops
  /\ stops' = stops + 1
  /\ Panic(p)
  /\ UNCHANGED <<disk, pushed, start, legacy>>

\* SubmitPatchRequest by a session of a process that serves.
Submit(p) ==
  /\ proc[p].pc = "up" /\ lock = NoProc /\ pushed < MaxPushes
  /\ \E r \in Pushes :
       LET id == disk.lastId + 1
           key == 100 + pushed
           set == disk.lastSet + 1
       IN
       /\ ~ \E i \in DOMAIN disk.prs : disk.prs[i].repoName = r.repo /\ disk.prs[i].slug = r.slug
       /\ disk' =
            [disk EXCEPT
               !.prs = InsertRow(@, id, [key |-> key, repo |-> 0, repoName |-> r.repo,
                         blank |-> r.blank, created |-> 30, activity |-> 30, slug |-> r.slug]),
               !.lastId = id,
               !.sets = InsertRow(@, set, [pr |-> id, key |-> key]),
               !.lastSet = set,
               !.patches = @ \cup {[set |-> set, key |-> key]},
               !.logs = @ \cup {[pr |-> id, kind |-> "pr_created", at |-> 30, key |-> key]}]
  /\ pushed' = pushed + 1
  /\ UNCHANGED <<work, lock, proc, stops, start, legacy>>

Open(p) ==
  ReadVersion(p) \/ Begin(p) \/ Busy(p) \/ CreateSchema(p) \/ NextMigration(p) \/ Commit(p)
Next == \E p \in Procs : Open(p) \/ Stop(p) \/ Submit(p)

Spec == Init /\ [][Next]_vars

\* A process that was started goes on; kills are few (MaxStops).
FairSpec == Spec /\ \A p \in Procs : WF_vars(Open(p))
-----------------------------------------------------------------------------
(* Properties. *)

UpToDate == disk.version = Current

\* A server that has opened the database finds the schema this version's
\* queries are written for, however many servers upgrade it and wherever they
\* stop: all columns, none of the old ones, no row without its repo, its
\* activity or its name, and no name twice in a repo.
ServedCurrent ==
  \A p \in Procs : proc[p].opened > 0 =>
    /\ UpToDate
    /\ disk.cols = {"base_commit_sha", "repo_name", "last_activity", "slug"}
    /\ \A f \in {"repoName", "activity", "slug"} : NotNull(disk, f)
    /\ \A i, j \in DOMAIN disk.prs :
         disk.prs[i].repoName = disk.prs[j].repoName /\ disk.prs[i].slug = disk.prs[j].slug
           => i = j

\* Migration 5 numbers patch requests anew and leaves the rows that refer to
\* them alone: files it runs on need ids without gaps.
Dense == start \in 1 .. 5 => legacy.removed = {}

\* Every patchset, patch and log entry belongs to the patch request it was
\* written for, under the ids of before and after, and none is left over for
\* a later patch request that gets a dropped one's id.
OwnRows ==
  Dense =>
    /\ \A s \in DOMAIN disk.sets :
         /\ disk.sets[s].pr \in DOMAIN disk.prs
         /\ disk.prs[disk.sets[s].pr].key = disk.sets[s].key
    /\ \A e \in disk.logs :
         e.pr \in DOMAIN disk.prs /\ disk.prs[e.pr].key = e.key
    /\ \A p \in disk.patches :
         p.set \in DOMAIN disk.sets /\ disk.sets[p.set].key = p.key

\* An upgrade loses nothing but what it is meant to: every patch request with a
\* title whose repo exists is there, in its repo, with its patchset, its patch,
\* the entry of its creation and an activity no earlier than any of its events.
Survives(k) ==
  \E i \in DOMAIN disk.prs :
    /\ disk.prs[i].key = k
    /\ disk.prs[i].repoName = legacy.repo[k]
    /\ \E s \in DOMAIN disk.sets : disk.sets[s].pr = i /\ [set |-> s, key |-> k] \in disk.patches
    /\ k \in legacy.logged => \E e \in disk.logs : e.pr = i /\ e.kind = "pr_created"
    /\ disk.prs[i].activity = IF k \in legacy.changed THEN 10 + k ELSE k
LegacyKept ==
  UpToDate /\ start # 0 /\ Dense =>
    \A k \in legacy.ids \ (legacy.blank \cup legacy.removed) :
      legacy.repo[k] \notin legacy.gone => Survives(k)

\* Once served, a patch request keeps its id and its name, also when a server
\* that read the old version upgrades after another one has.  Of the older
\* versions only 18 and 19 have no later migration that fails the second time
\* and before the names are given: these files are left out.
NamesHold ==
  [][start \notin {18, 19} /\ UpToDate =>
       \A i \in DOMAIN disk.prs :
         /\ i \in DOMAIN disk'.prs
         /\ disk'.prs[i].key = disk.prs[i].key
         /\ disk'.prs[i].slug = disk.prs[i].slug]_disk

\* Any older file is upgraded in the end and served, whatever it holds: no
\* server waits for another one, and none meets a migration it can never pass.
UpgradeEnds == start <= Current => <>[](\A p \in Procs : proc[p].pc = "up")
=============================================================================

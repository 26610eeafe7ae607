----------------------------- MODULE PatchStore -----------------------------
(***************************************************************************)
(* The patch request store: the SQLite tables of patchbin, and the ssh     *)
(* sessions that run `push`, `issue`, `comment`, `edit`, `rm`, `pull` and  *)
(* `show` against them.  A session is a goroutine that reads the committed *)
(* tables without a lock and writes them in transactions; SQLite admits    *)
(* one writing transaction at a time (`tx`), and shows its rows to nobody  *)
(* else before the commit.                                                 *)
(*                                                                         *)
(* A target is the (repo, slug) pair that ParseTarget returns, a patch is  *)
(* its content_sha, a user is a public key (app_users maps one to one to   *)
(* keys and no row of it ever changes).  Time counts ticks of the clock.   *)
(* Foreign keys are not enforced: the driver ignores the DSN's `_fk=on`    *)
(* (sqlite.go:193-195), so a DELETE of a patchset cascades to nothing.     *)
(***************************************************************************)
EXTENDS Naturals, Sequences, FiniteSets

CONSTANTS
  Sessions,      \* the ssh sessions that may be open at the same time
  NoSession,     \* owner of the write lock when nobody holds it
  Keys,          \* public keys
  Targets,       \* <repo>:<slug> pairs
  Names,         \* titles
  Shas,          \* content_sha values of patches
  Commands,      \* the commands users may run
  MaxCommands,   \* bound: commands started in a behaviour
  MaxTime        \* bound: ticks of the clock

Ops == {"push", "issue", "comment", "edit", "rm", "pull", "show"}

\* A command line and its stdin, parsed: `rev` is the target's revision (0 for
\* the latest), `name` the title (of the first patch, the issue or the edit).
Cmd == [op : Ops, key : Keys, target : Targets, rev : Nat,
        patches : Seq(Shas), name : Names]

ASSUME SessionAssumption == NoSession \notin Sessions
ASSUME CommandAssumption == Commands \subseteq Cmd
\* ParsePatchset returns at least one patch or an error; no other command has any.
ASSUME PatchesAssumption == \A c \in Commands : (c.op = "push") <=> (c.patches # <<>>)
ASSUME BoundAssumption == MaxCommands \in Nat /\ MaxTime \in Nat

VARIABLES
  users,      \* app_users: the keys with a row
  prs,        \* patch_requests
  patchsets,  \* patchsets
  patches,    \* patches
  events,     \* event_logs
  seq,        \* sqlite_sequence: the last id of each AUTOINCREMENT table
  tx,         \* the open write transaction, the rows it holds back
  now,        \* the clock
  pc,         \* per session: the next step of the handler
  cmd,        \* per session: the command it runs
  prq,        \* per session: id of the patch request it looked up, 0 for none
  pst,        \* per session: id of the patchset it looked up or made, 0 for none
  stamp,      \* per session: the time.Now() it holds
  started,    \* number of commands started (bounded by MaxCommands)
  acked       \* history: what users were told has been done

tables == <<users, prs, patchsets, patches, events, seq>>
local  == <<cmd, prq, pst, stamp>>
vars   == <<tables, tx, now, pc, local, started, acked>>

PrRow    == [id : Nat, user : Keys, target : Targets, name : Names, last : Nat]
PsRow    == [id : Nat, pr : Nat, user : Keys, at : Nat]
PatchRow == [ps : Nat, pos : Nat, sha : Shas]
Kinds    == {"pr_created", "pr_patchset_added", "pr_patchset_deleted",
             "pr_commented", "pr_name_changed"}
EventRow == [id : Nat, kind : Kinds, pr : Nat, ps : Nat, user : Keys, at : Nat]

\* What a transaction will do at its commit: rows of `prs` replace those of
\* their id, the other rows are new, `del` are ids of patchsets to delete.
Delta == [owner : Sessions \cup {NoSession},
          prs : SUBSET PrRow, patchsets : SUBSET PsRow,
          patches : SUBSET PatchRow, events : SUBSET EventRow,
          del : SUBSET Nat, seq : [pr : Nat, ps : Nat, ev : Nat]]

NoIds == [pr |-> 0, ps |-> 0, ev |-> 0]
NoTx == [owner |-> NoSession, prs |-> {}, patchsets |-> {}, patches |-> {},
         events |-> {}, del |-> {}, seq |-> NoIds]

Ack == [op : Ops, key : Keys, target : Targets, pr : Nat, ps : Nat,
        at : Nat, patches : SUBSET (Nat \X Shas)]

NoCommand == [op |-> "none"]   \* of a session that runs none

Steps == {"idle", "upsert", "adduser", "lookup", "resolve", "now", "write",
          "commit", "bump", "touch", "summary", "read"}

TypeOK ==
  /\ users \subseteq Keys
  /\ prs \subseteq PrRow
  /\ patchsets \subseteq PsRow
  /\ patches \subseteq PatchRow
  /\ events \subseteq EventRow
  /\ seq \in [pr : Nat, ps : Nat, ev : Nat]
  /\ tx \in Delta
  /\ now \in Nat
  /\ pc \in [Sessions -> Steps]
  /\ cmd \in [Sessions -> Commands \cup {NoCommand}]
  /\ prq \in [Sessions -> Nat]
  /\ pst \in [Sessions -> Nat]
  /\ stamp \in [Sessions -> Nat]
  /\ started \in Nat
  /\ acked \subseteq Ack

Init ==
  /\ users = {} /\ prs = {} /\ patchsets = {} /\ patches = {} /\ events = {}
  /\ seq = NoIds
  /\ tx = NoTx
  /\ now = 0
  /\ pc = [s \in Sessions |-> "idle"]
  /\ cmd = [s \in Sessions |-> NoCommand]
  /\ prq = [s \in Sessions |-> 0]
  /\ pst = [s \in Sessions |-> 0]
  /\ stamp = [s \in Sessions |-> 0]
  /\ started = 0
  /\ acked = {}
-----------------------------------------------------------------------------
(***************************************************************************)
(* What the queries return.                                                *)
(***************************************************************************)

\* (fault: ORDER BY created_at DESC)
BeforeDescending(q, r) == q.at > r.at \/ (q.at = r.at /\ q.id > r.id)

\* ORDER BY created_at ASC; rows of one second come in rowid order.
Before(q, r) == q.at < r.at \/ (q.at = r.at /\ q.id < r.id)

PatchsetsOf(p) == {r \in patchsets : r.pr = p}

\* A patchset's revision is its position in its patch request's list.
Rev(r) == Cardinality({q \in PatchsetsOf(r.pr) : Before(q, r)}) + 1

Latest(r) == \A q \in PatchsetsOf(r.pr) : q = r \/ Before(q, r)

\* Revision `rev` of a target names patchset r: 0 is the latest.
Designates(rev, r) == IF rev = 0 THEN Latest(r) ELSE Rev(r) = rev

\* The patches of a patchset, in the order GetPatchesByPatchsetID lists them.
Content(id) == {<<p.pos, p.sha>> : p \in {q \in patches : q.ps = id}}

\* The rows createPatch inserts for patchset id.  Its check for the same
\* content_sha reads the committed rows of that patchset, on another connection.
Exists(id, sha) == \E p \in patches : p.ps = id /\ p.sha = sha
NewPatches(id, shas) ==
  {[ps |-> id, pos |-> i, sha |-> shas[i]] :
     i \in {j \in DOMAIN shas : ~Exists(id, shas[j])}}
-----------------------------------------------------------------------------
(***************************************************************************)
(* The steps of a session.                                                 *)
(***************************************************************************)

At(s, step) == pc[s] = step
Goto(s, step) == pc' = [pc EXCEPT ![s] = step]
WriterFree == tx.owner = NoSession

\* The session is done: it keeps nothing.
Close(s) ==
  /\ Goto(s, "idle")
  /\ cmd' = [cmd EXCEPT ![s] = NoCommand]
  /\ prq' = [prq EXCEPT ![s] = 0]
  /\ pst' = [pst EXCEPT ![s] = 0]
  /\ stamp' = [stamp EXCEPT ![s] = 0]

\* The user is told the command succeeded.
Reply(s, content) ==
  /\ acked' = acked \cup {[op |-> cmd[s].op, key |-> cmd[s].key,
                           target |-> cmd[s].target, pr |-> prq[s], ps |-> pst[s],
                           at |-> stamp[s], patches |-> content]}
  /\ Close(s)

FirstStep(op) ==
  CASE op \in {"push", "issue"} -> "upsert"
    [] op \in {"comment", "edit", "show"} -> "lookup"
    [] OTHER -> "resolve"

\* A user runs a command.
Start(s) ==
  /\ At(s, "idle")
  /\ started < MaxCommands
  /\ \E c \in Commands :
       /\ cmd' = [cmd EXCEPT ![s] = c]
       /\ Goto(s, FirstStep(c.op))
  /\ started' = started + 1
  /\ UNCHANGED <<tables, tx, now, prq, pst, stamp, acked>>

AfterUpsert(op) ==
  CASE op = "push" -> "lookup"
    [] op = "issue" -> "now"
    [] OTHER -> "write"

\* UpsertUserByPubkey reads the user's row; whatever the SELECT's error, it
\* goes on to createUser.
FindUser(s) ==
  /\ At(s, "upsert")
  /\ \/ cmd[s].key \in users /\ Goto(s, AfterUpsert(cmd[s].op))
     \/ Goto(s, "adduser")
  /\ UNCHANGED <<tables, tx, now, local, started, acked>>

\* (fault: createUser's error is ignored)
AddUserIgnoringError(s) ==
  /\ At(s, "adduser")
  /\ Goto(s, AfterUpsert(cmd[s].op))
  /\ UNCHANGED <<tables, tx, now, local, started, acked>>

\* createUser's INSERT, a transaction of its own; pubkey is UNIQUE.
AddUser(s) ==
  /\ At(s, "adduser")
  /\ WriterFree
  /\ cmd[s].key \notin users
  /\ users' = users \cup {cmd[s].key}
  /\ Goto(s, AfterUpsert(cmd[s].op))
  /\ UNCHANGED <<prs, patchsets, patches, events, seq, tx, now, local, started, acked>>

AfterLookup(op) ==
  CASE op \in {"push", "edit"} -> "write"
    [] op = "comment" -> "upsert"
    [] OTHER -> "summary"

\* (fault: no check of the creator in UpdatePatchRequestName)
LookupForAnyone(s) ==
  /\ At(s, "lookup")
  /\ \E r \in prs :
       /\ r.target = cmd[s].target
       /\ prq' = [prq EXCEPT ![s] = r.id]
  /\ Goto(s, AfterLookup(cmd[s].op))
  /\ UNCHANGED <<tables, tx, now, cmd, pst, stamp, started, acked>>

\* GetPatchRequestByRepoAndSlug finds the row.  `edit` goes on to
\* UpdatePatchRequestName, which lets only the patch request's creator pass.
Lookup(s) ==
  /\ At(s, "lookup")
  /\ \E r \in prs :
       /\ r.target = cmd[s].target
       /\ cmd[s].op = "edit" => r.user = cmd[s].key
       /\ prq' = [prq EXCEPT ![s] = r.id]
  /\ Goto(s, AfterLookup(cmd[s].op))
  /\ UNCHANGED <<tables, tx, now, cmd, pst, stamp, started, acked>>

\* `push` takes every error of the lookup, not only "no such row", as a sign
\* that the patch request is new.
LookupMisses(s) ==
  /\ At(s, "lookup")
  /\ cmd[s].op = "push"
  /\ Goto(s, "now")
  /\ UNCHANGED <<tables, tx, now, local, started, acked>>

\* ResolveTarget finds the patchset that `rm` or `pull` names, by its position
\* in the list at this moment.  `rm` lets only the patchset's creator pass.
Resolve(s) ==
  /\ At(s, "resolve")
  /\ \E r \in prs : \E d \in PatchsetsOf(r.id) :
       /\ r.target = cmd[s].target
       /\ Designates(cmd[s].rev, d)
       /\ cmd[s].op = "rm" => d.user = cmd[s].key
       /\ prq' = [prq EXCEPT ![s] = r.id]
       /\ pst' = [pst EXCEPT ![s] = d.id]
  /\ Goto(s, IF cmd[s].op = "rm" THEN "write" ELSE "read")
  /\ UNCHANGED <<tables, tx, now, cmd, stamp, started, acked>>

\* SubmitPatchRequest and SubmitIssue read the clock before their first INSERT.
ReadClock(s) ==
  /\ At(s, "now")
  /\ stamp' = [stamp EXCEPT ![s] = now]
  /\ Goto(s, "write")
  /\ UNCHANGED <<tables, tx, now, cmd, prq, pst, started, acked>>
-----------------------------------------------------------------------------
(***************************************************************************)
(* The write transactions.  Each runs all its statements in one step that  *)
(* takes the write lock, and keeps their rows in `tx` until Commit.        *)
(* CURRENT_TIMESTAMP (created_at) is read under the lock.                  *)
(***************************************************************************)

\* (fault: INTEGER PRIMARY KEY without AUTOINCREMENT gives the largest id plus 1)
NextPsReused ==
  CHOOSE n \in 1 .. seq.ps + 1 :
    /\ \A d \in patchsets : d.id < n
    /\ n = 1 \/ \E d \in patchsets : d.id = n - 1

\* INTEGER PRIMARY KEY AUTOINCREMENT: ids of removed patchsets do not come back.
NextPs == seq.ps + 1

\* (fault: the event's UserID is never set)
EventByNobody(s, kind, p, d) ==
  {[id |-> seq.ev + 1, kind |-> kind, pr |-> p, ps |-> d, user |-> "", at |-> now]}

Event(s, kind, p, d) ==
  {[id |-> seq.ev + 1, kind |-> kind, pr |-> p, ps |-> d,
    user |-> cmd[s].key, at |-> now]}

\* (fault: created_at is the session's stamp, taken before the write lock)
NewPatchsetStamped(s, p) ==
  {[id |-> NextPs, pr |-> p, user |-> cmd[s].key, at |-> stamp[s]]}

NewPatchset(s, p) ==
  {[id |-> NextPs, pr |-> p, user |-> cmd[s].key, at |-> now]}

\* Each transaction logs one event and so takes one id of event_logs.
Ids(p, d) == [pr |-> p, ps |-> d, ev |-> seq.ev + 1]

\* A transaction on the patch request looked up that adds no patchset: it logs
\* an event about patchset d, replaces `rows` and deletes patchsets `removed`.
Change(s, kind, d, rows, removed) ==
  [owner |-> s, prs |-> rows, patchsets |-> {}, patches |-> {},
   events |-> Event(s, kind, prq[s], d), del |-> removed, seq |-> Ids(seq.pr, seq.ps)]

Begin(s, delta) ==
  /\ At(s, "write")
  /\ WriterFree
  /\ tx' = delta
  /\ Goto(s, "commit")
  /\ UNCHANGED <<tables, now, cmd, stamp, started, acked>>

\* (fault: no unique index on (repo_name, slug))
WriteNewNotUnique(s) ==
  /\ cmd[s].op \in {"push", "issue"} /\ prq[s] = 0
  /\ \A i \in DOMAIN cmd[s].patches : ~Exists(NextPs, cmd[s].patches[i])
  /\ Begin(s, [owner |-> s,
                prs |-> {[id |-> seq.pr + 1, user |-> cmd[s].key,
                          target |-> cmd[s].target, name |-> cmd[s].name,
                          last |-> stamp[s]]},
                patchsets |-> NewPatchset(s, seq.pr + 1),
                patches |-> NewPatches(NextPs, cmd[s].patches),
                events |-> Event(s, "pr_created", seq.pr + 1, NextPs),
                del |-> {},
                seq |-> Ids(seq.pr + 1, NextPs)])
  /\ prq' = [prq EXCEPT ![s] = seq.pr + 1]
  /\ pst' = [pst EXCEPT ![s] = NextPs]

\* SubmitPatchRequest and SubmitIssue.  (repo_name, slug) is UNIQUE, and a
\* patch that exists already aborts the transaction.
WriteNew(s) ==
  /\ cmd[s].op \in {"push", "issue"} /\ prq[s] = 0
  /\ \A r \in prs : r.target # cmd[s].target
  /\ \A i \in DOMAIN cmd[s].patches : ~Exists(NextPs, cmd[s].patches[i])
  /\ Begin(s, [owner |-> s,
                prs |-> {[id |-> seq.pr + 1, user |-> cmd[s].key,
                          target |-> cmd[s].target, name |-> cmd[s].name,
                          last |-> stamp[s]]},
                patchsets |-> NewPatchset(s, seq.pr + 1),
                patches |-> NewPatches(NextPs, cmd[s].patches),
                events |-> Event(s, "pr_created", seq.pr + 1, NextPs),
                del |-> {},
                seq |-> Ids(seq.pr + 1, NextPs)])
  /\ prq' = [prq EXCEPT ![s] = seq.pr + 1]
  /\ pst' = [pst EXCEPT ![s] = NextPs]

\* SubmitPatchset: a patch that exists already is skipped, and without any new
\* patch there is no event.
WriteAppend(s) ==
  LET saved == NewPatches(NextPs, cmd[s].patches) IN
  /\ cmd[s].op = "push" /\ prq[s] # 0
  /\ Begin(s, [owner |-> s, prs |-> {},
                patchsets |-> NewPatchset(s, prq[s]),
                patches |-> saved,
                events |-> IF saved = {} THEN {}
                           ELSE Event(s, "pr_patchset_added", prq[s], NextPs),
                del |-> {},
                seq |-> Ids(seq.pr, NextPs)])
  /\ pst' = [pst EXCEPT ![s] = NextPs]
  /\ UNCHANGED prq

\* AddComment; the event's NULL patchset_id is written as 0.
WriteComment(s) ==
  /\ cmd[s].op = "comment"
  /\ Begin(s, Change(s, "pr_commented", 0, {}, {}))
  /\ UNCHANGED <<prq, pst>>

\* UpdatePatchRequestName.
Renamed(r, name) == [r EXCEPT !.name = name]
WriteName(s) ==
  /\ cmd[s].op = "edit"
  /\ Begin(s, Change(s, "pr_name_changed", 0,
                     {Renamed(r, cmd[s].name) : r \in {q \in prs : q.id = prq[s]}},
                     {}))
  /\ UNCHANGED <<prq, pst>>

\* DeletePatchsetByID deletes the row of patchsets, if it is still there, and
\* no row of patches.
WriteRm(s) ==
  /\ cmd[s].op = "rm"
  /\ Begin(s, Change(s, "pr_patchset_deleted", pst[s], {}, {pst[s]}))
  /\ UNCHANGED <<prq, pst>>

\* updateLastActivity follows the commit, except for a new patch request.
AfterCommit(s) ==
  IF cmd[s].op = "issue" \/ (cmd[s].op = "push" /\ tx.prs # {})
  THEN "summary" ELSE "bump"

\* (fault: a removal deletes the patches too, as if the cascade were enforced)
CommitCascading(s) ==
  /\ At(s, "commit")
  /\ prs' = {r \in prs : \A n \in tx.prs : n.id # r.id} \cup tx.prs
  /\ patchsets' = {r \in patchsets : r.id \notin tx.del} \cup tx.patchsets
  /\ patches' = {p \in patches : p.ps \notin tx.del} \cup tx.patches
  /\ events' = events \cup tx.events
  /\ seq' = tx.seq
  /\ tx' = NoTx
  /\ Goto(s, AfterCommit(s))
  /\ UNCHANGED <<users, now, local, started, acked>>

Commit(s) ==
  /\ At(s, "commit")
  /\ prs' = {r \in prs : \A n \in tx.prs : n.id # r.id} \cup tx.prs
  /\ patchsets' = {r \in patchsets : r.id \notin tx.del} \cup tx.patchsets
  /\ patches' = patches \cup tx.patches
  /\ events' = events \cup tx.events
  /\ seq' = tx.seq
  /\ tx' = NoTx
  /\ Goto(s, AfterCommit(s))
  /\ UNCHANGED <<users, now, local, started, acked>>
-----------------------------------------------------------------------------
(***************************************************************************)
(* What follows the transaction, and what may befall any step.             *)
(***************************************************************************)

\* updateLastActivity reads the clock, then waits for the write lock.
Bump(s) ==
  /\ At(s, "bump")
  /\ stamp' = [stamp EXCEPT ![s] = now]
  /\ Goto(s, "touch")
  /\ UNCHANGED <<tables, tx, now, cmd, prq, pst, started, acked>>

\* Its UPDATE, a transaction of its own.
Touched(r, time) == [r EXCEPT !.last = time]
Touch(s) ==
  /\ At(s, "touch")
  /\ WriterFree
  /\ prs' = {IF r.id = prq[s] THEN Touched(r, stamp[s]) ELSE r : r \in prs}
  /\ IF cmd[s].op = "push"
     THEN Goto(s, "summary") /\ UNCHANGED <<local, acked>>
     ELSE Reply(s, {})
  /\ UNCHANGED <<users, patchsets, patches, events, seq, tx, now, started>>

\* (fault: the UPDATE is tried again until it succeeds)
TouchRetries(s) ==
  /\ At(s, "touch")
  /\ cmd[s].op = "push"
  /\ Goto(s, "bump")
  /\ UNCHANGED <<tables, tx, now, local, started, acked>>

\* SubmitPatchset only logs the UPDATE's error.
TouchFails(s) ==
  /\ At(s, "touch")
  /\ cmd[s].op = "push"
  /\ Goto(s, "summary")
  /\ UNCHANGED <<tables, tx, now, local, started, acked>>

Submitted(c) == {<<i, c.patches[i]>> : i \in DOMAIN c.patches}

\* prSummary: a patch request without patchsets is an error.
Summary(s) ==
  /\ At(s, "summary")
  /\ PatchsetsOf(prq[s]) # {}
  /\ Reply(s, Submitted(cmd[s]))
  /\ UNCHANGED <<tables, tx, now, started>>

\* `pull` prints the patches of the patchset it resolved.
Read(s) ==
  /\ At(s, "read")
  /\ Reply(s, Content(pst[s]))
  /\ UNCHANGED <<tables, tx, now, started>>

\* (fault: the patchset is inserted outside the transaction and stays)
FailLeavingPatchset(s) ==
  /\ ~At(s, "idle")
  /\ ~(cmd[s].op = "push" /\ pc[s] \in {"bump", "touch"})
  /\ tx' = IF tx.owner = s THEN NoTx ELSE tx
  /\ patchsets' = IF tx.owner = s THEN patchsets \cup tx.patchsets ELSE patchsets
  /\ seq' = IF tx.owner = s THEN tx.seq ELSE seq
  /\ Close(s)
  /\ UNCHANGED <<users, prs, patches, events, now, started, acked>>

\* (fault: no deferred Rollback)
FailHoldingLock(s) ==
  /\ ~At(s, "idle")
  /\ ~(cmd[s].op = "push" /\ pc[s] \in {"bump", "touch"})
  /\ Close(s)
  /\ UNCHANGED <<tables, tx, now, started, acked>>

\* Any query may fail: a violated constraint, a missing row, a busy database,
\* an I/O error.  The handler returns the error, its transaction rolls back.
Fail(s) ==
  /\ ~At(s, "idle")
  /\ ~(cmd[s].op = "push" /\ pc[s] \in {"bump", "touch"})
  /\ tx' = IF tx.owner = s THEN NoTx ELSE tx
  /\ Close(s)
  /\ UNCHANGED <<tables, now, started, acked>>

\* The process stops and starts again: sessions and the open transaction are
\* lost, SQLite rolls the journal back, committed rows stay.
Crash ==
  /\ tx' = NoTx
  /\ pc' = [s \in Sessions |-> "idle"]
  /\ cmd' = [s \in Sessions |-> NoCommand]
  /\ prq' = [s \in Sessions |-> 0]
  /\ pst' = [s \in Sessions |-> 0]
  /\ stamp' = [s \in Sessions |-> 0]
  /\ UNCHANGED <<tables, now, started, acked>>

Tick ==
  /\ now < MaxTime
  /\ now' = now + 1
  /\ UNCHANGED <<tables, tx, pc, local, started, acked>>

\* The server's own steps for a session.
Step(s) ==
  \/ FindUser(s) \/ AddUser(s) \/ Lookup(s) \/ LookupMisses(s) \/ Resolve(s)
  \/ ReadClock(s) \/ WriteNew(s) \/ WriteAppend(s) \/ WriteComment(s)
  \/ WriteName(s) \/ WriteRm(s) \/ Commit(s) \/ Bump(s) \/ Touch(s)
  \/ TouchFails(s) \/ Summary(s) \/ Read(s) \/ Fail(s)

Next == Tick \/ Crash \/ \E s \in Sessions : Start(s) \/ Step(s)

Spec == Init /\ [][Next]_vars

\* Every statement returns, if only with SQLITE_BUSY: a handler never hangs.
FairSpec == Spec /\ \A s \in Sessions : WF_vars(Step(s))
-----------------------------------------------------------------------------
(***************************************************************************)
(* Safety.                                                                 *)
(***************************************************************************)

IsOrigin(e) == e.kind \in {"pr_created", "pr_patchset_added"}
IsRemoval(e) == e.kind = "pr_patchset_deleted"

\* However pushes, removals, failures and crashes interleave, the event log
\* tells for every patchset id ever given out, once, where the patchset came
\* from: the patch request and the user of its row.
OriginLogged ==
  \A id \in 1 .. seq.ps : \E e \in events :
    /\ IsOrigin(e) /\ e.ps = id
    /\ \A f \in events : IsOrigin(f) /\ f.ps = id => f = e
    /\ \A d \in patchsets : d.id = id => d.pr = e.pr /\ d.user = e.user

\* A patchset has its row exactly as long as the event log has no
\* pr_patchset_deleted of it: a removal is logged if and only if it happened,
\* and a removed patchset never comes back.
RemovalLogged ==
  \A id \in 1 .. seq.ps :
    (\E d \in patchsets : d.id = id) <=> ~(\E e \in events : IsRemoval(e) /\ e.ps = id)

\* Two sessions that find no patch request for a target and both create it
\* never leave two: a target names one patch request, with one pr_created.
TargetsUnique ==
  /\ \A r, q \in prs : r.target = q.target => r = q
  /\ \A r \in prs : \E e \in events :
       /\ e.kind = "pr_created" /\ e.pr = r.id /\ e.user = r.user
       /\ \A f \in events : f.kind = "pr_created" /\ f.pr = r.id => f = e

\* Foreign keys are declared and never enforced; the handlers alone see to it
\* that rows refer to rows.  (A removed patchset's patches and events keep its
\* id, so patches need only the id of a patchset that once was.)
NoDanglingRows ==
  /\ \A r \in prs : r.user \in users
  /\ \A d \in patchsets : d.user \in users /\ \E r \in prs : r.id = d.pr
  /\ \A p \in patches : \E e \in events : IsOrigin(e) /\ e.ps = p.ps
  /\ \A e \in events : e.user \in users /\ \E r \in prs : r.id = e.pr

\* What a user was told survives every later command, failure and crash: a
\* pushed patchset is there with exactly the patches sent, under the target
\* they were sent to, or its removal is logged; a removed one stays away.
AckedIntact ==
  \A a \in acked :
    /\ a.op \in {"push", "issue"} =>
         /\ \E r \in prs : r.id = a.pr /\ r.target = a.target
         /\ Content(a.ps) = a.patches
         /\ \/ \E d \in patchsets : d.id = a.ps /\ d.pr = a.pr /\ d.user = a.key
            \/ \E e \in events : IsRemoval(e) /\ e.ps = a.ps
    /\ a.op = "rm" => \A d \in patchsets : d.id # a.ps

\* `pull` reads the patchset's row and its patches in two queries, and a
\* removal may come between: it still prints the whole patchset that was sent.
PullIsWhole ==
  \A a, b \in acked :
    a.op = "pull" /\ b.op \in {"push", "issue"} /\ a.ps = b.ps =>
      a.patches = b.patches /\ a.target = b.target

\* Revisions follow the order in which patchsets were given their ids, though
\* the list is sorted by the clock's reading alone.
RevisionsInOrder ==
  \A d, e \in patchsets : d.pr = e.pr /\ d.id < e.id => Before(d, e)
-----------------------------------------------------------------------------
(***************************************************************************)
(* The inductive invariant behind OriginLogged and RemovalLogged.          *)
(***************************************************************************)

\* A session has a command exactly while it is busy; the one about to commit,
\* and no other, holds the write lock; `rm` holds an id that was given out.
SessionInv ==
  \A s \in Sessions :
    /\ pc[s] # "idle" => cmd[s] \in Commands
    /\ pc[s] = "commit" <=> tx.owner = s
    /\ pc[s] \notin {"idle", "resolve"} /\ cmd[s].op = "rm" => pst[s] \in 1 .. seq.ps

\* No row has an id that was not given out.
IdInv ==
  /\ \A d \in patchsets : d.id \in 1 .. seq.ps
  /\ \A p \in patches : p.ps \in 1 .. seq.ps
  /\ \A e \in events : e.ps \in 0 .. seq.ps

\* The open transaction adds one patchset under the next id and logs its
\* origin, or removes one and logs that, or leaves patchsets alone.
TxAdds ==
  /\ tx.seq.ps = seq.ps + 1
  /\ tx.del = {}
  /\ \A p \in tx.patches : p.ps = seq.ps + 1
  /\ \E d \in tx.patchsets, e \in tx.events :
       /\ tx.patchsets = {d} /\ tx.events = {e}
       /\ d.id = seq.ps + 1
       /\ IsOrigin(e) /\ e.ps = d.id /\ e.pr = d.pr /\ e.user = d.user

TxRemoves ==
  /\ tx.seq.ps = seq.ps /\ tx.patchsets = {} /\ tx.patches = {}
  /\ \E id \in 1 .. seq.ps, e \in tx.events :
       tx.del = {id} /\ tx.events = {e} /\ IsRemoval(e) /\ e.ps = id

TxSpares ==
  /\ tx.seq.ps = seq.ps /\ tx.patchsets = {} /\ tx.patches = {} /\ tx.del = {}
  /\ \E e \in tx.events :
       tx.events = {e} /\ ~IsOrigin(e) /\ ~IsRemoval(e) /\ e.ps = 0

TxInv == tx.owner # NoSession => TxAdds \/ TxRemoves \/ TxSpares

\* The whole of it: what a transaction holds back is what the event log is
\* going to say, and ids are fresh when they are given out.
LogInv ==
  /\ TypeOK
  /\ SessionInv
  /\ IdInv
  /\ TxInv
  /\ OriginLogged
  /\ RemovalLogged
-----------------------------------------------------------------------------
(***************************************************************************)
(* The inductive invariants behind TargetsUnique and RemovedByCreator.     *)
(***************************************************************************)

PrIdInv ==
  /\ \A r \in prs : r.id \in 1 .. seq.pr
  /\ \A r, q \in prs : r.id = q.id => r = q
  /\ \A e \in events : e.kind = "pr_created" => e.pr \in 1 .. seq.pr

\* The open transaction makes one patch request, for a target that still has
\* none, and logs it, or rewrites a row and keeps whose and what it is.
TxCreates ==
  /\ tx.seq.pr = seq.pr + 1
  /\ \E r \in tx.prs, e \in tx.events :
       /\ tx.prs = {r} /\ tx.events = {e}
       /\ r.id = seq.pr + 1 /\ \A q \in prs : q.target # r.target
       /\ e.kind = "pr_created" /\ e.pr = r.id /\ e.user = r.user

TxRewrites ==
  /\ tx.seq.pr = seq.pr
  /\ \A e \in tx.events : e.kind # "pr_created"
  /\ \A r, q \in tx.prs : r.id = q.id => r = q
  /\ \A r \in tx.prs : \E q \in prs :
       q.id = r.id /\ q.user = r.user /\ q.target = r.target

RequestInv ==
  /\ LogInv
  /\ PrIdInv
  /\ tx.owner # NoSession => TxCreates \/ TxRewrites
  /\ TargetsUnique

PatchsetIdInv == \A d, e \in patchsets : d.id = e.id => d = e

\* The patchset that an `rm` past its check is going to delete, if it is still
\* there, is its user's: ids are not reused, rows do not change hands.
RmInv ==
  \A s \in Sessions : pc[s] \notin {"idle", "resolve"} /\ cmd[s].op = "rm" =>
    \A d \in patchsets : d.id = pst[s] => d.user = cmd[s].key

TxRmInv ==
  \A s \in Sessions : tx.owner = s /\ tx.del # {} =>
    cmd[s].op = "rm" /\ tx.del = {pst[s]}

RemovalInv ==
  /\ LogInv
  /\ PatchsetIdInv
  /\ RmInv
  /\ TxRmInv
-----------------------------------------------------------------------------
(***************************************************************************)
(* What a step may never do.                                               *)
(***************************************************************************)

\* A session authorised by a row it read earlier removes a patchset only if
\* its key created the very patchset that goes.
RemovedByCreator ==
  [][\A d \in patchsets \ patchsets' :
       \E s \in Sessions : /\ pc[s] = "commit" /\ pc'[s] # "commit"
                           /\ cmd[s].op = "rm" /\ cmd[s].key = d.user]_vars

\* A revision a user has seen never comes to name an older patchset: the
\* revision of a patchset that stays does not grow, and shrinks only when an
\* earlier patchset of its patch request is removed.
RevisionsOnlyShiftDown ==
  [][\A d \in patchsets \cap patchsets' :
       /\ Rev(d)' <= Rev(d)
       /\ Rev(d)' < Rev(d) => \E e \in patchsets \ patchsets' :
                                e.pr = d.pr /\ e.id < d.id]_vars
-----------------------------------------------------------------------------
(***************************************************************************)
(* The store as a book of patch requests and patchsets (PatchBook).  What  *)
(* a removed row said is read off the event log.                           *)
(***************************************************************************)

First(S) == CHOOSE e \in S : \A f \in S : e.id <= f.id
Newest(S) == CHOOSE e \in S : \A f \in S : f.id <= e.id

RequestBook ==
  [p \in 1 .. seq.pr |->
     LET r == CHOOSE q \in prs : q.id = p
         titles == {e \in events : e.pr = p /\ e.kind \in {"pr_created", "pr_name_changed"}}
     IN  [target |-> r.target, by |-> r.user, name |-> r.name,
          namedBy |-> Newest(titles).user]]

SubmissionBook ==
  [i \in 1 .. seq.ps |->
     LET rows == {d \in patchsets : d.id = i}
         origin == First({e \in events : IsOrigin(e) /\ e.ps = i})
     IN  [pr |-> origin.pr, by |-> origin.user, patches |-> Content(i),
          withdrawnBy |-> IF rows # {} THEN NoSession
                          ELSE First({e \in events : IsRemoval(e) /\ e.ps = i}).user]]

Book == INSTANCE PatchBook
          WITH Nobody <- NoSession, requests <- RequestBook, submitted <- SubmissionBook

\* However commands interleave, fail and crash, every commit is one entry in a
\* book that is only written on by those it belongs to: patch requests and
\* patchsets keep their number, user and patches, a title is changed and a
\* patchset withdrawn by its creator only, whatever the session read before.
RefinesBook == Book!Spec
-----------------------------------------------------------------------------
(***************************************************************************)
(* Liveness, under FairSpec.                                               *)
(***************************************************************************)

\* Every command comes to an end, whatever the other sessions do.
Answered == \A s \in Sessions : pc[s] # "idle" ~> pc[s] = "idle"

\* The write lock is always given back.
WriterReleased == ~WriterFree ~> WriterFree
-----------------------------------------------------------------------------
(***************************************************************************)
(* What the repository says of the store and the code does not do.         *)
(***************************************************************************)

\* README.md: `rm` is to "remove a patchset and its patches".  DELETE FROM
\* patchsets leaves the rows of patches behind.
PatchesRemovedToo ==
  \A p \in patches : \E d \in patchsets : d.id = p.ps

\* pr.go: ErrPatchExists, "patch already exists for patch request", and `push`
\* reports patches "already exist in the system".  createPatch looks only into
\* the patchset just inserted, so a patch request takes the same patch again.
NoPatchTwice ==
  \A p, q \in patches : \A d, e \in patchsets :
    /\ p.ps = d.id /\ q.ps = e.id /\ d.pr = e.pr
    /\ p.sha = q.sha
    => p = q
=============================================================================

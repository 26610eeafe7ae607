------------------------------- MODULE Pages -------------------------------
(***************************************************************************)
(* What is read from the store in one query after another while ssh        *)
(* sessions write to it: the page of a patch request, its .patch file, the *)
(* Atom feeds (the web server has a connection pool of its own) and the    *)
(* `logs` command.  A request is followed from the lookup of its target to *)
(* its status.                                                             *)
(*                                                                         *)
(* What is left out: the choice of one patch among the patchset's, its     *)
(* hunks and semantic summary, the range diffs, and formatting.            *)
(***************************************************************************)
EXTENDS PatchStore

CONSTANTS
  Repos,        \* repositories
  RepoOf,       \* the repository of each target
  Requests,     \* the requests visitors may make
  MaxRequests,  \* bound: requests in a behaviour
  MaxLost       \* bound: rows of one list that cannot be read

\* A page, the .patch or the feed of a target with a revision (0 for the
\* latest), `logs --pr` of it, the feed of its repo, of a user or of everything.
\* The list of a repo's patch requests on the web, or by `ls`.
Kind == {"page", "mbox", "prfeed", "logs", "repofeed", "userfeed", "feed", "list", "ls"}
Request == [kind : Kind, target : Targets, rev : Nat, key : Keys]
ASSUME RequestAssumption == Requests \subseteq Request /\ {MaxRequests, MaxLost} \subseteq Nat
ASSUME RepoAssumption == RepoOf \in [Targets -> Repos]

VARIABLES
  view,     \* the request in progress, or the last one
  visits    \* number of requests made

pageVars == <<vars, view, visits>>

Listed == [rev : Nat, id : Nat]

View ==
  [step : {"none", "resolve", "list", "patches", "heading", "logs", "events", "done",
           "select", "authors", "requests", "request", "row", "entry", "revision"},
   req : Request \cup {NoCommand},
   pr : Nat, ps : Nat,                   \* what ResolveTarget found
   listed : SUBSET Listed,               \* the patchsets, as repo/slug.rev, or
                                         \* patch requests and their numbers of patchsets
   commits : SUBSET (Nat \X Shas),       \* the patches of the patchset
   heading : Nat,                        \* the revision in the page's heading
   todo : SUBSET EventRow,               \* log entries still to look up
   told : SUBSET EventRow,               \* log entries on the page
   rest : SUBSET Nat,                    \* patch requests still to look up
   entry : SUBSET EventRow,              \* the log entry in hand
   revs : SUBSET [ps : Nat, rev : Nat],  \* revisions given to log entries
   status : {0, 200, 404, 422, 500},
   since : Nat,                          \* history: the last event before the request
   failed : BOOLEAN]                     \* history: some query failed

PageTypeOK == TypeOK /\ view \in View /\ visits \in Nat

NoView ==
  [step |-> "none", req |-> NoCommand, pr |-> 0, ps |-> 0, listed |-> {},
   commits |-> {}, heading |-> 0, todo |-> {}, told |-> {}, rest |-> {},
   entry |-> {}, revs |-> {}, status |-> 0, since |-> 0, failed |-> FALSE]

PageInit == Init /\ view = NoView /\ visits = 0
-----------------------------------------------------------------------------
InStep(step) == view.step = step

\* The request goes on, or it is over.
Going(v, step) == view' = [v EXCEPT !.step = step]
Answer(v, status) == view' = [v EXCEPT !.step = "done", !.status = status]

FirstQuery(kind) ==
  CASE kind \in {"feed", "userfeed"} -> "select"
    [] kind \in {"repofeed", "list", "ls"} -> "requests"
    [] OTHER -> "resolve"

\* `logs` is of a user who has a row; for others it begins as `comment` does.
Visit ==
  /\ view.step \in {"none", "done"}
  /\ visits < MaxRequests
  /\ \E r \in Requests :
       /\ r.kind = "logs" => r.key \in users
       /\ view' = [NoView EXCEPT !.step = FirstQuery(r.kind), !.req = r, !.since = seq.ev]
  /\ visits' = visits + 1

AfterResolve(kind) ==
  CASE kind = "page" -> "list" [] kind = "mbox" -> "patches" [] OTHER -> "select"

\* ResolveTarget, and the creator of the patch request.
Named(d) ==
  /\ \E r \in prs : r.target = view.req.target /\ r.id = d.pr
  /\ Designates(view.req.rev, d)
PageResolve ==
  /\ InStep("resolve")
  /\ IF \E d \in patchsets : Named(d)
     THEN \E d \in patchsets :
            /\ Named(d)
            /\ Going([view EXCEPT !.pr = d.pr, !.ps = d.id], AfterResolve(view.req.kind))
     ELSE Answer(view, 404)
  /\ UNCHANGED visits

\* Rows that are left out because something about them could not be read.
Lost(rows) == {lost \in SUBSET rows : Cardinality(lost) <= MaxLost}

\* getAllPatchData: the list of patchsets with their revisions.  One whose user
\* or range diff cannot be read is left out.
PageList ==
  /\ InStep("list")
  /\ \E lost \in Lost(PatchsetsOf(view.pr)) :
       Going([view EXCEPT
                !.listed = {[rev |-> Rev(d), id |-> d.id] :
                              d \in PatchsetsOf(view.pr) \ lost},
                !.failed = (lost # {})],
             "patches")
  /\ UNCHANGED visits

\* GetPatchesByPatchsetID.  The page does not ask when it lists no patchset, and
\* needs a patch; the .patch file does not.
PagePatches ==
  LET found == IF view.req.kind = "page" /\ view.listed = {} THEN {} ELSE Content(view.ps)
      next == [view EXCEPT !.commits = found]
  IN
  /\ InStep("patches")
  /\ IF view.req.kind = "mbox" THEN Going(next, "logs")
     ELSE IF found = {} THEN Answer(next, 404) ELSE Going(next, "heading")
  /\ UNCHANGED visits

\* getPatchsetRev: 0 if the patchset is gone or the query fails.
PageHeading ==
  LET present == {d \in patchsets : d.id = view.ps} IN
  /\ InStep("heading")
  /\ \/ \E d \in present : Going([view EXCEPT !.heading = Rev(d)], "logs")
     \/ present = {} /\ Going(view, "logs")
     \/ Going([view EXCEPT !.failed = TRUE], "logs")
  /\ UNCHANGED visits

\* GetEventLogsByPrID.  BuildDiscussion leaves out the entries of users that
\* resolveUsers could not read.
LogsOf(p) == {e \in events : e.pr = p}
PageLogs ==
  /\ InStep("logs")
  /\ IF view.req.kind = "page"
     THEN Going([view EXCEPT !.todo = LogsOf(view.pr)], "events")
     ELSE \E lost \in {{}} \cup {{e \in events : e.user = k} : k \in users} :
            Answer([view EXCEPT !.told = LogsOf(view.pr) \ lost,
                                !.failed = (lost # {})], 200)
  /\ UNCHANGED visits

FirstLogged(logs) == {e \in logs : \A f \in logs : e.id <= f.id}
LastLogged(logs) == {e \in logs : \A f \in logs : e.id >= f.id}

Present(id) == \E d \in patchsets : d.id = id

\* (fault: an entry whose patchset is gone is shown without it)
PageEventLenient ==
  /\ InStep("events")
  /\ IF view.todo = {} THEN Answer(view, 200)
     ELSE \E e \in FirstLogged(view.todo) :
            Going([view EXCEPT !.todo = @ \ {e}, !.told = @ \cup {e}], "events")
  /\ UNCHANGED visits

\* (fault: the NULL patchset of a comment is looked up too)
PageEventNull ==
  /\ InStep("events")
  /\ IF view.todo = {} THEN Answer(view, 200)
     ELSE \E e \in FirstLogged(view.todo) :
            IF ~Present(e.ps) THEN Answer(view, 422)
            ELSE Going([view EXCEPT !.todo = @ \ {e}, !.told = @ \cup {e}], "events")
  /\ UNCHANGED visits

\* (fault: the loop does not get on)
PageEventAgain ==
  /\ InStep("events")
  /\ IF view.todo = {} THEN Answer(view, 200)
     ELSE \E e \in FirstLogged(view.todo) :
            IF e.ps > 0 /\ ~Present(e.ps) THEN Answer(view, 422)
            ELSE Going([view EXCEPT !.told = @ \cup {e}], "events")
  /\ UNCHANGED visits

\* getLogData looks up the patchset of each entry, oldest first, and gives up on the page when
\* one is not there.
PageEvent ==
  /\ InStep("events")
  /\ IF view.todo = {} THEN Answer(view, 200)
     ELSE \E e \in FirstLogged(view.todo) :
            IF e.ps > 0 /\ ~Present(e.ps) THEN Answer(view, 422)
            ELSE Going([view EXCEPT !.todo = @ \ {e}, !.told = @ \cup {e}], "events")
  /\ UNCHANGED visits

\* Any other query that fails, or a patch that does not parse, ends the request.
PageFails ==
  /\ view.step \in {"resolve", "list", "patches", "heading", "logs", "events",
                   "select", "requests"}
  /\ Answer([NoView EXCEPT !.req = view.req, !.failed = TRUE],
            CASE view.step = "resolve" \/ view.req.kind = "mbox" -> 404
              [] view.step \in {"select", "requests"} -> 500
              [] OTHER -> 422)
  /\ UNCHANGED visits
-----------------------------------------------------------------------------
(* Feeds and `logs`. *)

CreatedBy(k) == {r.id : r \in {q \in prs : q.user = k}}

\* (fault: GetEventLogsByUserID without the events of others)
SelectedOwn(req) ==
  CASE req.kind = "feed" -> events
    [] req.kind = "userfeed" -> {e \in events : e.user = req.key}
    [] OTHER -> LogsOf(view.pr)

\* GetEventLogs, GetEventLogsByUserID and GetEventLogsByPrID: one query each.
Selected(req) ==
  CASE req.kind = "feed" -> events
    [] req.kind = "userfeed" -> {e \in events : e.user = req.key \/ e.pr \in CreatedBy(req.key)}
    [] OTHER -> LogsOf(view.pr)

FeedSelect ==
  /\ InStep("select")
  /\ IF view.req.kind = "userfeed" /\ view.req.key \notin users THEN Answer(view, 404)
     ELSE Going([view EXCEPT !.todo = Selected(view.req)],
                IF view.req.kind = "logs" THEN "entry" ELSE "authors")
  /\ UNCHANGED visits

\* rssHandler and renderPrRss look up the user, and the patch request, of each
\* entry and leave out those they cannot read.
FeedAuthors ==
  /\ InStep("authors")
  /\ \E lost \in Lost(view.todo) :
       Answer([view EXCEPT !.told = view.todo \ lost, !.failed = (lost # {})], 200)
  /\ UNCHANGED visits

\* repoRssHandler lists the repo's patch requests and asks for the log of one
\* after the other, newest first; the lists ask for their patchsets.
FeedRequests ==
  /\ InStep("requests")
  /\ Going([view EXCEPT !.rest =
              {r.id : r \in {q \in prs : RepoOf[q.target] = RepoOf[view.req.target]}}],
           IF view.req.kind = "repofeed" THEN "request" ELSE "row")
  /\ UNCHANGED visits

Highest(ids) == CHOOSE p \in ids : \A q \in ids : q <= p

FeedRequest ==
  /\ InStep("request")
  /\ IF view.rest = {} THEN Answer(view, 200)
     ELSE LET p == Highest(view.rest) IN
          \E lost \in Lost(LogsOf(p)) :
            Going([view EXCEPT !.rest = @ \ {p}, !.told = @ \cup (LogsOf(p) \ lost),
                               !.failed = @ \/ lost # {}],
                  "request")
  /\ UNCHANGED visits

\* A row of a list: the number of patchsets, 0 if the query fails; `ls` leaves
\* the row out then.
ListRow ==
  /\ InStep("row")
  /\ IF view.rest = {} THEN Answer(view, 200)
     ELSE LET p == Highest(view.rest)
              row(n) == [view EXCEPT !.rest = @ \ {p}, !.listed = @ \cup {[rev |-> n, id |-> p]}]
          IN
          \/ Going(row(Cardinality(PatchsetsOf(p))), "row")
          \/ Going([IF view.req.kind = "list" THEN row(0) ELSE [view EXCEPT !.rest = @ \ {p}]
                      EXCEPT !.failed = TRUE], "row")
  /\ UNCHANGED visits

Noted(e, rev) ==
  [view EXCEPT !.todo = @ \ {e}, !.told = @ \cup {e}, !.entry = {},
               !.revs = @ \cup {[ps |-> e.ps, rev |-> rev]}]

\* `logs` looks up the patchset of each entry, newest first, and then its revision;
\* one that it cannot read goes by its id.
LogsEntry ==
  /\ InStep("entry")
  /\ IF view.todo = {} THEN Answer(view, 200)
     ELSE \E e \in LastLogged(view.todo) :
            \/ e.ps = 0 /\ Going([view EXCEPT !.todo = @ \ {e}, !.told = @ \cup {e}], "entry")
            \/ Present(e.ps) /\ Going([view EXCEPT !.entry = {e}], "revision")
            \/ e.ps > 0 /\ ~Present(e.ps) /\ Going(Noted(e, e.ps), "entry")
            \/ e.ps > 0 /\ Going([Noted(e, e.ps) EXCEPT !.failed = TRUE], "entry")
  /\ UNCHANGED visits

\* getPatchsetRev: 0 if the patchset has gone meanwhile or the query fails.
LogsRevision ==
  /\ InStep("revision")
  /\ \E e \in view.entry :
       \/ \E d \in patchsets : d.id = e.ps /\ Going(Noted(e, Rev(d)), "entry")
       \/ ~Present(e.ps) /\ Going(Noted(e, 0), "entry")
       \/ Going([Noted(e, 0) EXCEPT !.failed = TRUE], "entry")
  /\ UNCHANGED visits

PageRead ==
  \/ PageResolve \/ PageList \/ PagePatches \/ PageHeading \/ PageLogs \/ PageEvent
  \/ FeedSelect \/ FeedAuthors \/ FeedRequests \/ FeedRequest \/ ListRow
  \/ LogsEntry \/ LogsRevision

\* The process, web server included, stops and starts again.
PageCrash == Crash /\ view' = NoView /\ UNCHANGED visits

PageNext ==
  \/ (Visit \/ PageRead \/ PageFails) /\ UNCHANGED vars
  \/ (Tick \/ \E s \in Sessions : Start(s) \/ Step(s)) /\ UNCHANGED <<view, visits>>
  \/ PageCrash

PageSpec == PageInit /\ [][PageNext]_pageVars

\* net/http runs a handler to its end, and no query waits for ever (readers do
\* not wait for the write lock); none of them has to fail.
FairPageSpec == PageSpec /\ WF_pageVars(PageRead /\ UNCHANGED vars)
-----------------------------------------------------------------------------
\* BuildDiscussion numbers the patchsets by their origins in the log, removed
\* ones too.
Told(logs, id) == Cardinality({e \in logs : IsOrigin(e) /\ e.ps <= id})

PageShown == view.step = "done" /\ view.req.kind = "page" /\ view.status = 200
LogsShown == view.step = "done" /\ view.req.kind = "logs" /\ view.status = 200
ListShown == view.step = "done" /\ view.req.kind \in {"list", "ls"} /\ view.status = 200
MboxShown == view.step = "done" /\ view.req.kind = "mbox" /\ view.status = 200

\* The page is put together from queries at different times, with pushes and
\* removals in between: on one that is shown the heading, the list of patchsets
\* and the timeline agree on every revision all the same.  `logs`, which asks
\* for each revision anew, agrees with them as long as nothing is removed.  A
\* list has every patch request there was, and none without patchsets (they are
\* created together) before one is removed.
NumbersAgree ==
  /\ PageShown =>
       /\ \A l \in view.listed : l.rev = Told(view.told, l.id)
       /\ view.heading # 0 => view.heading = Told(view.told, view.ps)
  /\ LogsShown /\ ~view.failed =>
       \/ \E e \in events : IsRemoval(e) /\ e.pr = view.pr
       \/ \A n \in view.revs : n.rev = Told(view.told, n.ps)
  /\ ListShown /\ ~view.failed =>
       \A e \in events : e.kind = "pr_created" =>
         \/ \E l \in view.listed : l.id = e.pr /\ (l.rev > 0 \/ \E f \in events : IsRemoval(f))
         \/ e.id > view.since
         \/ \A r \in prs : r.id = e.pr => RepoOf[r.target] # RepoOf[view.req.target]

\* A page or .patch file that is shown has all patches of the patchset, as they
\* were pushed, and its log the patchset's submission, whatever was removed
\* while it was read.
ShownWhole ==
  PageShown \/ (MboxShown /\ ~view.failed) =>
    /\ \A p \in acked : p.op \in {"push", "issue"} /\ p.ps = view.ps =>
         view.commits = p.patches
    /\ \E e \in view.told : IsOrigin(e) /\ e.ps = view.ps /\ e.pr = view.pr

\* What a request is about.
Concerns(e) ==
  CASE view.req.kind = "feed" -> TRUE
    [] view.req.kind = "userfeed" ->
         e.user = view.req.key \/ \E r \in prs : r.id = e.pr /\ r.user = view.req.key
    [] view.req.kind = "repofeed" ->
         \E r \in prs : r.id = e.pr /\ RepoOf[r.target] = RepoOf[view.req.target]
    [] OTHER -> e.pr = view.pr

\* The events a page, a feed or `logs` shows are those up to some moment after
\* the request: nothing that was logged before it is missing, and no event is
\* shown without those before it.  The feed of a repo, read patch request by
\* patch request, keeps the second for each of them only.
LogOfAMoment ==
  view.step = "done" /\ view.status = 200 /\ ~view.failed =>
    /\ \A e \in view.told : Concerns(e)
    /\ \A e \in events : Concerns(e) /\ e \notin view.told =>
         /\ e.id > view.since
         /\ \A f \in view.told : f.id < e.id \/ (view.req.kind = "repofeed" /\ f.pr # e.pr)

\* A request whose queries work is refused only if there is no such target, or
\* it names a patchset without patches, or a patchset of it was removed.
RefusedForCause ==
  view.status \in {404, 422} /\ ~view.failed =>
    \/ view.ps = 0     \* (or no such user)
    \/ Content(view.ps) = {}
    \/ \E e \in events : IsRemoval(e) /\ e.pr = view.pr

\* The discussion's revision of a patchset is the same in every later one, while
\* the revision to pull it by moves when an earlier patchset is removed.
DiscussionKeepsNumbers ==
  [][\A e \in events : IsOrigin(e) =>
       Told(LogsOf(e.pr), e.ps)' = Told(LogsOf(e.pr), e.ps)]_pageVars

\* Every request is answered, unless the process stops.
VisitEnds ==
  view.step \in {"resolve", "select", "requests"} ~> view.step \in {"done", "none"}
-----------------------------------------------------------------------------
\* tmpl/pages/pr.html has a line "deleted {{.FormattedPatchsetID}}" for the
\* pr_patchset_deleted entries of the timeline.  No page ever has one: once a
\* patchset of a patch request was removed, the page is refused for each of the
\* patchsets that are still there.
PageOutlivesRemoval ==
  /\ view.step = "done" /\ view.req.kind = "page" /\ ~view.failed
  /\ view.commits # {}
  /\ Present(view.ps) /\ \A l \in view.listed : Present(l.id)
  => view.status = 200
=============================================================================

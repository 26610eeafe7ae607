---------------------------- MODULE PagesProofs -----------------------------
(***************************************************************************)
(* What is read from the store in one query after another, proved of Pages *)
(* for every number of sessions, commands and requests: a page that is     *)
(* shown is whole and agrees with itself, a log is the log of a moment, a  *)
(* refusal has a cause.                                                    *)
(*                                                                         *)
(* The store never waits for a reader.  So each invariant below says of a  *)
(* query's result only what no later commit can take back: that the log    *)
(* holds it, that an id was given out, that a removal is on record.  For   *)
(* each: what begins a request, what a commit of the store does to what    *)
(* was read, what each query adds.                                         *)
(***************************************************************************)
EXTENDS Pages, PatchBookProofs, FunctionTheorems, NaturalsInduction

LEMMA PageStepIsStoreStep == [PageNext]_pageVars => [Next]_vars
  BY DEF PageNext, PageCrash, Next, pageVars

\* Requests only read: whatever pages are asked for, the store behaves as
\* PatchStore allows, so every theorem about Spec holds with pages too.
THEOREM PagesRunTheStore == PageSpec => Spec
  BY PageStepIsStoreStep, PTL DEF PageSpec, PageInit, Spec

\* The log and the rows agree in every state a page is read from.
LEMMA PageLogInv == PageSpec => []LogInv
  BY LogInit, LogStep, PagesRunTheStore, PTL DEF Spec
-----------------------------------------------------------------------------
(***************************************************************************)
(* The discussion's numbers: the log only grows, and what it gains is the  *)
(* origin of no patchset that has a number already.                        *)
(***************************************************************************)

LEMMA LogOnlyGrows ==
  ASSUME LogInv, [Next]_vars
  PROVE  /\ events \subseteq events'
         /\ \A e \in events' \ events : IsOrigin(e) => e.ps = seq.ps + 1
  <1>1. CASE UNCHANGED events
    BY <1>1
  <1>2. ASSUME NEW s \in Sessions, Commit(s)
        PROVE  /\ events \subseteq events'
               /\ \A e \in events' \ events : IsOrigin(e) => e.ps = seq.ps + 1
    <2>1. events' = events \cup tx.events
      BY <1>2 DEF Commit
    <2>2. tx.owner = s /\ s # NoSession
      BY <1>2, SessionAssumption DEF Commit, At, LogInv, SessionInv
    <2>3. TxAdds \/ TxRemoves \/ TxSpares
      BY <2>2 DEF LogInv, TxInv
    <2>4. \A e \in tx.events : IsOrigin(e) => e.ps = seq.ps + 1
      <3>1. CASE TxAdds
        BY <3>1 DEF TxAdds
      <3>2. CASE TxRemoves
        BY <3>2 DEF TxRemoves, IsOrigin, IsRemoval
      <3>3. CASE TxSpares
        BY <3>3 DEF TxSpares
      <3>4. QED
        BY <2>3, <3>1, <3>2, <3>3
    <2>5. QED
      BY <2>1, <2>4
  <1>3. QED
    BY <1>1, <1>2
    DEF Next, Step, Tick, Crash, Start, FindUser, AddUser, Lookup, LookupMisses, Resolve,
        ReadClock, WriteNew, WriteAppend, WriteComment, WriteName, WriteRm, Begin, Bump,
        Touch, TouchFails, Summary, Read, Fail, vars, tables

LEMMA NumberKept ==
  ASSUME LogInv, [Next]_vars, NEW e \in events, IsOrigin(e)
  PROVE  Told(LogsOf(e.pr), e.ps)' = Told(LogsOf(e.pr), e.ps)
  <1> DEFINE counted == {f \in {g \in events : g.pr = e.pr} : IsOrigin(f) /\ f.ps <= e.ps}
             later == {f \in {g \in events' : g.pr = e.pr} : IsOrigin(f) /\ f.ps <= e.ps}
  <1>1. seq.ps \in Nat /\ e.ps \in 0 .. seq.ps
    BY DEF LogInv, TypeOK, IdInv
  <1>2. ASSUME NEW f \in later
        PROVE  f \in counted
    <2>1. f.ps # seq.ps + 1
      BY <1>1, <1>2
    <2>2. f \in events
      BY <1>2, <2>1, LogOnlyGrows
    <2>3. QED
      BY <1>2, <2>2
  <1>3. counted \subseteq later
    BY LogOnlyGrows
  <1>4. later = counted
    BY <1>2, <1>3
  <1>5. /\ Told(LogsOf(e.pr), e.ps) = Cardinality(counted)
        /\ Told(LogsOf(e.pr), e.ps)' = Cardinality(later)
    BY DEF Told, LogsOf, IsOrigin
  <1>6. QED
    BY <1>4, <1>5

\* The number the discussion gives a patchset is never given to another and
\* never changes, however patchsets come and go.
THEOREM DiscussionNumbersStay == PageSpec => DiscussionKeepsNumbers
  <1> DEFINE Kept == \A e \in events : IsOrigin(e) =>
                       Told(LogsOf(e.pr), e.ps)' = Told(LogsOf(e.pr), e.ps)
  <1>1. LogInv /\ [PageNext]_pageVars => [Kept]_pageVars
    BY PageStepIsStoreStep, NumberKept
  <1>2. QED
    BY <1>1, PageLogInv, PTL DEF PageSpec, DiscussionKeepsNumbers
-----------------------------------------------------------------------------
(***************************************************************************)
(* The inductive invariants.                                               *)
(***************************************************************************)

\* Patchset ps was submitted to patch request pr.
Submission(ps, pr) == \E e \in events : IsOrigin(e) /\ e.ps = ps /\ e.pr = pr

\* A removal is logged under the patch request of the patchset; no other events
\* than origins and removals have a patchset.
PlaceInv ==
  /\ \A e \in events : e.ps # 0 <=> IsOrigin(e) \/ IsRemoval(e)
  /\ \A e \in events : IsRemoval(e) => Submission(e.ps, e.pr)
  /\ \A s \in Sessions : cmd[s].op = "rm" /\ pc[s] \notin {"idle", "resolve"} =>
       Submission(pst[s], prq[s])
  /\ tx.owner # NoSession => \A e \in tx.events : IsRemoval(e) => Submission(e.ps, e.pr)

\* All that is known of the store when a page is read.
StoreInv ==
  /\ ClaimInv
  /\ BookInv
  /\ RevisionInv
  /\ PlaceInv
-----------------------------------------------------------------------------
(***************************************************************************)
(* The inductive invariants about the request in progress.                 *)
(***************************************************************************)

ForPatchRequest == {"page", "mbox", "prfeed", "logs"}

\* Which kinds of request come to which step.
ComesTo(kind, step) ==
  /\ step = "resolve" => kind \in ForPatchRequest
  /\ step \in {"list", "heading", "events"} => kind = "page"
  /\ step \in {"patches", "logs"} => kind \in {"page", "mbox"}
  /\ step = "select" => kind \in {"prfeed", "logs", "feed", "userfeed"}
  /\ step = "authors" => kind \in {"prfeed", "feed", "userfeed"}
  /\ step \in {"entry", "revision"} => kind = "logs"
  /\ step = "requests" => kind \in {"repofeed", "list", "ls"}
  /\ step = "request" => kind = "repofeed"
  /\ step = "row" => kind \in {"list", "ls"}

Asking == view.step \notin {"none", "done"}
OfKind(kinds) == view.step # "none" /\ view.req.kind \in kinds
Answered200 == view.step = "done" /\ view.status = 200

\* The request is one of those made; what it is about was found at "resolve".
CourseInv ==
  /\ view \in View
  /\ view.step # "none" => view.req \in Requests /\ ComesTo(view.req.kind, view.step)
  /\ view.step # "done" => view.status = 0
  /\ view.step = "resolve" => view.ps = 0
  /\ view.ps # 0 => OfKind(ForPatchRequest)
  /\ (Asking /\ view.step # "resolve") \/ Answered200 =>
       (OfKind(ForPatchRequest) <=> view.ps # 0)
  /\ view.ps = 0 => view.pr = 0
  /\ view.ps # 0 => view.ps \in 1 .. seq.ps /\ Submission(view.ps, view.pr)

\* The patches were all there when they were asked for.
WholeInv ==
  OfKind({"page", "mbox"}) =>
    /\ view.step \in {"heading", "logs", "events"} \/ Answered200 =>
         view.commits = Content(view.ps)
    /\ view.step = "events" \/ PageShown =>
         \E e \in view.told \cup view.todo : IsOrigin(e) /\ e.ps = view.ps /\ e.pr = view.pr
    /\ PageShown => view.todo = {}
    /\ MboxShown /\ ~view.failed =>
         \E e \in view.told : IsOrigin(e) /\ e.ps = view.ps /\ e.pr = view.pr

Removed(pr) == \E e \in events : IsRemoval(e) /\ e.pr = pr

\* A list without the patchset that was found tells of a removal.
CauseInv ==
  /\ view.step = "patches" /\ view.req.kind = "page" /\ view.listed = {} /\ ~view.failed =>
       Removed(view.pr)
  /\ view.step = "events" => view.todo \subseteq LogsOf(view.pr)
  /\ RefusedForCause

\* A log is that of a moment after the request.
OfAMoment(log) ==
  /\ log \subseteq events
  /\ \A e \in log : Concerns(e)
  /\ \A e \in events \ log : Concerns(e) => e.id > view.since /\ \A f \in log : f.id < e.id

\* The same for one patch request at a time, those in `rest` still to come.
OfMoments(log) ==
  /\ log \subseteq events
  /\ \A e \in log : Concerns(e) /\ e.pr \notin view.rest
  /\ \A e \in events \ log : Concerns(e) =>
       \/ e.pr \in view.rest
       \/ e.id > view.since /\ \A f \in log : f.pr = e.pr => f.id < e.id

\* Nothing is shown before these steps.
Untold == {"resolve", "list", "patches", "heading", "logs", "select", "authors", "requests", "row"}

MomentInv ==
  /\ view.since <= seq.ev
  /\ view.step \in Untold => view.told = {}
  /\ view.step \in {"events", "authors", "entry", "revision"} => OfAMoment(view.told \cup view.todo)
  /\ view.step = "revision" => view.entry \subseteq view.todo
  /\ Answered200 /\ ~view.failed /\ view.req.kind # "repofeed" => OfAMoment(view.told)
  /\ OfKind({"repofeed"}) /\ ~view.failed =>
       /\ view.step = "request" \/ Answered200 => OfMoments(view.told)
       /\ Answered200 => view.rest = {}
  /\ view.step \in {"request", "row"} =>
       \A p \in view.rest : \E r \in prs :
         r.id = p /\ RepoOf[r.target] = RepoOf[view.req.target]

\* The numbers on a page, and those in the output of `logs`.
Agree(log) ==
  /\ \A l \in view.listed : l.rev = Told(log, l.id)
  /\ view.heading # 0 => view.heading = Told(log, view.ps)
RevsAgree(log) == \A n \in view.revs : n.rev = Told(log, n.ps)

\* Origins that came later than a log have greater ids of patchsets.
NumberedLater(log) ==
  \A f \in LogsOf(view.pr) \ log : IsOrigin(f) => \A e \in log : e.ps < f.ps

\* Every patch request that was there has its line, or is still to come.
RowsInv ==
  \A e \in events : e.kind = "pr_created" =>
    \/ e.pr \in view.rest
    \/ \E l \in view.listed : l.id = e.pr /\ (l.rev > 0 \/ \E f \in events : IsRemoval(f))
    \/ e.id > view.since
    \/ \A r \in prs : r.id = e.pr => RepoOf[r.target] # RepoOf[view.req.target]

\* Before the log is read a page has the revisions of moments when nothing had
\* been removed, or something was; then they are the numbers of its log.
PageNumbers ==
  /\ view.step \in {"resolve", "list"} => view.listed = {}
  /\ view.step \in {"resolve", "list", "patches", "heading"} => view.heading = 0
  /\ view.step \in {"resolve", "list", "patches", "heading", "logs"} =>
       /\ \A l \in view.listed : l.id \in 1 .. seq.ps /\ Submission(l.id, view.pr)
       /\ ~Removed(view.pr) => Agree(LogsOf(view.pr))
  /\ view.step = "events" \/ PageShown =>
       /\ \A e \in view.told : ~IsRemoval(e)
       /\ (\A e \in view.told \cup view.todo : ~IsRemoval(e)) => Agree(view.told \cup view.todo)

LogNumbers ==
  /\ view.step \in {"resolve", "select"} => view.revs = {}
  /\ view.step \in {"entry", "revision"} => NumberedLater(view.told \cup view.todo)
  /\ view.step = "revision" => \A e \in view.entry : e.ps # 0
  /\ (view.step \in {"entry", "revision"} \/ LogsShown) /\ ~view.failed =>
       Removed(view.pr) \/ RevsAgree(view.told \cup view.todo)
  /\ LogsShown => view.todo = {}

ListNumbers ==
  /\ (view.step = "row" \/ ListShown) /\ ~view.failed => RowsInv
  /\ ListShown => view.rest = {}

NumberInv ==
  /\ OfKind({"page"}) => PageNumbers
  /\ OfKind({"logs"}) => LogNumbers
  /\ OfKind({"list", "ls"}) => ListNumbers

PageInv ==
  /\ PageTypeOK
  /\ StoreInv
  /\ CourseInv
  /\ WholeInv
  /\ CauseInv
  /\ MomentInv
  /\ NumberInv
-----------------------------------------------------------------------------
(***************************************************************************)
(* The store while it is read: the log and the rows only gain what comes   *)
(* after all that is there.                                                *)
(***************************************************************************)

LEMMA SubmissionStays ==
  ASSUME RequestInv, [Next]_vars, NEW ps, NEW pr, Submission(ps, pr)
  PROVE  \E e \in events' : IsOrigin(e) /\ e.ps = ps /\ e.pr = pr
  BY TablesGrow DEF Submission, IsOrigin

LEMMA RowSubmitted ==
  ASSUME LogInv, NEW d \in patchsets
  PROVE  Submission(d.id, d.pr) /\ d.id \in 1 .. seq.ps
  BY DEF LogInv, IdInv, OriginLogged, Submission

\* Which removal a session is about to make.
LEMMA PlaceChosen ==
  ASSUME RequestInv, RouteInv, PlaceInv, [Next]_vars, NEW t \in Sessions,
         cmd'[t].op = "rm", pc'[t] \notin {"idle", "resolve"}
  PROVE  \E e \in events' : IsOrigin(e) /\ e.ps = pst'[t] /\ e.pr = prq'[t]
  <1>0. TypeOK /\ LogInv
    BY DEF RequestInv, LogInv
  <1>1. CASE pc[t] \notin {"idle", "resolve"} /\ cmd'[t] = cmd[t] /\ pst'[t] = pst[t] /\ prq'[t] = prq[t]
    BY <1>1, SubmissionStays DEF PlaceInv
  <1>2. CASE Keeps(t) \/ Ends(t)
    BY <1>1, <1>2 DEF Keeps, Ends
  <1>3. CASE Start(t)
    <2>1. PICK c \in Commands : cmd'[t] = c /\ pc'[t] = FirstStep(c.op)
      BY <1>0, <1>3 DEF Start, Goto, TypeOK
    <2>2. QED
      BY <2>1 DEF FirstStep
  <1>4. CASE Resolve(t)
    <2>1. PICK r \in prs : \E d \in PatchsetsOf(r.id) :
            prq' = [prq EXCEPT ![t] = r.id] /\ pst' = [pst EXCEPT ![t] = d.id]
      BY <1>4 DEF Resolve
    <2>2. PICK d \in PatchsetsOf(r.id) :
            prq' = [prq EXCEPT ![t] = r.id] /\ pst' = [pst EXCEPT ![t] = d.id]
      BY <2>1
    <2>3. d \in patchsets /\ d.pr = r.id
      BY DEF PatchsetsOf
    <2>4. prq'[t] = d.pr /\ pst'[t] = d.id
      BY <1>0, <2>2, <2>3 DEF TypeOK
    <2>5. QED
      BY <1>0, <2>3, <2>4, RowSubmitted, SubmissionStays
  <1>5. CASE \/ FindUser(t) \/ AddUser(t) \/ LookupMisses(t) \/ ReadClock(t) \/ Bump(t)
             \/ TouchFails(t) \/ Commit(t) \/ WriteComment(t) \/ WriteName(t) \/ WriteRm(t)
    <2>1. /\ cmd' = cmd /\ pst' = pst /\ prq' = prq /\ pc[t] \notin {"idle", "resolve"}
      BY <1>5 DEF FindUser, AddUser, LookupMisses, ReadClock, Bump, TouchFails,
                  Commit, WriteComment, WriteName, WriteRm, Begin, At, Goto, local
    <2>2. QED
      BY <1>1, <2>1
  <1>6. CASE WriteNew(t) \/ WriteAppend(t)
    BY <1>6 DEF WriteNew, WriteAppend, Begin
  <1>7. CASE Lookup(t)
    <2>1. cmd' = cmd /\ pc'[t] = AfterLookup(cmd[t].op) /\ pc[t] = "lookup"
      BY <1>0, <1>7 DEF Lookup, Goto, TypeOK, At
    <2>2. cmd[t].op # "rm"
      BY <2>1 DEF RouteInv, Routed
    <2>3. QED
      BY <2>1, <2>2
  <1>8. CASE Touch(t) /\ cmd[t].op = "push"
    BY <1>8 DEF Touch, local
  <1>9. CASE (Touch(t) /\ cmd[t].op # "push") \/ Summary(t) \/ Read(t) \/ Fail(t)
    BY <1>0, <1>2, <1>9, CloseEnds DEF Touch, Summary, Read, Fail, Reply
  <1>10. QED
    BY <1>0, <1>2, <1>3, <1>4, <1>5, <1>6, <1>7, <1>8, <1>9, Moves DEF Step

LEMMA PlaceStep == ReferenceInv /\ PlaceInv /\ [Next]_vars => PlaceInv'
  <1> SUFFICES ASSUME ReferenceInv, PlaceInv, [Next]_vars
               PROVE  PlaceInv'
    OBVIOUS
  <1>0. /\ RequestInv /\ RouteInv /\ LogInv /\ TypeOK /\ SessionInv /\ IdInv
        /\ seq.ps \in Nat /\ NoTx.owner = NoSession
    BY NoTxType DEF ReferenceInv, RequestInv, LogInv, TypeOK
  <1>1. /\ \A e \in events' : e.ps # 0 <=> IsOrigin(e) \/ IsRemoval(e)
        /\ \A e \in events' : IsRemoval(e) =>
                   \E f \in events' : IsOrigin(f) /\ f.ps = e.ps /\ f.pr = e.pr
    <2>1. CASE UNCHANGED events
      BY <1>0, <2>1, SubmissionStays DEF PlaceInv
    <2>2. ASSUME NEW s \in Sessions, Commit(s)
          PROVE  /\ \A e \in events' : e.ps # 0 <=> IsOrigin(e) \/ IsRemoval(e)
                 /\ \A e \in events' : IsRemoval(e) =>
                   \E f \in events' : IsOrigin(f) /\ f.ps = e.ps /\ f.pr = e.pr
      <3>1. tx.owner = s /\ s # NoSession /\ events' = events \cup tx.events
        BY <1>0, <2>2, SessionAssumption DEF Commit, At, SessionInv
      <3>2. TxAdds \/ TxRemoves \/ TxSpares
        BY <1>0, <3>1 DEF LogInv, TxInv
      <3>3. \A e \in tx.events : e.ps # 0 <=> IsOrigin(e) \/ IsRemoval(e)
        <4>1. CASE TxAdds
          BY <1>0, <4>1 DEF TxAdds
        <4>2. CASE TxRemoves
          BY <1>0, <4>2 DEF TxRemoves
        <4>3. CASE TxSpares
          BY <1>0, <4>3 DEF TxSpares
        <4>4. QED
          BY <3>2, <4>1, <4>2, <4>3
      <3>4. QED
        BY <1>0, <3>1, <3>3, SubmissionStays DEF PlaceInv
    <2>3. QED
      BY <2>1, <2>2, Writers DEF Touch, AddUser, tables
  <1>2. tx'.owner # NoSession => \A e \in tx'.events : IsRemoval(e) =>
                   \E f \in events' : IsOrigin(f) /\ f.ps = e.ps /\ f.pr = e.pr
    <2>1. CASE tx' = tx \/ tx' = NoTx
      BY <1>0, <2>1, SubmissionStays DEF PlaceInv
    <2>2. ASSUME NEW s \in Sessions,
                 WriteNew(s) \/ WriteAppend(s) \/ WriteComment(s) \/ WriteName(s)
          PROVE  \A e \in tx'.events : ~IsRemoval(e)
      BY <2>2 DEF WriteNew, WriteAppend, WriteComment, WriteName, Begin, Change, Event, IsRemoval
    <2>3. ASSUME NEW s \in Sessions, WriteRm(s)
          PROVE  \A e \in tx'.events : \E f \in events' : IsOrigin(f) /\ f.ps = e.ps /\ f.pr = e.pr
      <3>1. /\ tx'.events = Event(s, "pr_patchset_deleted", prq[s], pst[s])
            /\ cmd[s].op = "rm" /\ pc[s] = "write"
        BY <2>3 DEF WriteRm, Begin, Change, At
      <3>2. Submission(pst[s], prq[s])
        BY <3>1 DEF PlaceInv
      <3>3. QED
        BY <1>0, <3>1, <3>2, SubmissionStays DEF Event
    <2>4. QED
      BY <2>1, <2>2, <2>3, Openers
  <1>3. QED
    BY <1>0, <1>1, <1>2, PlaceChosen DEF PlaceInv, IsOrigin, IsRemoval, Submission

LEMMA StoreStarts == Init => StoreInv
  <1> SUFFICES ASSUME Init
               PROVE  StoreInv
    OBVIOUS
  <1>1. BookInv
    BY BookStarts
  <1>2. RevisionInv
    BY <1>1, OrderInit, FS_EmptySet DEF Init, RevisionInv, BookInv
  <1>3. PlaceInv
    BY NoTxType DEF Init, PlaceInv
  <1>4. QED
    BY <1>1, <1>2, <1>3, ClaimInit DEF StoreInv

LEMMA StoreStep == StoreInv /\ [Next]_vars => StoreInv'
  BY ClaimStep, BookStep, RevisionStep, PlaceStep DEF StoreInv, ClaimInv

LEMMA StoreFacts ==
  ASSUME StoreInv
  PROVE  /\ TypeOK /\ LogInv /\ IdInv /\ RequestInv /\ ReferenceInv /\ RevisionInv
         /\ OriginLogged /\ RemovalLogged /\ NoDanglingRows /\ PrIdInv /\ TargetsUnique
         /\ EventIdInv /\ PatchsetIdInv /\ PlaceInv
         /\ seq.ev \in Nat /\ seq.ps \in Nat /\ seq.pr \in Nat
  BY DEF StoreInv, ClaimInv, BookInv, RevisionInv, RemovalInv, ReferenceInv, RequestInv,
         LogInv, TypeOK

\* The log gains events with greater ids, and origins of later patchsets.
LEMMA LogGains ==
  ASSUME StoreInv, [Next]_vars
  PROVE  /\ events \subseteq events' /\ seq.ev <= seq'.ev
         /\ \A e \in events' \ events : e.id > seq.ev
         /\ \A e \in events' \ events : IsOrigin(e) => e.ps = seq.ps + 1
  <1>1. BookInv /\ LogInv /\ seq.ev \in Nat
    BY StoreFacts DEF StoreInv
  <1>2. events \subseteq events' /\ \A e \in events' \ events : IsOrigin(e) => e.ps = seq.ps + 1
    BY <1>1, LogOnlyGrows
  <1>3. ASSUME NEW s \in Sessions, Commit(s)
        PROVE  seq.ev <= seq'.ev /\ \A e \in events' \ events : e.id > seq.ev
    BY <1>1, <1>3, CommitLogsLast
  <1>4. CASE UNCHANGED <<events, seq>>
    BY <1>1, <1>4
  <1>5. QED
    BY <1>2, <1>3, <1>4, Writers DEF Touch, AddUser, tables

\* What a page found out about a patchset or the log is still so after the step.
LEMMA KnownStays ==
  ASSUME StoreInv, [Next]_vars
  PROVE  /\ \A ps \in 1 .. seq.ps : ps \in 1 .. seq'.ps /\ Content(ps)' = Content(ps)
         /\ \A ps, pr : Submission(ps, pr) => \E e \in events' : IsOrigin(e) /\ e.ps = ps /\ e.pr = pr
         /\ \A pr : Removed(pr) => \E e \in events' : IsRemoval(e) /\ e.pr = pr
  <1>1. ASSUME NEW ps \in 1 .. seq.ps
        PROVE  ps \in 1 .. seq'.ps /\ Content(ps)' = Content(ps)
    <2>1. {p \in patches' : p.ps = ps} = {p \in patches : p.ps = ps} /\ ps \in 1 .. seq'.ps
      BY StoreFacts, GivenOutStays
    <2>2. QED
      BY <2>1 DEF Content
  <1>2. QED
    BY <1>1, SubmissionStays, LogGains, StoreFacts DEF Removed, IsRemoval

\* The same patch requests are in the log's entries, with their users and targets.
LEMMA RowsStay ==
  ASSUME StoreInv, [Next]_vars, NEW e \in events
  PROVE  \E r \in prs, q \in prs' :
           /\ r.id = e.pr /\ q.id = e.pr /\ q.user = r.user /\ q.target = r.target
           /\ \A x \in prs : x.id = e.pr => x = r
           /\ \A x \in prs' : x.id = e.pr => x = q
  <1>1. PICK r \in prs : r.id = e.pr
    BY StoreFacts DEF NoDanglingRows
  <1>2. PICK q \in prs' : q.id = r.id /\ q.user = r.user /\ q.target = r.target
    BY StoreFacts, TablesGrow DEF Stays
  <1>3. PrIdInv /\ PrIdInv'
    BY StoreFacts, RequestStep DEF RequestInv
  <1>4. QED
    BY <1>1, <1>2, <1>3 DEF PrIdInv

\* Whatever happens to a page, the store takes a step of its own or none.
LEMMA PageStoreInv == PageSpec => []StoreInv
  BY StoreStarts, StoreStep, PagesRunTheStore, PTL DEF Spec
-----------------------------------------------------------------------------
(***************************************************************************)
(* What each query does to the request in progress, field by field.        *)
(***************************************************************************)

SameTarget == /\ view'.req = view.req /\ view'.pr = view.pr /\ view'.ps = view.ps
              /\ view'.since = view.since
SameParts == /\ view'.listed = view.listed /\ view'.commits = view.commits
             /\ view'.heading = view.heading
SameLog == view'.todo = view.todo /\ view'.told = view.told
SameRows == view'.rest = view.rest /\ view'.entry = view.entry /\ view'.revs = view.revs
SameState == view'.status = view.status /\ view'.failed = view.failed

LEMMA FieldSet ==
  ASSUME NEW v \in View
  PROVE  /\ \A x \in Nat : [v EXCEPT !.pr = x] \in View /\ [v EXCEPT !.ps = x] \in View
                           /\ [v EXCEPT !.heading = x] \in View /\ [v EXCEPT !.since = x] \in View
         /\ \A x \in SUBSET EventRow : [v EXCEPT !.todo = x] \in View
               /\ [v EXCEPT !.told = x] \in View /\ [v EXCEPT !.entry = x] \in View
         /\ \A x \in SUBSET Listed : [v EXCEPT !.listed = x] \in View
         /\ \A x \in SUBSET (Nat \X Shas) : [v EXCEPT !.commits = x] \in View
         /\ \A x \in SUBSET Nat : [v EXCEPT !.rest = x] \in View
         /\ \A x \in BOOLEAN : [v EXCEPT !.failed = x] \in View
         /\ \A x \in SUBSET [ps : Nat, rev : Nat] : [v EXCEPT !.revs = x] \in View
  BY SMTT(60) DEF View

Statuses == {0, 200, 404, 422, 500}

LEMMA StepSet ==
  ASSUME NEW v \in View,
         NEW x \in {"none", "resolve", "list", "patches", "heading", "logs", "events", "done",
                    "select", "authors", "requests", "request", "row", "entry", "revision"}
  PROVE  [v EXCEPT !.step = x] \in View
  BY SMTT(60) DEF View

LEMMA StatusSet ==
  ASSUME NEW v \in View, NEW x \in Statuses
  PROVE  [v EXCEPT !.status = x] \in View
  BY SMTT(60) DEF View, Statuses

LEMMA Answers ==
  ASSUME NEW v \in View, NEW x \in Statuses, Answer(v, x)
  PROVE  /\ view'.step = "done" /\ view'.status = x
         /\ view'.req = v.req /\ view'.pr = v.pr /\ view'.ps = v.ps /\ view'.since = v.since
         /\ view'.listed = v.listed /\ view'.commits = v.commits /\ view'.heading = v.heading
         /\ view'.todo = v.todo /\ view'.told = v.told
         /\ view'.rest = v.rest /\ view'.entry = v.entry /\ view'.revs = v.revs
         /\ view'.failed = v.failed
  BY DEF Answer, View

LEMMA Goes ==
  ASSUME NEW v \in View, NEW x, Going(v, x)
  PROVE  /\ view'.step = x /\ view'.status = v.status
         /\ view'.req = v.req /\ view'.pr = v.pr /\ view'.ps = v.ps /\ view'.since = v.since
         /\ view'.listed = v.listed /\ view'.commits = v.commits /\ view'.heading = v.heading
         /\ view'.todo = v.todo /\ view'.told = v.told
         /\ view'.rest = v.rest /\ view'.entry = v.entry /\ view'.revs = v.revs
         /\ view'.failed = v.failed
  BY DEF Going, View

LEMMA AnswerTyped ==
  ASSUME NEW v \in View, NEW x \in Statuses, Answer(v, x)
  PROVE  view' \in View
  <1> DEFINE y == [v EXCEPT !.step = "done"]
  <1>1. y \in View
    BY StepSet
  <1> HIDE DEF y
  <1>2. [y EXCEPT !.status = x] \in View
    BY <1>1, StatusSet
  <1>3. QED
    BY <1>2 DEF Answer, y

LEMMA GoesTyped ==
  ASSUME NEW v \in View,
         NEW x \in {"resolve", "list", "patches", "heading", "logs", "events", "select",
                    "authors", "requests", "request", "row", "entry", "revision"},
         Going(v, x)
  PROVE  view' \in View
  <1>1. [v EXCEPT !.step = x] \in View
    BY StepSet
  <1>2. QED
    BY <1>1 DEF Going

LEMMA RevTyped ==
  ASSUME RevisionInv, NEW d
  PROVE  Rev(d) \in Nat \ {0}
  <1>1. IsFiniteSet({q \in PatchsetsOf(d.pr) : Before(q, d)})
    BY FS_Subset DEF RevisionInv, PatchsetsOf
  <1>2. QED
    BY <1>1, FS_CardinalityType DEF Rev

LEMMA VisitDoes ==
  ASSUME Visit, seq.ev \in Nat
  PROVE  /\ view' \in View /\ view'.pr = 0 /\ view'.ps = 0 /\ view'.since = seq.ev
         /\ view'.listed = {} /\ view'.commits = {} /\ view'.heading = 0
         /\ view'.todo = {} /\ view'.told = {}
         /\ view'.rest = {} /\ view'.entry = {} /\ view'.revs = {}
         /\ view'.status = 0 /\ view'.failed = FALSE
         /\ view'.req \in Requests /\ view'.step = FirstQuery(view'.req.kind)
  <1>1. PICK r \in Requests :
          view' = [NoView EXCEPT !.step = FirstQuery(r.kind), !.req = r, !.since = seq.ev]
    BY DEF Visit
  <1>2. view' = [step |-> FirstQuery(r.kind), req |-> r, pr |-> 0, ps |-> 0, listed |-> {},
                 commits |-> {}, heading |-> 0, todo |-> {}, told |-> {}, rest |-> {},
                 entry |-> {}, revs |-> {}, status |-> 0, since |-> seq.ev, failed |-> FALSE]
    BY <1>1 DEF NoView
  <1>3. r \in Request /\ FirstQuery(r.kind) \in {"select", "requests", "resolve"}
    BY RequestAssumption DEF FirstQuery
  <1>4. QED
    BY <1>2, <1>3 DEF View

LEMMA ResolveDoes ==
  ASSUME view \in View, TypeOK, PageResolve
  PROVE  /\ view' \in View /\ view'.req = view.req /\ view'.since = view.since
         /\ SameParts /\ SameLog /\ SameRows /\ view'.failed = view.failed
         /\ \/ /\ view'.step = "done" /\ view'.status = 404
               /\ view'.pr = view.pr /\ view'.ps = view.ps
            \/ \E d \in patchsets :
                 /\ Named(d) /\ view'.pr = d.pr /\ view'.ps = d.id
                 /\ view'.step = AfterResolve(view.req.kind) /\ view'.status = view.status
  <1>1. CASE Answer(view, 404)
    BY <1>1, Answers, AnswerTyped DEF Statuses, SameParts, SameLog, SameRows
  <1>2. ASSUME NEW d \in patchsets, Named(d),
               Going([view EXCEPT !.pr = d.pr, !.ps = d.id], AfterResolve(view.req.kind))
        PROVE  /\ view' \in View /\ view'.req = view.req /\ view'.since = view.since
               /\ SameParts /\ SameLog /\ SameRows /\ view'.failed = view.failed
               /\ view'.pr = d.pr /\ view'.ps = d.id
               /\ view'.step = AfterResolve(view.req.kind) /\ view'.status = view.status
    <2> DEFINE y == [view EXCEPT !.pr = d.pr]
               v == [y EXCEPT !.ps = d.id]
    <2>1. d.pr \in Nat /\ d.id \in Nat
      BY DEF TypeOK, PsRow
    <2>2. y \in View
      BY <2>1, FieldSet
    <2>3. /\ y.req = view.req /\ y.since = view.since /\ y.listed = view.listed
          /\ y.commits = view.commits /\ y.heading = view.heading /\ y.todo = view.todo
          /\ y.told = view.told /\ y.rest = view.rest /\ y.entry = view.entry
          /\ y.revs = view.revs /\ y.failed = view.failed /\ y.pr = d.pr /\ y.status = view.status
      BY DEF View
    <2> HIDE DEF y
    <2>4. v \in View
      BY <2>1, <2>2, FieldSet
    <2>5. /\ v.req = y.req /\ v.since = y.since /\ v.listed = y.listed
          /\ v.commits = y.commits /\ v.heading = y.heading /\ v.todo = y.todo
          /\ v.told = y.told /\ v.rest = y.rest /\ v.entry = y.entry
          /\ v.revs = y.revs /\ v.failed = y.failed /\ v.pr = y.pr /\ v.ps = d.id
          /\ v.status = y.status
      BY <2>2 DEF View
    <2>6. AfterResolve(view.req.kind) \in {"list", "patches", "select"}
      BY DEF AfterResolve
    <2>7. Going(v, AfterResolve(view.req.kind))
      BY <1>2 DEF y
    <2> HIDE DEF v
    <2>8. view' \in View
      BY <2>4, <2>6, <2>7, GoesTyped
    <2>9. QED
      BY <2>3, <2>4, <2>5, <2>7, <2>8, Goes DEF SameParts, SameLog, SameRows
  <1>3. QED
    BY <1>1, <1>2 DEF PageResolve

LEMMA ListDoes ==
  ASSUME view \in View, TypeOK, RevisionInv, PageList
  PROVE  /\ view' \in View /\ SameTarget /\ SameLog /\ SameRows /\ view'.step = "patches"
         /\ view'.commits = view.commits /\ view'.heading = view.heading
         /\ view'.status = view.status
         /\ \E lost \in SUBSET PatchsetsOf(view.pr) :
              /\ view'.listed = {[rev |-> Rev(d), id |-> d.id] : d \in PatchsetsOf(view.pr) \ lost}
              /\ view'.failed = (lost # {})
  <1>1. PICK lost \in Lost(PatchsetsOf(view.pr)) :
          Going([view EXCEPT
                   !.listed = {[rev |-> Rev(d), id |-> d.id] :
                                 d \in PatchsetsOf(view.pr) \ lost},
                   !.failed = (lost # {})], "patches")
    BY DEF PageList
  <1> DEFINE shown == {[rev |-> Rev(d), id |-> d.id] : d \in PatchsetsOf(view.pr) \ lost}
             y == [view EXCEPT !.listed = shown]
  <1>2. lost \subseteq PatchsetsOf(view.pr)
    BY DEF Lost
  <1>3. shown \in SUBSET Listed
    <2>1. \A d \in PatchsetsOf(view.pr) : d.id \in Nat /\ Rev(d) \in Nat
      BY RevTyped DEF PatchsetsOf, TypeOK, PsRow
    <2>2. QED
      BY <2>1 DEF Listed
  <1> HIDE DEF shown
  <1>4. y \in View
    BY <1>3, FieldSet
  <1> HIDE DEF y
  <1>5. [y EXCEPT !.failed = (lost # {})] \in View
    BY <1>4, FieldSet
  <1>6. Going([view EXCEPT !.listed = shown, !.failed = (lost # {})], "patches")
    BY <1>1 DEF shown
  <1>7. view' \in View
    BY <1>5, <1>6, GoesTyped DEF y
  <1>8. /\ SameTarget /\ SameLog /\ SameRows /\ view'.step = "patches"
        /\ view'.commits = view.commits /\ view'.heading = view.heading
        /\ view'.status = view.status
        /\ view'.listed = shown /\ view'.failed = (lost # {})
    BY <1>6 DEF Going, View, SameTarget, SameLog, SameRows
  <1>9. QED
    BY <1>2, <1>7, <1>8 DEF shown

LEMMA PatchesDo ==
  ASSUME view \in View, TypeOK, PagePatches
  PROVE  /\ view' \in View /\ SameTarget /\ SameLog /\ SameRows
         /\ view'.listed = view.listed /\ view'.heading = view.heading
         /\ view'.failed = view.failed
         /\ view'.commits = IF view.req.kind = "page" /\ view.listed = {} THEN {}
                            ELSE Content(view.ps)
         /\ \/ view.req.kind = "mbox" /\ view'.step = "logs" /\ view'.status = view.status
            \/ view.req.kind # "mbox" /\ view'.commits = {} /\ view'.step = "done" /\ view'.status = 404
            \/ /\ view.req.kind # "mbox" /\ view'.commits # {} /\ view'.step = "heading"
               /\ view'.status = view.status
  <1> DEFINE found == IF view.req.kind = "page" /\ view.listed = {} THEN {} ELSE Content(view.ps)
             y == [view EXCEPT !.commits = found]
  <1>1. found \in SUBSET (Nat \X Shas)
    BY DEF Content, TypeOK, PatchRow
  <1>2. IF view.req.kind = "mbox" THEN Going(y, "logs")
        ELSE IF found = {} THEN Answer(y, 404) ELSE Going(y, "heading")
    BY DEF PagePatches
  <1> HIDE DEF found
  <1>3. y \in View
    BY <1>1, FieldSet
  <1>4. /\ y.req = view.req /\ y.pr = view.pr /\ y.ps = view.ps /\ y.since = view.since
        /\ y.listed = view.listed /\ y.commits = found /\ y.heading = view.heading
        /\ y.todo = view.todo /\ y.told = view.told /\ y.rest = view.rest
        /\ y.entry = view.entry /\ y.revs = view.revs
        /\ y.status = view.status /\ y.failed = view.failed
    BY DEF View
  <1> HIDE DEF y
  <1>5. CASE Going(y, "logs") /\ view.req.kind = "mbox"
    BY <1>3, <1>4, <1>5, Goes, GoesTyped DEF SameTarget, SameLog, SameRows, found
  <1>6. CASE Answer(y, 404) /\ found = {} /\ view.req.kind # "mbox"
    BY <1>3, <1>4, <1>6, Answers, AnswerTyped DEF SameTarget, SameLog, SameRows, found, Statuses
  <1>7. CASE Going(y, "heading") /\ found # {} /\ view.req.kind # "mbox"
    BY <1>3, <1>4, <1>7, Goes, GoesTyped DEF SameTarget, SameLog, SameRows, found
  <1>8. QED
    BY <1>2, <1>5, <1>6, <1>7

LEMMA HeadingDoes ==
  ASSUME view \in View, RevisionInv, PageHeading
  PROVE  /\ view' \in View /\ SameTarget /\ SameLog /\ SameRows /\ view'.step = "logs"
         /\ view'.listed = view.listed /\ view'.commits = view.commits
         /\ view'.status = view.status
         /\ \/ \E d \in patchsets : d.id = view.ps /\ view'.heading = Rev(d)
            \/ view'.heading = view.heading
  <1>1. CASE \E d \in patchsets : d.id = view.ps /\ Going([view EXCEPT !.heading = Rev(d)], "logs")
    <2>1. PICK d \in patchsets : d.id = view.ps /\ Going([view EXCEPT !.heading = Rev(d)], "logs")
      BY <1>1
    <2>2. [view EXCEPT !.heading = Rev(d)] \in View
      BY RevTyped, FieldSet
    <2>3. view' \in View
      BY <2>1, <2>2, GoesTyped
    <2>4. /\ SameTarget /\ SameLog /\ SameRows /\ view'.step = "logs"
          /\ view'.listed = view.listed /\ view'.commits = view.commits
          /\ view'.status = view.status /\ view'.heading = Rev(d)
      BY <2>1 DEF Going, View, SameTarget, SameLog, SameRows
    <2>5. QED
      BY <2>1, <2>3, <2>4
  <1>2. CASE Going(view, "logs")
    BY <1>2, Goes, GoesTyped DEF SameTarget, SameLog, SameRows
  <1>3. CASE Going([view EXCEPT !.failed = TRUE], "logs")
    <2>1. [view EXCEPT !.failed = TRUE] \in View
      BY FieldSet
    <2>2. view' \in View
      BY <1>3, <2>1, GoesTyped
    <2>3. /\ SameTarget /\ SameLog /\ SameRows /\ view'.step = "logs"
          /\ view'.listed = view.listed /\ view'.commits = view.commits
          /\ view'.status = view.status /\ view'.heading = view.heading
      BY <1>3 DEF Going, View, SameTarget, SameLog, SameRows
    <2>4. QED
      BY <2>2, <2>3
  <1>4. QED
    BY <1>1, <1>2, <1>3 DEF PageHeading

LEMMA LogsDo ==
  ASSUME view \in View, TypeOK, PageLogs
  PROVE  /\ view' \in View /\ SameTarget /\ SameParts /\ SameRows
         /\ \/ /\ view.req.kind = "page" /\ view'.step = "events"
               /\ view'.todo = LogsOf(view.pr) /\ view'.told = view.told /\ SameState
            \/ \E lost \in SUBSET events :
                 /\ view.req.kind # "page" /\ view'.step = "done" /\ view'.status = 200
                 /\ view'.told = LogsOf(view.pr) \ lost /\ view'.todo = view.todo
                 /\ view'.failed = (lost # {})
  <1>1. LogsOf(view.pr) \in SUBSET EventRow
    BY DEF LogsOf, TypeOK
  <1>2. CASE view.req.kind = "page"
    <2>1. Going([view EXCEPT !.todo = LogsOf(view.pr)], "events")
      BY <1>2 DEF PageLogs
    <2>2. [view EXCEPT !.todo = LogsOf(view.pr)] \in View
      BY <1>1, FieldSet
    <2>3. view' \in View
      BY <2>1, <2>2, GoesTyped
    <2>4. /\ SameTarget /\ SameParts /\ SameRows /\ SameState /\ view'.step = "events"
          /\ view'.todo = LogsOf(view.pr) /\ view'.told = view.told
      BY <2>1 DEF Going, View, SameTarget, SameParts, SameRows, SameState
    <2>5. QED
      BY <1>2, <2>3, <2>4
  <1>3. CASE view.req.kind # "page"
    <2>1. PICK lost \in {{}} \cup {{e \in events : e.user = k} : k \in users} :
            Answer([view EXCEPT !.told = LogsOf(view.pr) \ lost, !.failed = (lost # {})], 200)
      BY <1>3 DEF PageLogs
    <2> DEFINE y == [view EXCEPT !.told = LogsOf(view.pr) \ lost]
               w == [y EXCEPT !.failed = (lost # {})]
    <2>2. lost \in SUBSET events
      OBVIOUS
    <2>3. LogsOf(view.pr) \ lost \in SUBSET EventRow
      BY <1>1
    <2>4. y \in View
      BY <2>3, FieldSet
    <2>5. /\ w.req = view.req /\ w.pr = view.pr /\ w.ps = view.ps /\ w.since = view.since
          /\ w.listed = view.listed /\ w.commits = view.commits /\ w.heading = view.heading
          /\ w.todo = view.todo /\ w.told = LogsOf(view.pr) \ lost
          /\ w.rest = view.rest /\ w.entry = view.entry /\ w.revs = view.revs
          /\ w.failed = (lost # {})
      BY DEF View
    <2> HIDE DEF y
    <2>6. w \in View
      BY <2>4, FieldSet
    <2>7. Answer(w, 200) /\ 200 \in Statuses
      BY <2>1 DEF y, Statuses
    <2> HIDE DEF w
    <2>8. view' \in View
      BY <2>6, <2>7, AnswerTyped
    <2>9. /\ SameTarget /\ SameParts /\ SameRows /\ view'.step = "done" /\ view'.status = 200
          /\ view'.told = LogsOf(view.pr) \ lost /\ view'.todo = view.todo
          /\ view'.failed = (lost # {})
      BY <2>5, <2>6, <2>7, Answers DEF SameTarget, SameParts, SameRows
    <2>10. QED
      BY <1>3, <2>2, <2>8, <2>9
  <1>4. QED
    BY <1>2, <1>3

\* An entry goes from those still to look up to those on the page.
LEMMA EntryTold ==
  ASSUME view \in View, NEW e \in view.todo, NEW step \in {"events", "entry"},
         Going([view EXCEPT !.todo = @ \ {e}, !.told = @ \cup {e}], step)
  PROVE  /\ view' \in View /\ SameTarget /\ SameParts /\ SameRows /\ SameState
         /\ view'.step = step
         /\ view'.todo = view.todo \ {e} /\ view'.told = view.told \cup {e}
  <1> DEFINE y == [view EXCEPT !.todo = view.todo \ {e}]
  <1>1. view.todo \in SUBSET EventRow /\ view.told \in SUBSET EventRow
    BY DEF View
  <1>2. view.todo \ {e} \in SUBSET EventRow /\ view.told \cup {e} \in SUBSET EventRow
    BY <1>1
  <1>3. y \in View
    BY <1>2, FieldSet
  <1>4. y.told = view.told
    BY DEF View
  <1> HIDE DEF y
  <1>5. [y EXCEPT !.told = view.told \cup {e}] \in View
    BY <1>2, <1>3, FieldSet
  <1>6. Going([y EXCEPT !.told = view.told \cup {e}], step)
    BY <1>4 DEF y
  <1>7. view' \in View
    BY <1>5, <1>6, GoesTyped
  <1>8. /\ SameTarget /\ SameParts /\ SameRows /\ SameState /\ view'.step = step
        /\ view'.todo = view.todo \ {e} /\ view'.told = view.told \cup {e}
    BY <1>6 DEF y, Going, View, SameTarget, SameParts, SameRows, SameState
  <1>9. QED
    BY <1>7, <1>8

LEMMA EventDoes ==
  ASSUME view \in View, PageEvent
  PROVE  /\ view' \in View /\ SameTarget /\ SameParts /\ SameRows /\ view'.failed = view.failed
         /\ \/ view.todo = {} /\ SameLog /\ view'.step = "done" /\ view'.status = 200
            \/ \E e \in view.todo :
                 /\ e.ps > 0 /\ ~Present(e.ps)
                 /\ SameLog /\ view'.step = "done" /\ view'.status = 422
            \/ \E e \in view.todo :
                 /\ e.ps > 0 => Present(e.ps)
                 /\ view'.step = "events" /\ view'.status = view.status
                 /\ view'.todo = view.todo \ {e} /\ view'.told = view.told \cup {e}
  <1>1. CASE view.todo = {} /\ Answer(view, 200)
    BY <1>1, Answers, AnswerTyped DEF Statuses, SameTarget, SameParts, SameRows, SameLog
  <1>2. ASSUME NEW e \in view.todo, e.ps > 0 /\ ~Present(e.ps), Answer(view, 422)
        PROVE  /\ view' \in View /\ SameTarget /\ SameParts /\ SameRows /\ SameLog
               /\ view'.failed = view.failed /\ view'.step = "done" /\ view'.status = 422
    BY <1>2, Answers, AnswerTyped DEF Statuses, SameTarget, SameParts, SameRows, SameLog
  <1>3. ASSUME NEW e \in view.todo, ~(e.ps > 0 /\ ~Present(e.ps)),
               Going([view EXCEPT !.todo = @ \ {e}, !.told = @ \cup {e}], "events")
        PROVE  /\ view' \in View /\ SameTarget /\ SameParts /\ SameRows /\ SameState
               /\ view'.step = "events"
               /\ view'.todo = view.todo \ {e} /\ view'.told = view.told \cup {e}
    BY <1>3, EntryTold
  <1>4. \A e \in FirstLogged(view.todo) : e \in view.todo
    BY DEF FirstLogged
  <1>5. CASE view.todo = {}
    BY <1>1, <1>5 DEF PageEvent
  <1>6. CASE view.todo # {}
    <2>1. PICK e \in FirstLogged(view.todo) :
            IF e.ps > 0 /\ ~Present(e.ps) THEN Answer(view, 422)
            ELSE Going([view EXCEPT !.todo = @ \ {e}, !.told = @ \cup {e}], "events")
      BY <1>6 DEF PageEvent
    <2>2. CASE e.ps > 0 /\ ~Present(e.ps)
      BY <1>2, <1>4, <2>1, <2>2
    <2>3. CASE ~(e.ps > 0 /\ ~Present(e.ps))
      <3>1. Going([view EXCEPT !.todo = @ \ {e}, !.told = @ \cup {e}], "events")
        BY <2>1, <2>3
      <3>2. /\ view' \in View /\ SameTarget /\ SameParts /\ SameRows /\ SameState
            /\ view'.step = "events"
            /\ view'.todo = view.todo \ {e} /\ view'.told = view.told \cup {e}
        BY <1>3, <1>4, <2>3, <3>1
      <3>3. QED
        BY <1>4, <2>3, <3>2 DEF SameState
    <2>4. QED
      BY <2>2, <2>3
  <1>7. QED
    BY <1>5, <1>6

LEMMA FailsDoes ==
  ASSUME view \in View, PageFails
  PROVE  /\ view' \in View /\ view'.req = view.req /\ view'.pr = 0 /\ view'.ps = 0
         /\ view'.since = 0 /\ view'.listed = {} /\ view'.commits = {} /\ view'.heading = 0
         /\ view'.todo = {} /\ view'.told = {}
         /\ view'.rest = {} /\ view'.entry = {} /\ view'.revs = {}
         /\ view'.step = "done" /\ view'.status \in {404, 422, 500} /\ view'.failed = TRUE
  <1>1. PICK status \in {404, 422, 500} :
          Answer([NoView EXCEPT !.req = view.req, !.failed = TRUE], status)
    BY DEF PageFails
  <1>2. view' = [step |-> "done", req |-> view.req, pr |-> 0, ps |-> 0, listed |-> {},
                 commits |-> {}, heading |-> 0, todo |-> {}, told |-> {}, rest |-> {},
                 entry |-> {}, revs |-> {}, status |-> status, since |-> 0, failed |-> TRUE]
    BY <1>1 DEF Answer, NoView
  <1>3. view.req \in Request \cup {NoCommand}
    BY DEF View
  <1>4. QED
    BY <1>2, <1>3 DEF View

LEMMA SelectDoes ==
  ASSUME view \in View, TypeOK, FeedSelect
  PROVE  /\ view' \in View /\ SameTarget /\ SameParts /\ SameRows
         /\ view'.failed = view.failed /\ view'.told = view.told
         /\ \/ /\ view.req.kind = "userfeed" /\ view'.todo = view.todo
               /\ view'.step = "done" /\ view'.status = 404
            \/ /\ view'.step = IF view.req.kind = "logs" THEN "entry" ELSE "authors"
               /\ view'.todo = Selected(view.req) /\ view'.status = view.status
  <1>1. CASE view.req.kind = "userfeed" /\ Answer(view, 404)
    BY <1>1, Answers, AnswerTyped DEF Statuses, SameTarget, SameParts, SameRows
  <1>2. ASSUME NEW step \in {"entry", "authors"},
               Going([view EXCEPT !.todo = Selected(view.req)], step)
        PROVE  /\ view' \in View /\ SameTarget /\ SameParts /\ SameRows /\ SameState
               /\ view'.told = view.told /\ view'.step = step /\ view'.todo = Selected(view.req)
    <2>1. Selected(view.req) \in SUBSET EventRow
      BY DEF Selected, LogsOf, TypeOK
    <2>2. [view EXCEPT !.todo = Selected(view.req)] \in View
      BY <2>1, FieldSet
    <2>3. view' \in View
      BY <1>2, <2>2, GoesTyped
    <2>4. /\ SameTarget /\ SameParts /\ SameRows /\ SameState
          /\ view'.told = view.told /\ view'.step = step /\ view'.todo = Selected(view.req)
      BY <1>2 DEF Going, View, SameTarget, SameParts, SameRows, SameState
    <2>5. QED
      BY <2>3, <2>4
  <1>3. CASE ~(view.req.kind = "userfeed" /\ view.req.key \notin users)
    <2>1. Going([view EXCEPT !.todo = Selected(view.req)],
                IF view.req.kind = "logs" THEN "entry" ELSE "authors")
      BY <1>3 DEF FeedSelect
    <2>2. QED
      BY <1>2, <2>1 DEF SameState
  <1>4. QED
    BY <1>1, <1>3 DEF FeedSelect

LEMMA AuthorsDo ==
  ASSUME view \in View, FeedAuthors
  PROVE  /\ view' \in View /\ SameTarget /\ SameParts /\ SameRows
         /\ view'.step = "done" /\ view'.status = 200 /\ view'.todo = view.todo
         /\ \E lost \in SUBSET view.todo :
              view'.told = view.todo \ lost /\ view'.failed = (lost # {})
  <1>1. PICK lost \in Lost(view.todo) :
          Answer([view EXCEPT !.told = view.todo \ lost, !.failed = (lost # {})], 200)
    BY DEF FeedAuthors
  <1> DEFINE y == [view EXCEPT !.told = view.todo \ lost]
             w == [y EXCEPT !.failed = (lost # {})]
  <1>2. view.todo \ lost \in SUBSET EventRow
    BY DEF View
  <1>3. y \in View
    BY <1>2, FieldSet
  <1>4. /\ w.req = view.req /\ w.pr = view.pr /\ w.ps = view.ps /\ w.since = view.since
        /\ w.listed = view.listed /\ w.commits = view.commits /\ w.heading = view.heading
        /\ w.todo = view.todo /\ w.told = view.todo \ lost
        /\ w.rest = view.rest /\ w.entry = view.entry /\ w.revs = view.revs
        /\ w.failed = (lost # {})
    BY DEF View
  <1> HIDE DEF y
  <1>5. w \in View
    BY <1>3, FieldSet
  <1>6. Answer(w, 200) /\ 200 \in Statuses
    BY <1>1 DEF y, Statuses
  <1> HIDE DEF w
  <1>7. view' \in View
    BY <1>5, <1>6, AnswerTyped
  <1>8. /\ SameTarget /\ SameParts /\ SameRows /\ view'.step = "done" /\ view'.status = 200
        /\ view'.told = view.todo \ lost /\ view'.todo = view.todo
        /\ view'.failed = (lost # {})
    BY <1>4, <1>5, <1>6, Answers DEF SameTarget, SameParts, SameRows
  <1>9. lost \in SUBSET view.todo
    BY DEF Lost
  <1>10. QED
    BY <1>7, <1>8, <1>9

\* The patch requests of the request's repo.
InRepo == {r.id : r \in {q \in prs : RepoOf[q.target] = RepoOf[view.req.target]}}

LEMMA RequestsDo ==
  ASSUME view \in View, TypeOK, FeedRequests
  PROVE  /\ view' \in View /\ SameTarget /\ SameParts /\ SameLog /\ SameState
         /\ view'.rest = InRepo /\ view'.revs = view.revs /\ view'.entry = view.entry
         /\ view'.step = IF view.req.kind = "repofeed" THEN "request" ELSE "row"
  <1> DEFINE step == IF view.req.kind = "repofeed" THEN "request" ELSE "row"
  <1>1. Going([view EXCEPT !.rest = InRepo], step) /\ step \in {"request", "row"}
    BY DEF FeedRequests, InRepo
  <1>2. InRepo \in SUBSET Nat
    BY DEF InRepo, TypeOK, PrRow
  <1> HIDE DEF step
  <1>3. [view EXCEPT !.rest = InRepo] \in View
    BY <1>2, FieldSet
  <1>4. view' \in View
    BY <1>1, <1>3, GoesTyped
  <1>5. /\ SameTarget /\ SameParts /\ SameLog /\ SameState /\ view'.step = step
        /\ view'.rest = InRepo /\ view'.revs = view.revs /\ view'.entry = view.entry
    BY <1>1 DEF Going, View, SameTarget, SameParts, SameLog, SameState
  <1>6. QED
    BY <1>4, <1>5 DEF step

LEMMA RequestDoes ==
  ASSUME view \in View, TypeOK, FeedRequest
  PROVE  /\ view' \in View /\ SameTarget /\ SameParts /\ view'.todo = view.todo
         /\ view'.revs = view.revs /\ view'.entry = view.entry
         /\ \/ /\ view.rest = {} /\ view'.rest = {} /\ view'.told = view.told
               /\ view'.step = "done" /\ view'.status = 200 /\ view'.failed = view.failed
            \/ \E lost \in SUBSET events :
                 /\ view.rest # {} /\ view'.rest = view.rest \ {Highest(view.rest)}
                 /\ view'.told = view.told \cup (LogsOf(Highest(view.rest)) \ lost)
                 /\ view'.step = "request" /\ view'.status = view.status
                 /\ view'.failed = (view.failed \/ lost # {})
  <1>1. CASE view.rest = {}
    <2>1. Answer(view, 200) /\ 200 \in Statuses
      BY <1>1 DEF FeedRequest, Statuses
    <2>2. QED
      BY <1>1, <2>1, Answers, AnswerTyped DEF SameTarget, SameParts
  <1>2. CASE view.rest # {}
    <2> DEFINE p == Highest(view.rest)
    <2>1. PICK lost \in Lost(LogsOf(p)) :
            Going([view EXCEPT !.rest = @ \ {p}, !.told = @ \cup (LogsOf(p) \ lost),
                               !.failed = @ \/ lost # {}], "request")
      BY <1>2 DEF FeedRequest
    <2> HIDE DEF p
    <2> DEFINE more == view.told \cup (LogsOf(p) \ lost)
               bad == view.failed \/ lost # {}
               y == [view EXCEPT !.rest = view.rest \ {p}]
               z == [y EXCEPT !.told = more]
               w == [z EXCEPT !.failed = bad]
    <2>2. view.rest \ {p} \in SUBSET Nat /\ more \in SUBSET EventRow /\ bad \in BOOLEAN
      BY DEF View, LogsOf, TypeOK
    <2>3. lost \in SUBSET events
      BY DEF Lost, LogsOf
    <2> HIDE DEF more, bad
    <2>4. y \in View
      BY <2>2, FieldSet
    <2>5. y.told = view.told /\ z.failed = view.failed
      BY DEF View
    <2>6. /\ w.req = view.req /\ w.pr = view.pr /\ w.ps = view.ps /\ w.since = view.since
          /\ w.listed = view.listed /\ w.commits = view.commits /\ w.heading = view.heading
          /\ w.todo = view.todo /\ w.told = more
          /\ w.rest = view.rest \ {p} /\ w.entry = view.entry /\ w.revs = view.revs
          /\ w.status = view.status /\ w.failed = bad
      BY DEF View
    <2>7. Going([[y EXCEPT !.told = @ \cup (LogsOf(p) \ lost)] EXCEPT !.failed = @ \/ lost # {}],
                "request")
      BY <2>1
    <2> HIDE DEF y
    <2>8. z \in View
      BY <2>2, <2>4, FieldSet
    <2>9. z = [y EXCEPT !.told = @ \cup (LogsOf(p) \ lost)]
      BY <2>5 DEF more
    <2> HIDE DEF z
    <2>10. w \in View
      BY <2>2, <2>8, FieldSet
    <2>11. Going(w, "request")
      BY <2>5, <2>7, <2>9 DEF bad
    <2> HIDE DEF w
    <2>12. view' \in View
      BY <2>10, <2>11, GoesTyped
    <2>13. /\ SameTarget /\ SameParts /\ view'.todo = view.todo
           /\ view'.revs = view.revs /\ view'.entry = view.entry
           /\ view'.rest = view.rest \ {p} /\ view'.told = more /\ view'.failed = bad
           /\ view'.step = "request" /\ view'.status = view.status
      BY <2>6, <2>10, <2>11, Goes DEF SameTarget, SameParts
    <2>14. QED
      BY <1>2, <2>3, <2>12, <2>13 DEF p, more, bad
  <1>3. QED
    BY <1>1, <1>2

\* Every nonempty set of naturals has a least element, one below n a greatest.
LEMMA Least ==
  ASSUME NEW T \in SUBSET Nat, T # {}
  PROVE  \E x \in T : \A y \in T : x <= y
  <1>1. PICK x \in T : \A y \in T : ~ (<<y, x>> \in OpToRel(<, Nat))
    BY NatLessThanWellFounded, WFMin
  <1>2. \A y \in T : <<y, x>> \in OpToRel(<, Nat) <=> y < x
    BY DEF OpToRel
  <1>3. \A y \in T : ~(y < x)
    BY <1>1, <1>2
  <1>4. x \in Nat /\ \A y \in T : y \in Nat
    OBVIOUS
  <1>5. \A y \in T : x <= y
    BY <1>3, <1>4
  <1>6. QED
    BY <1>5

LEMMA HighestIn ==
  ASSUME NEW n \in Nat, NEW T, T \subseteq 0 .. n, T # {}
  PROVE  Highest(T) \in T /\ \A y \in T : y <= Highest(T)
  <1> DEFINE U == {k \in 0 .. n : n - k \in T}
  <1>1. \A y \in T : y \in 0 .. n /\ n - y \in U
    OBVIOUS
  <1>2. U \in SUBSET Nat /\ U # {} /\ \A u \in U : u \in 0 .. n /\ n - u \in T
    <2>1. PICK t \in T : n - t \in U
      BY <1>1
    <2>2. U # {}
      BY <2>1
    <2>3. U \in SUBSET Nat
      OBVIOUS
    <2>4. QED
      BY <2>2, <2>3
  <1> HIDE DEF U
  <1>3. PICK u \in U : \A w \in U : u <= w
    BY <1>2, Least
  <1>4. \A y \in T : u <= n - y
    BY <1>1, <1>3
  <1>5. n - u \in T /\ \A y \in T : y <= n - u
    BY <1>1, <1>2, <1>4
  <1>6. \E x \in T : \A y \in T : y <= x
    BY <1>5
  <1>7. QED
    BY <1>6 DEF Highest

LEMMA RowDoes ==
  ASSUME view \in View, RevisionInv, ListRow, NEW n \in Nat, view.rest \subseteq 0 .. n
  PROVE  /\ view' \in View /\ SameTarget /\ SameLog
         /\ view'.commits = view.commits /\ view'.heading = view.heading
         /\ view'.revs = view.revs /\ view'.entry = view.entry
         /\ \/ /\ view.rest = {} /\ view'.rest = {} /\ view'.listed = view.listed
               /\ view'.step = "done" /\ view'.status = 200 /\ view'.failed = view.failed
            \/ /\ view.rest # {} /\ view'.rest = view.rest \ {Highest(view.rest)}
               /\ view'.step = "row" /\ view'.status = view.status
               /\ \/ view'.failed = TRUE
                  \/ /\ view'.failed = view.failed
                     /\ view'.listed = view.listed \cup
                          {[rev |-> Cardinality(PatchsetsOf(Highest(view.rest))),
                            id |-> Highest(view.rest)]}
  <1>1. CASE view.rest = {}
    <2>1. Answer(view, 200) /\ 200 \in Statuses
      BY <1>1 DEF ListRow, Statuses
    <2>2. QED
      BY <1>1, <2>1, Answers, AnswerTyped DEF SameTarget, SameLog
  <1>2. CASE view.rest # {}
    <2> DEFINE p == Highest(view.rest)
               left == view.rest \ {p}
               row(k) == [view EXCEPT !.rest = left, !.listed = @ \cup {[rev |-> k, id |-> p]}]
               bare == [view EXCEPT !.rest = left]
    <2>1. p \in Nat /\ left \in SUBSET Nat
      BY <1>2, HighestIn DEF View
    <2>2. \/ Going(row(Cardinality(PatchsetsOf(p))), "row")
          \/ Going([row(0) EXCEPT !.failed = TRUE], "row")
          \/ Going([bare EXCEPT !.failed = TRUE], "row")
      BY <1>2 DEF ListRow
    <2>3. bare \in View
      BY <2>1, FieldSet
    <2>4. view.listed \in SUBSET Listed /\ bare.listed = view.listed
      BY DEF View
    <2> HIDE DEF p, left
    <2>5. ASSUME NEW k \in Nat
          PROVE  /\ row(k) \in View /\ row(k).req = view.req /\ row(k).pr = view.pr
                 /\ row(k).ps = view.ps /\ row(k).since = view.since
                 /\ row(k).listed = view.listed \cup {[rev |-> k, id |-> p]}
                 /\ row(k).commits = view.commits /\ row(k).heading = view.heading
                 /\ row(k).todo = view.todo /\ row(k).told = view.told
                 /\ row(k).rest = left /\ row(k).entry = view.entry /\ row(k).revs = view.revs
                 /\ row(k).status = view.status /\ row(k).failed = view.failed
      <3>1. [rev |-> k, id |-> p] \in Listed
        BY <2>1 DEF Listed
      <3>2. view.listed \cup {[rev |-> k, id |-> p]} \in SUBSET Listed
        BY <2>4, <3>1
      <3>3. row(k) = [bare EXCEPT !.listed = view.listed \cup {[rev |-> k, id |-> p]}]
        BY <2>4
      <3> HIDE DEF bare
      <3>4. [bare EXCEPT !.listed = view.listed \cup {[rev |-> k, id |-> p]}] \in View
        BY <2>3, <3>2, FieldSet
      <3>5. row(k) \in View
        BY <3>3, <3>4
      <3>6. QED
        BY <3>5 DEF View
    <2>6. Cardinality(PatchsetsOf(p)) \in Nat
      BY FS_Subset, FS_CardinalityType DEF RevisionInv, PatchsetsOf
    <2>7. CASE Going(row(Cardinality(PatchsetsOf(p))), "row")
      <3> DEFINE w == row(Cardinality(PatchsetsOf(p)))
      <3>1. /\ w \in View /\ w.req = view.req /\ w.pr = view.pr
            /\ w.ps = view.ps /\ w.since = view.since
            /\ w.listed = view.listed \cup {[rev |-> Cardinality(PatchsetsOf(p)), id |-> p]}
            /\ w.commits = view.commits /\ w.heading = view.heading
            /\ w.todo = view.todo /\ w.told = view.told
            /\ w.rest = left /\ w.entry = view.entry /\ w.revs = view.revs
            /\ w.status = view.status /\ w.failed = view.failed
        BY <2>5, <2>6
      <3>2. Going(w, "row")
        BY <2>7
      <3> HIDE DEF w
      <3>3. QED
        BY <1>2, <3>1, <3>2, Goes, GoesTyped DEF SameTarget, SameLog, p, left
    <2>8. ASSUME NEW v \in {row(0), bare}, Going([v EXCEPT !.failed = TRUE], "row")
          PROVE  /\ view' \in View /\ SameTarget /\ SameLog
                 /\ view'.commits = view.commits /\ view'.heading = view.heading
                 /\ view'.revs = view.revs /\ view'.entry = view.entry
                 /\ view'.rest = left /\ view'.step = "row" /\ view'.status = view.status
                 /\ view'.failed = TRUE
      <3>1. /\ v \in View /\ v.req = view.req /\ v.pr = view.pr
            /\ v.ps = view.ps /\ v.since = view.since
            /\ v.commits = view.commits /\ v.heading = view.heading
            /\ v.todo = view.todo /\ v.told = view.told
            /\ v.rest = left /\ v.entry = view.entry /\ v.revs = view.revs
            /\ v.status = view.status
        <4>1. CASE v = row(0)
          BY <2>5, <4>1
        <4>2. CASE v = bare
          BY <2>3, <4>2 DEF View
        <4>3. QED
          BY <2>8, <4>1, <4>2
      <3> HIDE DEF row, bare
      <3>2. [v EXCEPT !.failed = TRUE] \in View
        BY <3>1, FieldSet
      <3>3. view' \in View
        BY <2>8, <3>2, GoesTyped
      <3>4. QED
        BY <2>8, <3>1, <3>3 DEF Going, View, SameTarget, SameLog
    <2>9. QED
      BY <1>2, <2>2, <2>7, <2>8 DEF p, left
  <1>3. QED
    BY <1>1, <1>2

LEMMA NotedIs ==
  ASSUME view \in View, NEW e \in EventRow, NEW n \in Nat
  PROVE  LET w == Noted(e, n) IN
         /\ w \in View /\ w.req = view.req /\ w.pr = view.pr /\ w.ps = view.ps
         /\ w.since = view.since /\ w.listed = view.listed /\ w.commits = view.commits
         /\ w.heading = view.heading /\ w.todo = view.todo \ {e} /\ w.told = view.told \cup {e}
         /\ w.rest = view.rest /\ w.entry = {}
         /\ w.revs = view.revs \cup {[ps |-> e.ps, rev |-> n]}
         /\ w.status = view.status /\ w.failed = view.failed
  <1> DEFINE a == view.todo \ {e}
             b == view.told \cup {e}
             c == view.revs \cup {[ps |-> e.ps, rev |-> n]}
             w == [view EXCEPT !.todo = a, !.told = b, !.entry = {}, !.revs = c]
  <1>1. /\ a \in SUBSET EventRow /\ b \in SUBSET EventRow /\ {} \in SUBSET EventRow
        /\ c \in SUBSET [ps : Nat, rev : Nat]
    <2>1. /\ view.todo \in SUBSET EventRow /\ view.told \in SUBSET EventRow
          /\ view.revs \in SUBSET [ps : Nat, rev : Nat]
      BY DEF View
    <2>2. [ps |-> e.ps, rev |-> n] \in [ps : Nat, rev : Nat]
      BY DEF EventRow
    <2>3. QED
      BY <2>1, <2>2
  <1>2. Noted(e, n) = w
    BY DEF Noted, View
  <1> HIDE DEF a, b, c
  <1>3. w \in View
    <2> DEFINE y == [view EXCEPT !.todo = a]
               z == [y EXCEPT !.told = b]
               u == [z EXCEPT !.entry = {}]
    <2>1. y \in View
      BY <1>1, FieldSet
    <2> HIDE DEF y
    <2>2. z \in View
      BY <1>1, <2>1, FieldSet
    <2> HIDE DEF z
    <2>3. u \in View
      BY <1>1, <2>2, FieldSet
    <2> HIDE DEF u
    <2>4. [u EXCEPT !.revs = c] \in View
      BY <1>1, <2>3, FieldSet
    <2>5. QED
      BY <2>4 DEF u, z, y
  <1>4. /\ w.req = view.req /\ w.pr = view.pr /\ w.ps = view.ps
        /\ w.since = view.since /\ w.listed = view.listed /\ w.commits = view.commits
        /\ w.heading = view.heading /\ w.todo = a /\ w.told = b
        /\ w.rest = view.rest /\ w.entry = {} /\ w.revs = c
        /\ w.status = view.status /\ w.failed = view.failed
    BY DEF View
  <1> HIDE DEF w
  <1>5. QED
    BY <1>2, <1>3, <1>4 DEF a, b, c

LEMMA NotedFails ==
  ASSUME view \in View, NEW e \in EventRow, NEW n \in Nat,
         Going([Noted(e, n) EXCEPT !.failed = TRUE], "entry")
  PROVE  /\ view' \in View /\ SameTarget /\ SameParts /\ view'.rest = view.rest
         /\ view'.step = "entry" /\ view'.status = view.status /\ view'.failed = TRUE
         /\ view'.todo = view.todo \ {e} /\ view'.told = view.told \cup {e}
  <1> DEFINE w == Noted(e, n)
  <1>1. /\ w \in View /\ w.req = view.req /\ w.pr = view.pr /\ w.ps = view.ps
        /\ w.since = view.since /\ w.listed = view.listed /\ w.commits = view.commits
        /\ w.heading = view.heading /\ w.todo = view.todo \ {e} /\ w.told = view.told \cup {e}
        /\ w.rest = view.rest /\ w.status = view.status
    BY NotedIs
  <1>2. Going([w EXCEPT !.failed = TRUE], "entry")
    OBVIOUS
  <1> HIDE DEF w
  <1> DEFINE y == [w EXCEPT !.failed = TRUE]
  <1>3. y \in View
    BY <1>1, FieldSet
  <1>4. /\ y.req = w.req /\ y.pr = w.pr /\ y.ps = w.ps /\ y.since = w.since
        /\ y.listed = w.listed /\ y.commits = w.commits /\ y.heading = w.heading
        /\ y.todo = w.todo /\ y.told = w.told /\ y.rest = w.rest
        /\ y.status = w.status /\ y.failed = TRUE
    BY <1>1 DEF View
  <1>5. Going(y, "entry")
    BY <1>2
  <1> HIDE DEF y
  <1>6. view' \in View
    BY <1>3, <1>5, GoesTyped
  <1>7. QED
    BY <1>1, <1>3, <1>4, <1>5, <1>6, Goes DEF SameTarget, SameParts

LEMMA EntryDoes ==
  ASSUME view \in View, LogsEntry
  PROVE  /\ view' \in View /\ SameTarget /\ SameParts /\ view'.rest = view.rest
         /\ \/ /\ view.todo = {} /\ SameLog /\ view'.revs = view.revs
               /\ view'.step = "done" /\ view'.status = 200 /\ view'.failed = view.failed
            \/ /\ view'.status = view.status
               /\ \E e \in view.todo :
                    \/ /\ view'.step = "revision" /\ Present(e.ps) /\ SameLog /\ view'.entry = {e}
                       /\ view'.revs = view.revs /\ view'.failed = view.failed
                    \/ /\ view'.step = "entry"
                       /\ view'.todo = view.todo \ {e} /\ view'.told = view.told \cup {e}
                       /\ \/ view'.failed = TRUE
                          \/ /\ view'.failed = view.failed
                             /\ view'.revs = view.revs \/ (e.ps > 0 /\ ~Present(e.ps))
  <1>1. CASE view.todo = {}
    <2>1. Answer(view, 200) /\ 200 \in Statuses
      BY <1>1 DEF LogsEntry, Statuses
    <2>2. QED
      BY <1>1, <2>1, Answers, AnswerTyped DEF SameTarget, SameParts, SameLog
  <1>2. CASE view.todo # {}
    <2>1. PICK e \in LastLogged(view.todo) :
            \/ e.ps = 0 /\ Going([view EXCEPT !.todo = @ \ {e}, !.told = @ \cup {e}], "entry")
            \/ Present(e.ps) /\ Going([view EXCEPT !.entry = {e}], "revision")
            \/ e.ps > 0 /\ ~Present(e.ps) /\ Going(Noted(e, e.ps), "entry")
            \/ e.ps > 0 /\ Going([Noted(e, e.ps) EXCEPT !.failed = TRUE], "entry")
      BY <1>2 DEF LogsEntry
    <2>2. e \in view.todo /\ e \in EventRow /\ e.ps \in Nat
      BY DEF LastLogged, View, EventRow
    <2>3. CASE Going([view EXCEPT !.todo = @ \ {e}, !.told = @ \cup {e}], "entry")
      BY <2>2, <2>3, EntryTold DEF SameRows, SameState
    <2>4. CASE Present(e.ps) /\ Going([view EXCEPT !.entry = {e}], "revision")
      <3>1. [view EXCEPT !.entry = {e}] \in View
        BY <2>2, FieldSet
      <3>2. view' \in View
        BY <2>4, <3>1, GoesTyped
      <3>3. /\ SameTarget /\ SameParts /\ SameLog /\ view'.rest = view.rest
            /\ view'.entry = {e} /\ view'.revs = view.revs
            /\ view'.status = view.status /\ view'.failed = view.failed
            /\ view'.step = "revision"
        BY <2>4 DEF Going, View, SameTarget, SameParts, SameLog
      <3>4. QED
        BY <2>2, <2>4, <3>2, <3>3
    <2>5. CASE Going(Noted(e, e.ps), "entry") /\ e.ps > 0 /\ ~Present(e.ps)
      <3>1. Going(Noted(e, e.ps), "entry")
        BY <2>5
      <3>2. QED
        BY <2>2, <2>5, <3>1, Goes, GoesTyped, NotedIs DEF SameTarget, SameParts
    <2>6. CASE Going([Noted(e, e.ps) EXCEPT !.failed = TRUE], "entry")
      <3>1. /\ view' \in View /\ SameTarget /\ SameParts /\ view'.rest = view.rest
            /\ view'.step = "entry" /\ view'.status = view.status /\ view'.failed = TRUE
            /\ view'.todo = view.todo \ {e} /\ view'.told = view.told \cup {e}
        BY <2>2, <2>6, NotedFails
      <3>2. QED
        BY <2>2, <3>1
    <2>7. QED
      BY <2>1, <2>3, <2>4, <2>5, <2>6
  <1>3. QED
    BY <1>1, <1>2

LEMMA RevisionDoes ==
  ASSUME view \in View, RevisionInv, LogsRevision
  PROVE  /\ view' \in View /\ SameTarget /\ SameParts /\ view'.rest = view.rest
         /\ view'.step = "entry" /\ view'.status = view.status
         /\ \E e \in view.entry :
              /\ view'.todo = view.todo \ {e} /\ view'.told = view.told \cup {e}
              /\ \/ view'.failed = TRUE
                 \/ view'.failed = view.failed /\ ~Present(e.ps)
                 \/ /\ view'.failed = view.failed
                    /\ \E d \in patchsets :
                         /\ d.id = e.ps
                         /\ view'.revs = view.revs \cup {[ps |-> e.ps, rev |-> Rev(d)]}
  <1>1. PICK e \in view.entry :
          \/ \E d \in patchsets : d.id = e.ps /\ Going(Noted(e, Rev(d)), "entry")
          \/ ~Present(e.ps) /\ Going(Noted(e, 0), "entry")
          \/ Going([Noted(e, 0) EXCEPT !.failed = TRUE], "entry")
    BY DEF LogsRevision
  <1>2. e \in EventRow /\ e.ps \in Nat
    BY DEF View, EventRow
  <1>3. ASSUME NEW n \in Nat, Going(Noted(e, n), "entry")
        PROVE  /\ view' \in View /\ SameTarget /\ SameParts /\ view'.rest = view.rest
               /\ view'.step = "entry" /\ view'.status = view.status
               /\ view'.failed = view.failed
               /\ view'.todo = view.todo \ {e} /\ view'.told = view.told \cup {e}
               /\ view'.revs = view.revs \cup {[ps |-> e.ps, rev |-> n]}
    BY <1>2, <1>3, Goes, GoesTyped, NotedIs DEF SameTarget, SameParts
  <1>4. CASE \E d \in patchsets : d.id = e.ps /\ Going(Noted(e, Rev(d)), "entry")
    <2>1. PICK d \in patchsets : d.id = e.ps /\ Going(Noted(e, Rev(d)), "entry")
      BY <1>4
    <2>2. Rev(d) \in Nat
      BY RevTyped
    <2>3. QED
      BY <1>3, <2>1, <2>2
  <1>5. CASE ~Present(e.ps) /\ Going(Noted(e, 0), "entry")
    BY <1>3, <1>5
  <1>6. CASE Going([Noted(e, 0) EXCEPT !.failed = TRUE], "entry")
    <2>1. /\ view' \in View /\ SameTarget /\ SameParts /\ view'.rest = view.rest
          /\ view'.step = "entry" /\ view'.status = view.status /\ view'.failed = TRUE
          /\ view'.todo = view.todo \ {e} /\ view'.told = view.told \cup {e}
      BY <1>2, <1>6, NotedFails
    <2>2. QED
      BY <2>1
  <1>7. QED
    BY <1>1, <1>4, <1>5, <1>6
-----------------------------------------------------------------------------
LEMMA InSteps ==
  /\ Visit => view.step \in {"none", "done"}
  /\ PageResolve => view.step = "resolve"
  /\ PageList => view.step = "list"
  /\ PagePatches => view.step = "patches"
  /\ PageHeading => view.step = "heading"
  /\ PageLogs => view.step = "logs"
  /\ PageEvent => view.step = "events"
  /\ FeedSelect => view.step = "select"
  /\ FeedAuthors => view.step = "authors"
  /\ FeedRequests => view.step = "requests"
  /\ FeedRequest => view.step = "request"
  /\ ListRow => view.step = "row"
  /\ LogsEntry => view.step = "entry"
  /\ LogsRevision => view.step = "revision"
  /\ PageFails => view.step \notin {"none", "done"}
  BY DEF Visit, PageResolve, PageList, PagePatches, PageHeading, PageLogs, PageEvent, FeedSelect,
         FeedAuthors, FeedRequests, FeedRequest, ListRow, LogsEntry, LogsRevision, PageFails, InStep

\* A step of the whole is the store's, with the request in progress kept or
\* lost, or the request's.
LEMMA PageSteps ==
  ASSUME [PageNext]_pageVars
  PROVE  \/ [Next]_vars /\ view' = view
         \/ [Next]_vars /\ view' = NoView
         \/ UNCHANGED vars /\ (Visit \/ PageRead \/ PageFails)
  BY DEF PageNext, PageCrash, Next, pageVars
-----------------------------------------------------------------------------
(***************************************************************************)
(* The course of a request.                                                *)
(***************************************************************************)

LEMMA NoViewIs ==
  /\ NoView \in View /\ NoView.step = "none" /\ NoView.status = 0
  /\ NoView.ps = 0 /\ NoView.pr = 0 /\ NoView.since = 0 /\ NoView.told = {}
  BY DEF NoView, View

LEMMA CourseBegins == (view = NoView => CourseInv) /\ (view' = NoView => CourseInv')
  BY NoViewIs DEF CourseInv, OfKind, Asking, Answered200

LEMMA CourseStore ==
  ASSUME StoreInv, CourseInv, [Next]_vars, view' = view
  PROVE  CourseInv'
  <1>1. view.ps # 0 =>
          /\ view.ps \in 1 .. seq'.ps
          /\ \E e \in events' : IsOrigin(e) /\ e.ps = view.ps /\ e.pr = view.pr
    BY KnownStays DEF CourseInv
  <1>2. QED
    BY <1>1 DEF CourseInv, OfKind, Asking, Answered200, Submission

LEMMA CourseVisit ==
  ASSUME StoreInv, Visit
  PROVE  CourseInv'
  <1>1. seq.ev \in Nat
    BY StoreFacts
  <1>2. /\ view' \in View /\ view'.pr = 0 /\ view'.ps = 0 /\ view'.status = 0
        /\ view'.req \in Requests /\ view'.step = FirstQuery(view'.req.kind)
    BY <1>1, VisitDoes
  <1>3. view'.req.kind \in Kind
    BY <1>2, RequestAssumption DEF Request
  <1>4. QED
    BY <1>2, <1>3 DEF CourseInv, FirstQuery, ComesTo, OfKind, Asking, Answered200, ForPatchRequest, Kind

LEMMA CourseResolve ==
  ASSUME StoreInv, CourseInv, UNCHANGED vars, PageResolve
  PROVE  CourseInv'
  <1>1. view \in View /\ TypeOK /\ view.step = "resolve"
    BY InSteps, StoreFacts DEF CourseInv
  <1>2. view.req \in Requests /\ view.req.kind \in ForPatchRequest /\ view.ps = 0 /\ view.pr = 0
        /\ view.status = 0
    BY <1>1 DEF CourseInv, ComesTo
  <1>3. CASE /\ view'.step = "done" /\ view'.status = 404
             /\ view'.pr = view.pr /\ view'.ps = view.ps
    BY <1>1, <1>2, <1>3, ResolveDoes DEF CourseInv, ComesTo, OfKind, Asking, Answered200
  <1>4. ASSUME NEW d \in patchsets, view'.pr = d.pr, view'.ps = d.id, view' \in View,
               view'.req = view.req,
               view'.step = AfterResolve(view.req.kind), view'.status = view.status
        PROVE  CourseInv'
    <2>1. d.id \in 1 .. seq.ps /\ Submission(d.id, d.pr) /\ seq.ps \in Nat
      BY RowSubmitted, StoreFacts
    <2>2. view'.ps \in 1 .. seq'.ps /\ Submission(view.ps, view.pr)' /\ view'.ps # 0
      BY <1>4, <2>1 DEF vars, tables, Submission
    <2>3. QED
      BY <1>1, <1>2, <1>4, <2>2 DEF CourseInv, ComesTo, OfKind, Asking, Answered200,
                                   AfterResolve, ForPatchRequest
  <1>5. QED
    BY <1>1, <1>3, <1>4, ResolveDoes

\* Later steps keep what was found.
LEMMA CourseOn ==
  ASSUME StoreInv, CourseInv, UNCHANGED vars, view' \in View, SameTarget,
         view.step \notin {"none", "resolve", "done"},
         view'.step # "none", ComesTo(view.req.kind, view'.step), view'.step # "resolve",
         view'.step # "done" => view'.status = 0
  PROVE  CourseInv'
  <1>1. view'.ps # 0 => view'.ps \in 1 .. seq'.ps /\ Submission(view.ps, view.pr)'
    BY DEF CourseInv, Submission, SameTarget, vars, tables
  <1>2. QED
    BY <1>1 DEF CourseInv, OfKind, Asking, Answered200, SameTarget

LEMMA CourseFails ==
  ASSUME CourseInv, PageFails
  PROVE  CourseInv'
  BY FailsDoes, InSteps DEF CourseInv, ComesTo, OfKind, Asking, Answered200

\* The patch requests still to look up have rows, so their ids are bounded.
LEMMA RestTyped ==
  ASSUME StoreInv, MomentInv, view.step \in {"request", "row"}
  PROVE  seq.pr \in Nat /\ view.rest \subseteq 0 .. seq.pr
  BY StoreFacts DEF MomentInv, PrIdInv

LEMMA CourseRead ==
  ASSUME StoreInv, CourseInv, MomentInv, UNCHANGED vars, PageRead
  PROVE  CourseInv'
  <1>1. view \in View /\ TypeOK /\ RevisionInv
    BY StoreFacts DEF CourseInv
  <1>2. view.step # "none" => ComesTo(view.req.kind, view.step)
    BY DEF CourseInv
  <1>3. view.step # "done" => view.status = 0
    BY DEF CourseInv
  <1>4. CASE PageResolve
    BY <1>4, CourseResolve
  <1>5. CASE PageList
    BY <1>1, <1>2, <1>3, <1>5, ListDoes, InSteps, CourseOn DEF ComesTo
  <1>6. CASE PagePatches
    BY <1>1, <1>2, <1>3, <1>6, PatchesDo, InSteps, CourseOn DEF ComesTo
  <1>7. CASE PageHeading
    BY <1>1, <1>2, <1>3, <1>7, HeadingDoes, InSteps, CourseOn DEF ComesTo
  <1>8. CASE PageLogs
    BY <1>1, <1>2, <1>3, <1>8, LogsDo, InSteps, CourseOn DEF ComesTo, SameState
  <1>9. CASE PageEvent
    BY <1>1, <1>2, <1>3, <1>9, EventDoes, InSteps, CourseOn DEF ComesTo
  <1>10. CASE FeedSelect
    BY <1>1, <1>2, <1>3, <1>10, SelectDoes, InSteps, CourseOn DEF ComesTo
  <1>11. CASE FeedAuthors
    BY <1>1, <1>2, <1>3, <1>11, AuthorsDo, InSteps, CourseOn DEF ComesTo
  <1>12. CASE FeedRequests
    BY <1>1, <1>2, <1>3, <1>12, RequestsDo, InSteps, CourseOn DEF ComesTo, SameState
  <1>13. CASE FeedRequest
    BY <1>1, <1>2, <1>3, <1>13, RequestDoes, InSteps, CourseOn DEF ComesTo
  <1>14. CASE ListRow
    BY <1>1, <1>2, <1>3, <1>14, RestTyped, RowDoes, InSteps, CourseOn DEF ComesTo
  <1>15. CASE LogsEntry
    BY <1>1, <1>2, <1>3, <1>15, EntryDoes, InSteps, CourseOn DEF ComesTo
  <1>16. CASE LogsRevision
    BY <1>1, <1>2, <1>3, <1>16, RevisionDoes, InSteps, CourseOn DEF ComesTo
  <1>17. QED
    BY <1>4, <1>5, <1>6, <1>7, <1>8, <1>9, <1>10, <1>11, <1>12, <1>13, <1>14, <1>15, <1>16
    DEF PageRead

LEMMA CourseStep == StoreInv /\ CourseInv /\ MomentInv /\ [PageNext]_pageVars => CourseInv'
  BY PageSteps, CourseStore, CourseBegins, CourseVisit, CourseRead, CourseFails
-----------------------------------------------------------------------------
(***************************************************************************)
(* What is shown is whole.                                                 *)
(***************************************************************************)

LEMMA WholeBegins == (view = NoView => WholeInv) /\ (view' = NoView => WholeInv')
  BY NoViewIs DEF WholeInv, OfKind

LEMMA WholeStore ==
  ASSUME StoreInv, CourseInv, WholeInv, [Next]_vars, view' = view
  PROVE  WholeInv'
  <1>1. view.ps # 0 => Content(view.ps)' = Content(view.ps)
    BY KnownStays DEF CourseInv
  <1>2. OfKind({"page", "mbox"}) /\ (view.step \in {"heading", "logs", "events"} \/ Answered200)
          => view.ps # 0
    BY DEF CourseInv, Asking, Answered200, OfKind, ForPatchRequest
  <1>3. QED
    BY <1>1, <1>2 DEF WholeInv, OfKind, Answered200, PageShown, MboxShown

LEMMA WholeVisit ==
  ASSUME StoreInv, Visit
  PROVE  WholeInv'
  <1>1. seq.ev \in Nat
    BY StoreFacts
  <1>2. QED
    BY <1>1, VisitDoes DEF WholeInv, FirstQuery, Answered200, OfKind, PageShown, MboxShown

LEMMA WholeFails ==
  ASSUME CourseInv, PageFails
  PROVE  WholeInv'
  BY FailsDoes DEF CourseInv, WholeInv, Answered200, PageShown, MboxShown

\* Queries that are none of a page's or a .patch file's.
LEMMA WholeElse ==
  ASSUME CourseInv, view' \in View, SameTarget,
         view.step \in {"select", "authors", "requests", "request", "row", "entry", "revision"}
  PROVE  WholeInv'
  BY DEF CourseInv, ComesTo, WholeInv, OfKind, SameTarget

LEMMA WholeRead ==
  ASSUME StoreInv, CourseInv, WholeInv, MomentInv, UNCHANGED vars, PageRead
  PROVE  WholeInv'
  <1>1. view \in View /\ TypeOK /\ RevisionInv
    BY StoreFacts DEF CourseInv
  <1>2. view.step # "none" => ComesTo(view.req.kind, view.step)
    BY DEF CourseInv
  <1>3. \A ps : Content(ps)' = Content(ps)
    BY DEF Content, vars, tables
  <1>4. CASE PageResolve
    BY <1>1, <1>4, ResolveDoes, InSteps
    DEF WholeInv, AfterResolve, Answered200, PageShown, MboxShown, OfKind, CourseInv
  <1>5. CASE PageList
    BY <1>1, <1>5, ListDoes, InSteps DEF WholeInv, Answered200, PageShown, MboxShown
  <1>6. CASE PagePatches
    BY <1>1, <1>2, <1>3, <1>6, PatchesDo, InSteps
    DEF WholeInv, ComesTo, SameTarget, Answered200, PageShown, MboxShown
  <1>7. CASE PageHeading
    BY <1>1, <1>3, <1>7, HeadingDoes, InSteps
    DEF WholeInv, SameTarget, OfKind, Answered200, PageShown, MboxShown
  <1>8. CASE PageLogs
    <2>1. Submission(view.ps, view.pr) /\ OfKind({"page", "mbox"}) /\ view.commits = Content(view.ps)
      BY <1>2, <1>8, InSteps DEF CourseInv, WholeInv, ComesTo, OfKind, Asking, ForPatchRequest
    <2>2. \E e \in LogsOf(view.pr) : IsOrigin(e) /\ e.ps = view.ps /\ e.pr = view.pr
      BY <2>1 DEF Submission, LogsOf
    <2>3. view'.commits = Content(view.ps)' /\ view'.ps = view.ps /\ view'.pr = view.pr
          /\ view'.req = view.req
      BY <1>1, <1>3, <1>8, <2>1, LogsDo DEF SameTarget, SameParts
    <2>4. CASE view.req.kind = "page"
      BY <1>1, <1>8, <2>2, <2>3, <2>4, LogsDo
      DEF WholeInv, SameTarget, PageShown, MboxShown
    <2>5. CASE view.req.kind # "page"
      <3>1. view'.told = LogsOf(view.pr) \/ view'.failed
        BY <1>1, <1>8, <2>5, LogsDo
      <3>2. view'.step = "done"
        BY <1>1, <1>8, <2>5, LogsDo
      <3>3. QED
        BY <2>2, <2>3, <2>5, <3>1, <3>2 DEF WholeInv, PageShown, MboxShown
    <2>6. QED
      BY <2>4, <2>5
  <1>9. CASE PageEvent
    <2>1. \/ view'.todo = view.todo /\ view'.told = view.told
          \/ view'.told \cup view'.todo = view.told \cup view.todo
      BY <1>1, <1>9, EventDoes DEF SameLog
    <2>2. view.step = "events" /\ view.req.kind = "page"
      BY <1>2, <1>9, InSteps DEF ComesTo
    <2>3. QED
      BY <1>1, <1>3, <1>9, <2>1, <2>2, EventDoes
      DEF WholeInv, SameTarget, SameParts, SameLog, OfKind, Answered200, PageShown, MboxShown
  <1>10. CASE FeedSelect
    BY <1>1, <1>10, SelectDoes, InSteps, WholeElse
  <1>11. CASE FeedAuthors
    BY <1>1, <1>11, AuthorsDo, InSteps, WholeElse
  <1>12. CASE FeedRequests
    BY <1>1, <1>12, RequestsDo, InSteps, WholeElse
  <1>13. CASE FeedRequest
    BY <1>1, <1>13, RequestDoes, InSteps, WholeElse
  <1>14. CASE ListRow
    BY <1>1, <1>14, RestTyped, RowDoes, InSteps, WholeElse
  <1>15. CASE LogsEntry
    BY <1>1, <1>15, EntryDoes, InSteps, WholeElse
  <1>16. CASE LogsRevision
    BY <1>1, <1>16, RevisionDoes, InSteps, WholeElse
  <1>17. QED
    BY <1>4, <1>5, <1>6, <1>7, <1>8, <1>9, <1>10, <1>11, <1>12, <1>13, <1>14, <1>15, <1>16
    DEF PageRead

LEMMA WholeStep == StoreInv /\ CourseInv /\ WholeInv /\ MomentInv /\ [PageNext]_pageVars => WholeInv'
  BY PageSteps, WholeStore, WholeBegins, WholeVisit, WholeRead, WholeFails
-----------------------------------------------------------------------------
(***************************************************************************)
(* A refusal has a cause.                                                  *)
(***************************************************************************)

\* A patchset that a patch request has no more was removed from it.
LEMMA GoneRemoved ==
  ASSUME StoreInv, NEW ps \in 1 .. seq.ps, NEW pr, Submission(ps, pr),
         \A d \in PatchsetsOf(pr) : d.id # ps
  PROVE  Removed(pr)
  <1>1. /\ OriginLogged /\ RemovalLogged /\ PlaceInv
    BY StoreFacts
  <1>2. PICK o \in events : IsOrigin(o) /\ o.ps = ps /\ o.pr = pr
    BY DEF Submission
  <1>3. /\ \A f \in events : IsOrigin(f) /\ f.ps = ps => f.pr = pr
        /\ \A d \in patchsets : d.id = ps => d.pr = pr
    BY <1>1, <1>2 DEF OriginLogged
  <1>4. \A d \in patchsets : d.id # ps
    BY <1>3 DEF PatchsetsOf
  <1>5. PICK e \in events : IsRemoval(e) /\ e.ps = ps
    BY <1>1, <1>4 DEF RemovalLogged
  <1>6. Submission(ps, e.pr)
    BY <1>1, <1>5 DEF PlaceInv
  <1>7. e.pr = pr
    BY <1>3, <1>6 DEF Submission
  <1>8. QED
    BY <1>5, <1>7 DEF Removed

\* An entry whose patchset is not there tells of a removal.
LEMMA AbsentRemoved ==
  ASSUME StoreInv, NEW e \in LogsOf(view.pr), e.ps # 0, ~Present(e.ps)
  PROVE  Removed(view.pr)
  <1>1. e \in events /\ e.pr = view.pr /\ PlaceInv /\ e.ps \in 1 .. seq.ps
    BY StoreFacts DEF LogsOf, IdInv
  <1>2. IsOrigin(e) \/ IsRemoval(e)
    BY <1>1 DEF PlaceInv
  <1>3. \A d \in PatchsetsOf(view.pr) : d.id # e.ps
    BY DEF Present, PatchsetsOf
  <1>4. CASE IsOrigin(e)
    BY <1>1, <1>3, <1>4, GoneRemoved DEF Submission
  <1>5. CASE IsRemoval(e)
    BY <1>1, <1>5 DEF Removed
  <1>6. QED
    BY <1>2, <1>4, <1>5

LEMMA CauseBegins == (view = NoView => CauseInv) /\ (view' = NoView => CauseInv')
  BY NoViewIs DEF CauseInv, RefusedForCause

\* Steps to where no list or log is at hand, without a refusal.
LEMMA CauseElse ==
  ASSUME view'.step \notin {"patches", "events"}, view'.status \notin {404, 422} \/ view'.failed
  PROVE  CauseInv'
  BY DEF CauseInv, RefusedForCause

LEMMA CauseStore ==
  ASSUME StoreInv, CourseInv, CauseInv, [Next]_vars, view' = view
  PROVE  CauseInv'
  <1>1. view.ps # 0 => Content(view.ps)' = Content(view.ps)
    BY KnownStays DEF CourseInv
  <1>2. Removed(view.pr) => \E e \in events' : IsRemoval(e) /\ e.pr = view.pr
    BY KnownStays
  <1>3. LogsOf(view.pr) \subseteq LogsOf(view.pr)'
    BY LogGains DEF LogsOf
  <1>4. QED
    BY <1>1, <1>2, <1>3 DEF CauseInv, RefusedForCause, Removed

LEMMA CauseVisit ==
  ASSUME StoreInv, Visit
  PROVE  CauseInv'
  <1>1. seq.ev \in Nat
    BY StoreFacts
  <1>2. QED
    <2>1. view'.status = 0 /\ view'.step = FirstQuery(view'.req.kind)
      BY <1>1, VisitDoes
    <2>2. view'.step \notin {"patches", "events"}
      BY <2>1 DEF FirstQuery
    <2>3. QED
      BY <2>1, <2>2, CauseElse

LEMMA CauseFails ==
  ASSUME CourseInv, PageFails
  PROVE  CauseInv'
  BY FailsDoes, CauseElse DEF CourseInv

LEMMA CauseRead ==
  ASSUME StoreInv, CourseInv, CauseInv, MomentInv, UNCHANGED vars, PageRead
  PROVE  CauseInv'
  <1>1. view \in View /\ TypeOK /\ RevisionInv
    BY StoreFacts DEF CourseInv
  <1>2. view.step # "none" => ComesTo(view.req.kind, view.step)
    BY DEF CourseInv
  <1>3. view.step # "done" => view.status = 0
    BY DEF CourseInv
  <1>4. CASE PageResolve
    <2>1. view.ps = 0
      BY <1>4, InSteps DEF CourseInv
    <2>2. \/ view'.ps = 0 /\ view'.step = "done"
          \/ /\ view'.step \in {"list", "patches", "select"} /\ view'.status = 0
             /\ view'.step = "patches" => view'.req.kind = "mbox"
      BY <1>1, <1>3, <1>4, <2>1, ResolveDoes, InSteps DEF AfterResolve
    <2>3. QED
      BY <2>2 DEF CauseInv, RefusedForCause
  <1>5. CASE PageList
    <2>1. PICK lost \in SUBSET PatchsetsOf(view.pr) :
            /\ view'.listed = {[rev |-> Rev(d), id |-> d.id] : d \in PatchsetsOf(view.pr) \ lost}
            /\ view'.failed = (lost # {})
      BY <1>1, <1>5, ListDoes
    <2>2. view.ps \in 1 .. seq.ps /\ Submission(view.ps, view.pr)
      BY <1>2, <1>5, InSteps DEF CourseInv, ComesTo, Asking, OfKind, ForPatchRequest
    <2>3. view'.listed = {} /\ ~view'.failed => Removed(view.pr)
      <3>1. SUFFICES ASSUME view'.listed = {}, lost = {}
                     PROVE  Removed(view.pr)
        BY <2>1
      <3>2. PatchsetsOf(view.pr) = {}
        BY <2>1, <3>1
      <3>3. QED
        BY <2>2, <3>2, GoneRemoved
    <2>4. view'.pr = view.pr /\ view'.step = "patches" /\ view'.status = 0
      BY <1>1, <1>3, <1>5, ListDoes, InSteps DEF SameTarget
    <2>5. QED
      BY <2>3, <2>4 DEF CauseInv, RefusedForCause, Removed, vars, tables
  <1>6. CASE PagePatches
    <2>1. view'.step = "done" /\ ~view'.failed =>
            Content(view.ps) = {} \/ Removed(view.pr)
      BY <1>1, <1>2, <1>6, PatchesDo, InSteps DEF CauseInv, ComesTo
    <2>2. /\ view'.ps = view.ps /\ view'.pr = view.pr
          /\ (view'.step \in {"logs", "heading"} /\ view'.status = 0) \/ view'.step = "done"
      BY <1>1, <1>3, <1>6, PatchesDo, InSteps DEF SameTarget
    <2>3. Content(view.ps)' = Content(view.ps)
      BY <2>2 DEF Content, vars, tables
    <2>4. QED
      BY <2>1, <2>2, <2>3 DEF CauseInv, RefusedForCause, Removed, vars, tables
  <1>7. CASE PageHeading
    BY <1>1, <1>3, <1>7, HeadingDoes, InSteps, CauseElse
  <1>8. CASE PageLogs
    <2>1. \/ /\ view'.step = "events" /\ view'.status = 0
             /\ view'.todo = LogsOf(view.pr) /\ view'.pr = view.pr
          \/ view'.step = "done" /\ view'.status = 200
      BY <1>1, <1>3, <1>8, LogsDo, InSteps DEF SameState, SameTarget
    <2>2. QED
      BY <2>1 DEF CauseInv, RefusedForCause, LogsOf, vars, tables
  <1>9. CASE PageEvent
    <2>1. view.todo \subseteq LogsOf(view.pr) /\ view'.pr = view.pr /\ view'.todo \subseteq view.todo
      BY <1>1, <1>9, EventDoes, InSteps DEF CauseInv, SameTarget, SameLog
    <2>2. ASSUME NEW e \in view.todo, e.ps > 0 /\ ~Present(e.ps)
          PROVE  Removed(view.pr)
      BY <2>1, <2>2, AbsentRemoved
    <2>3. \/ view'.step = "done" /\ view'.status = 200
          \/ view'.step = "done" /\ Removed(view.pr)
          \/ view'.step = "events" /\ view'.status = 0
      BY <1>1, <1>3, <1>9, <2>2, EventDoes, InSteps
    <2>4. QED
      BY <2>1, <2>3 DEF CauseInv, RefusedForCause, Removed, LogsOf, vars, tables
  <1>10. CASE FeedSelect
    <2>0. /\ view'.ps = view.ps
          /\ \/ view.req.kind = "userfeed" /\ view'.step = "done"
             \/ view'.step \in {"entry", "authors"} /\ view'.status = view.status
      BY <1>1, <1>10, SelectDoes DEF SameTarget
    <2>1. (view'.step \in {"entry", "authors"} /\ view'.status = 0) \/ (view'.ps = 0 /\ view'.step = "done")
      BY <1>3, <1>10, <2>0, InSteps DEF CourseInv, OfKind, ForPatchRequest
    <2>2. QED
      BY <2>1 DEF CauseInv, RefusedForCause
  <1>11. CASE FeedAuthors
    BY <1>1, <1>11, AuthorsDo, CauseElse
  <1>12. CASE FeedRequests
    BY <1>1, <1>3, <1>12, RequestsDo, InSteps, CauseElse DEF SameState
  <1>13. CASE FeedRequest
    BY <1>1, <1>3, <1>13, RequestDoes, InSteps, CauseElse
  <1>14. CASE ListRow
    <2>1. view'.step \in {"row", "done"} /\ view'.status \in {0, 200}
      BY <1>1, <1>3, <1>14, RestTyped, RowDoes, InSteps
    <2>2. QED
      BY <2>1, CauseElse
  <1>15. CASE LogsEntry
    <2>1. view'.step \in {"entry", "revision", "done"} /\ view'.status \in {0, 200}
      BY <1>1, <1>3, <1>15, EntryDoes, InSteps
    <2>2. QED
      BY <2>1, CauseElse
  <1>16. CASE LogsRevision
    BY <1>1, <1>3, <1>16, RevisionDoes, InSteps, CauseElse
  <1>17. QED
    BY <1>4, <1>5, <1>6, <1>7, <1>8, <1>9, <1>10, <1>11, <1>12, <1>13, <1>14, <1>15, <1>16
    DEF PageRead

LEMMA CauseStep == StoreInv /\ CourseInv /\ CauseInv /\ MomentInv /\ [PageNext]_pageVars => CauseInv'
  BY PageSteps, CauseStore, CauseBegins, CauseVisit, CauseRead, CauseFails
-----------------------------------------------------------------------------
(***************************************************************************)
(* A log is the log of a moment.                                           *)
(***************************************************************************)

LEMMA ConcernStays ==
  ASSUME StoreInv, [Next]_vars, view' = view, NEW e \in events
  PROVE  Concerns(e)' <=> Concerns(e)
  <1>1. PICK r \in prs, q \in prs' :
          /\ r.id = e.pr /\ q.id = e.pr /\ q.user = r.user /\ q.target = r.target
          /\ \A x \in prs : x.id = e.pr => x = r
          /\ \A x \in prs' : x.id = e.pr => x = q
    BY RowsStay
  <1>2. CASE view.req.kind = "feed"
    BY <1>2 DEF Concerns
  <1>3. CASE view.req.kind = "userfeed"
    BY <1>1, <1>3 DEF Concerns
  <1>4. CASE view.req.kind = "repofeed"
    BY <1>1, <1>4 DEF Concerns
  <1>5. CASE view.req.kind \notin {"feed", "userfeed", "repofeed"}
    BY <1>5 DEF Concerns
  <1>6. QED
    BY <1>2, <1>3, <1>4, <1>5

LEMMA ConcernSame ==
  ASSUME UNCHANGED vars, view'.req = view.req, view'.pr = view.pr, NEW e
  PROVE  Concerns(e)' <=> Concerns(e)
  BY DEF Concerns, vars, tables

LEMMA LaterEvents ==
  ASSUME StoreInv, [Next]_vars, view.since <= seq.ev, view.since \in Nat
  PROVE  /\ events \subseteq events'
         /\ \A e \in events' \ events : e.id > view.since /\ \A f \in events : f.id < e.id
  <1>1. /\ events \subseteq events' /\ \A e \in events' \ events : e.id > seq.ev
        /\ seq.ev \in Nat /\ \A f \in events : f.id \in 1 .. seq.ev
    BY LogGains, StoreFacts DEF EventIdInv
  <1>2. EventIdInv' /\ seq'.ev \in Nat
    BY StoreStep DEF StoreInv, ClaimInv, BookInv, RemovalInv, ReferenceInv, RequestInv, LogInv, TypeOK
  <1>3. \A e \in events' : e.id \in Nat
    BY <1>2 DEF EventIdInv
  <1>4. QED
    BY <1>1, <1>3

\* What is logged later comes after all of the log, and after the request.
LEMMA MomentLasts ==
  ASSUME StoreInv, [Next]_vars, view' = view, view.since <= seq.ev, view.since \in Nat,
         NEW log, OfAMoment(log)
  PROVE  /\ log \subseteq events'
         /\ \A e \in log : Concerns(e)'
         /\ \A e \in events' \ log : Concerns(e)' =>
              e.id > view.since /\ \A f \in log : f.id < e.id
  <1>1. /\ log \subseteq events /\ \A e \in log : Concerns(e)
        /\ \A e \in events \ log : Concerns(e) => e.id > view.since /\ \A f \in log : f.id < e.id
    BY DEF OfAMoment
  <1>2. QED
    BY <1>1, LaterEvents, ConcernStays

LEMMA MomentsLast ==
  ASSUME StoreInv, [Next]_vars, view' = view, view.since <= seq.ev, view.since \in Nat,
         NEW log, OfMoments(log)
  PROVE  /\ log \subseteq events'
         /\ \A e \in log : Concerns(e)' /\ e.pr \notin view.rest
         /\ \A e \in events' \ log : Concerns(e)' =>
              \/ e.pr \in view.rest
              \/ e.id > view.since /\ \A f \in log : f.pr = e.pr => f.id < e.id
  <1>1. /\ log \subseteq events /\ \A e \in log : Concerns(e) /\ e.pr \notin view.rest
        /\ \A e \in events \ log : Concerns(e) =>
             \/ e.pr \in view.rest
             \/ e.id > view.since /\ \A f \in log : f.pr = e.pr => f.id < e.id
    BY DEF OfMoments
  <1>2. QED
    BY <1>1, LaterEvents, ConcernStays

LEMMA MomentBegins ==
  /\ view = NoView /\ StoreInv => MomentInv
  /\ view' = NoView /\ StoreInv' => MomentInv'
  <1>1. \A n \in Nat : 0 <= n
    OBVIOUS
  <1>2. StoreInv => seq.ev \in Nat
    BY StoreFacts
  <1>3. StoreInv' => seq'.ev \in Nat
    BY DEF StoreInv, BookInv, RemovalInv, LogInv, TypeOK
  <1>4. QED
    BY <1>1, <1>2, <1>3, NoViewIs DEF MomentInv, Untold, OfKind, Answered200

LEMMA MomentStore ==
  ASSUME StoreInv, CourseInv, MomentInv, [Next]_vars, view' = view
  PROVE  MomentInv'
  <1>1. view.since \in Nat /\ view.since <= seq.ev /\ seq.ev \in Nat
    BY StoreFacts DEF MomentInv, CourseInv, View
  <1>2. seq'.ev \in Nat /\ seq.ev <= seq'.ev
    BY LogGains, StoreStep DEF StoreInv, BookInv, RemovalInv, LogInv, TypeOK
  <1>3. view.since <= seq'.ev
    BY <1>1, <1>2
  <1>4. OfAMoment(view.told \cup view.todo) => OfAMoment(view.told \cup view.todo)'
    <2> DEFINE log == view.told \cup view.todo
    <2>1. SUFFICES ASSUME OfAMoment(log)
                   PROVE  OfAMoment(log)'
      OBVIOUS
    <2>2. log' = log
      OBVIOUS
    <2>3. /\ log \subseteq events'
          /\ \A e \in log : Concerns(e)'
          /\ \A e \in events' \ log : Concerns(e)' =>
               e.id > view.since /\ \A f \in log : f.id < e.id
      BY <1>1, <2>1, MomentLasts
    <2> HIDE DEF log
    <2>4. QED
      BY <2>2, <2>3 DEF OfAMoment
  <1>5. OfAMoment(view.told) => OfAMoment(view.told)'
    <2>1. SUFFICES ASSUME OfAMoment(view.told)
                   PROVE  OfAMoment(view.told)'
      OBVIOUS
    <2>2. /\ view.told \subseteq events'
          /\ \A e \in view.told : Concerns(e)'
          /\ \A e \in events' \ view.told : Concerns(e)' =>
               e.id > view.since /\ \A f \in view.told : f.id < e.id
      BY <1>1, <2>1, MomentLasts
    <2>3. QED
      BY <2>2 DEF OfAMoment
  <1>6. OfMoments(view.told) => OfMoments(view.told)'
    <2>1. SUFFICES ASSUME OfMoments(view.told)
                   PROVE  OfMoments(view.told)'
      OBVIOUS
    <2>2. /\ view.told \subseteq events'
          /\ \A e \in view.told : Concerns(e)' /\ e.pr \notin view.rest
          /\ \A e \in events' \ view.told : Concerns(e)' =>
               \/ e.pr \in view.rest
               \/ e.id > view.since /\ \A f \in view.told : f.pr = e.pr => f.id < e.id
      BY <1>1, <2>1, MomentsLast
    <2>3. QED
      BY <2>2 DEF OfMoments
  <1>7. ASSUME NEW p, \E r \in prs : r.id = p /\ RepoOf[r.target] = RepoOf[view.req.target]
        PROVE  \E r \in prs' : r.id = p /\ RepoOf[r.target] = RepoOf[view.req.target]
    <2>1. PICK r \in prs : r.id = p /\ RepoOf[r.target] = RepoOf[view.req.target]
      BY <1>7
    <2>2. Stays(r)
      BY StoreFacts, TablesGrow
    <2>3. QED
      BY <2>1, <2>2 DEF Stays
  <1>8. QED
    BY <1>3, <1>4, <1>5, <1>6, <1>7 DEF MomentInv, OfKind, Answered200

LEMMA MomentVisit ==
  ASSUME StoreInv, UNCHANGED vars, Visit
  PROVE  MomentInv'
  <1>1. seq.ev \in Nat /\ seq' = seq
    BY StoreFacts DEF vars, tables
  <1>2. /\ view'.since = seq.ev /\ view'.told = {} /\ view'.step = FirstQuery(view'.req.kind)
        /\ view'.failed = FALSE
    BY <1>1, VisitDoes
  <1>3. view'.step \in {"resolve", "select", "requests"}
    BY <1>2 DEF FirstQuery
  <1>4. QED
    BY <1>1, <1>2, <1>3 DEF MomentInv, Answered200

LEMMA MomentFails ==
  ASSUME StoreInv, CourseInv, UNCHANGED vars, PageFails
  PROVE  MomentInv'
  <1>1. seq.ev \in Nat /\ seq' = seq
    BY StoreFacts DEF vars, tables
  <1>2. view'.step = "done" /\ view'.status # 200 /\ view'.since = 0
    BY FailsDoes DEF CourseInv
  <1>3. QED
    BY <1>1, <1>2 DEF MomentInv, Untold, Answered200

\* One query reads the log of a moment.
LEMMA SelectedIs ==
  /\ view.req.kind \in ForPatchRequest => OfAMoment(LogsOf(view.pr))
  /\ view.req.kind \in {"prfeed", "logs", "feed", "userfeed"} => OfAMoment(Selected(view.req))
  <1>1. view.req.kind \in ForPatchRequest => OfAMoment(LogsOf(view.pr))
    BY DEF OfAMoment, Concerns, LogsOf, ForPatchRequest
  <1>2. CASE view.req.kind \in {"prfeed", "logs"}
    BY <1>1, <1>2 DEF Selected, ForPatchRequest
  <1>3. CASE view.req.kind = "feed"
    BY <1>1, <1>3 DEF Selected, OfAMoment, Concerns, ForPatchRequest
  <1>4. CASE view.req.kind = "userfeed"
    <2>1. \A e : Concerns(e) <=> e.user = view.req.key \/ e.pr \in CreatedBy(view.req.key)
      BY <1>4 DEF Concerns, CreatedBy
    <2>2. Selected(view.req) = {e \in events : Concerns(e)}
      BY <1>4, <2>1 DEF Selected
    <2>3. QED
      BY <1>1, <1>4, <2>2 DEF OfAMoment, ForPatchRequest
  <1>5. QED
    BY <1>1, <1>2, <1>3, <1>4

\* The log in hand while nothing is written.
LEMMA MomentSame ==
  ASSUME UNCHANGED vars, SameTarget, NEW log, OfAMoment(log)
  PROVE  /\ log \subseteq events'
         /\ \A e \in log : Concerns(e)'
         /\ \A e \in events' \ log : Concerns(e)' =>
              e.id > view'.since /\ \A f \in log : f.id < e.id
  <1>1. \A e : Concerns(e)' <=> Concerns(e)
    BY ConcernSame DEF SameTarget
  <1>2. events' = events /\ view'.since = view.since
    BY DEF SameTarget, vars, tables
  <1>3. QED
    BY <1>1, <1>2 DEF OfAMoment

\* Steps before the log is read, and refusals.
LEMMA MomentElse ==
  ASSUME MomentInv, UNCHANGED vars, view'.since = view.since,
         \/ /\ view'.step \in {"list", "patches", "heading", "logs", "select"}
            /\ view'.told = {}
         \/ view'.step = "done" /\ view'.status # 200
  PROVE  MomentInv'
  BY DEF MomentInv, Untold, Answered200, vars, tables

\* The log goes from one query to the next as it is, or is shown.
LEMMA MomentOn ==
  ASSUME MomentInv, UNCHANGED vars, SameTarget, view.req.kind # "repofeed",
         NEW log, OfAMoment(log),
         \/ /\ view'.step \in {"events", "authors", "entry", "revision"}
            /\ log = view'.told \cup view'.todo
            /\ view'.step = "authors" => view'.told = {}
            /\ view'.step = "revision" => view'.entry \subseteq view'.todo
         \/ view'.step = "done" /\ (view'.failed \/ view'.told = log)
  PROVE  MomentInv'
  <1>1. /\ log \subseteq events'
        /\ \A e \in log : Concerns(e)'
        /\ \A e \in events' \ log : Concerns(e)' =>
             e.id > view'.since /\ \A f \in log : f.id < e.id
    BY MomentSame
  <1>2. log = view'.told \cup view'.todo => OfAMoment(view.told \cup view.todo)'
    BY <1>1 DEF OfAMoment
  <1>3. log = view'.told => OfAMoment(view.told)'
    BY <1>1 DEF OfAMoment
  <1>4. seq' = seq /\ view'.since = view.since /\ view'.req = view.req
    BY DEF SameTarget, vars, tables
  <1>5. QED
    BY <1>2, <1>3, <1>4 DEF MomentInv, Untold, OfKind, Answered200

\* A list shows no log, and none concerns it.
LEMMA MomentList ==
  ASSUME StoreInv, CourseInv, MomentInv, UNCHANGED vars, SameTarget, SameLog,
         view.req.kind \in {"list", "ls"}, view.told = {}, view.step \notin {"none", "resolve", "done"},
         view'.step \in {"row", "done"},
         view'.step = "row" => \A p \in view'.rest : \E r \in prs :
                                 r.id = p /\ RepoOf[r.target] = RepoOf[view.req.target]
  PROVE  MomentInv'
  <1>1. view.pr = 0
    BY DEF CourseInv, Asking, OfKind, ForPatchRequest
  <1>2. \A e \in events : e.pr # 0
    BY StoreFacts DEF NoDanglingRows, PrIdInv
  <1>3. \A e \in events : ~Concerns(e)
    BY <1>1, <1>2 DEF Concerns
  <1>4. /\ events' = events /\ seq' = seq /\ prs' = prs /\ view'.since = view.since
        /\ view'.req = view.req /\ view'.told = {}
    BY DEF SameTarget, SameLog, vars, tables
  <1>5. \A e \in events' : ~Concerns(e)'
    BY <1>3, <1>4, ConcernSame DEF SameTarget
  <1>6. OfAMoment(view.told)'
    BY <1>4, <1>5 DEF OfAMoment
  <1>7. QED
    BY <1>4, <1>6 DEF MomentInv, OfKind, Answered200

\* The feed of a repo takes the log of one more patch request.
LEMMA MomentRequest ==
  ASSUME StoreInv, CourseInv, MomentInv, UNCHANGED vars, FeedRequest
  PROVE  MomentInv'
  <1>1. /\ view \in View /\ TypeOK /\ view.step = "request" /\ view.req.kind = "repofeed"
    BY InSteps, StoreFacts DEF CourseInv, ComesTo
  <1>2. /\ SameTarget /\ events' = events /\ seq' = seq /\ prs' = prs
        /\ view'.req = view.req /\ view'.since = view.since
    BY <1>1, RequestDoes DEF SameTarget, vars, tables
  <1>3. \A e : Concerns(e)' <=> Concerns(e)
    BY <1>2, ConcernSame DEF SameTarget
  <1>4. view'.rest \subseteq view.rest /\ view'.step \in {"request", "done"}
    BY <1>1, RequestDoes
  <1>5. \A p \in view'.rest : \E r \in prs' : r.id = p /\ RepoOf[r.target] = RepoOf[view'.req.target]
    BY <1>1, <1>2, <1>4 DEF MomentInv
  <1>6. ~view'.failed => OfMoments(view.told)' /\ (view'.step = "done" => view'.rest = {})
    <2>1. SUFFICES ASSUME ~view'.failed
                   PROVE  OfMoments(view.told)' /\ (view'.step = "done" => view'.rest = {})
      OBVIOUS
    <2>2. CASE view'.told = view.told /\ view.rest = {} /\ view'.rest = {} /\ ~view.failed
      BY <1>1, <1>2, <1>3, <2>2 DEF MomentInv, OfMoments, OfKind
    <2>3. CASE /\ view.rest # {} /\ view'.rest = view.rest \ {Highest(view.rest)}
               /\ view'.told = view.told \cup LogsOf(Highest(view.rest)) /\ ~view.failed
               /\ view'.step = "request"
      <3> DEFINE p == Highest(view.rest)
      <3>1. p \in view.rest
        BY <1>1, <2>3, RestTyped, HighestIn
      <3>2. OfMoments(view.told)
        BY <1>1, <2>3 DEF MomentInv, OfKind
      <3>3. PICK r \in prs : r.id = p /\ RepoOf[r.target] = RepoOf[view.req.target]
        BY <1>1, <3>1 DEF MomentInv
      <3>4. \A e \in LogsOf(p) : Concerns(e) /\ e \in events /\ e.pr = p
        BY <1>1, <3>3 DEF Concerns, LogsOf
      <3>5. \A e \in events : e.pr = p => e \in LogsOf(p)
        BY DEF LogsOf
      <3>6. view'.rest = view.rest \ {p} /\ view'.told = view.told \cup LogsOf(p)
        BY <2>3
      <3> HIDE DEF p
      <3>7. QED
        BY <1>2, <1>3, <2>3, <3>1, <3>2, <3>4, <3>5, <3>6 DEF OfMoments
    <2>4. QED
      BY <1>1, <2>1, <2>2, <2>3, RequestDoes
  <1>7. QED
    BY <1>1, <1>2, <1>4, <1>5, <1>6 DEF MomentInv, Untold, OfKind, Answered200

LEMMA MomentRead ==
  ASSUME StoreInv, CourseInv, MomentInv, UNCHANGED vars, PageRead
  PROVE  MomentInv'
  <1>1. view \in View /\ TypeOK /\ RevisionInv
    BY StoreFacts DEF CourseInv
  <1>2. view.step # "none" => ComesTo(view.req.kind, view.step)
    BY DEF CourseInv
  <1>3. view.step \in Untold => view.told = {}
    BY DEF MomentInv
  <1>4. CASE PageResolve
    BY <1>1, <1>2, <1>3, <1>4, ResolveDoes, InSteps, MomentElse DEF Untold, AfterResolve, SameLog
  <1>5. CASE PageList
    BY <1>1, <1>3, <1>5, ListDoes, InSteps, MomentElse DEF Untold, SameLog, SameTarget
  <1>6. CASE PagePatches
    BY <1>1, <1>3, <1>6, PatchesDo, InSteps, MomentElse DEF Untold, SameLog, SameTarget
  <1>7. CASE PageHeading
    BY <1>1, <1>3, <1>7, HeadingDoes, InSteps, MomentElse DEF Untold, SameLog, SameTarget
  <1>8. CASE PageLogs
    <2>1. OfAMoment(LogsOf(view.pr)) /\ view.req.kind # "repofeed" /\ view.told = {}
      BY <1>2, <1>3, <1>8, InSteps, SelectedIs DEF ComesTo, ForPatchRequest, Untold
    <2>2. SameTarget
      BY <1>1, <1>8, LogsDo
    <2>3. \/ view'.step = "events" /\ LogsOf(view.pr) = view'.told \cup view'.todo
          \/ view'.step = "done" /\ (view'.failed \/ view'.told = LogsOf(view.pr))
      <3>1. \/ view'.step = "events" /\ view'.todo = LogsOf(view.pr) /\ view'.told = view.told
            \/ \E lost \in SUBSET events :
                 /\ view'.step = "done" /\ view'.told = LogsOf(view.pr) \ lost
                 /\ view'.failed = (lost # {})
        BY <1>1, <1>8, LogsDo
      <3>2. QED
        BY <2>1, <3>1
    <2>4. QED
      BY <2>1, <2>2, <2>3, MomentOn
  <1>9. CASE PageEvent
    <2>1. OfAMoment(view.told \cup view.todo) /\ view.req.kind # "repofeed"
      BY <1>2, <1>9, InSteps DEF ComesTo, MomentInv
    <2>2. SameTarget /\ view'.since = view.since
      BY <1>1, <1>9, EventDoes DEF SameTarget
    <2>3. \/ view'.step = "events" /\ view.told \cup view.todo = view'.told \cup view'.todo
          \/ view'.step = "done" /\ view'.told = view.told \cup view.todo
          \/ view'.step = "done" /\ view'.status # 200
      BY <1>1, <1>9, EventDoes DEF SameLog
    <2>4. QED
      BY <2>1, <2>2, <2>3, MomentOn, MomentElse
  <1>10. CASE FeedSelect
    <2>1. OfAMoment(Selected(view.req)) /\ view.req.kind # "repofeed" /\ view.told = {}
      BY <1>2, <1>3, <1>10, InSteps, SelectedIs DEF ComesTo, Untold
    <2>2. SameTarget /\ view'.since = view.since /\ view'.told = {}
      BY <1>1, <1>10, <2>1, SelectDoes DEF SameTarget
    <2>3. \/ view'.step \in {"entry", "authors"} /\ Selected(view.req) = view'.told \cup view'.todo
          \/ view'.step = "done" /\ view'.status # 200
      BY <1>1, <1>10, <2>2, SelectDoes
    <2>4. QED
      BY <2>1, <2>2, <2>3, MomentOn, MomentElse
  <1>11. CASE FeedAuthors
    <2>1. OfAMoment(view.told \cup view.todo) /\ view.req.kind # "repofeed" /\ view.told = {}
      BY <1>2, <1>3, <1>11, InSteps DEF ComesTo, MomentInv, Untold
    <2>2. SameTarget /\ view'.step = "done" /\ (view'.failed \/ view'.told = view.todo)
      <3>1. /\ SameTarget /\ view'.step = "done"
            /\ \E lost \in SUBSET view.todo :
                 view'.told = view.todo \ lost /\ view'.failed = (lost # {})
        BY <1>1, <1>11, AuthorsDo
      <3>2. QED
        BY <3>1
    <2>3. QED
      BY <2>1, <2>2, MomentOn
  <1>12. CASE FeedRequests
    <2>1. /\ SameTarget /\ SameLog /\ view'.rest = InRepo
          /\ view'.step = IF view.req.kind = "repofeed" THEN "request" ELSE "row"
          /\ view.told = {} /\ view.req.kind \in {"repofeed", "list", "ls"}
      BY <1>1, <1>2, <1>3, <1>12, RequestsDo, InSteps DEF ComesTo, Untold
    <2>2. \A p \in InRepo : \E r \in prs : r.id = p /\ RepoOf[r.target] = RepoOf[view.req.target]
      BY DEF InRepo
    <2>3. CASE view.req.kind # "repofeed"
      BY <1>12, <2>1, <2>2, <2>3, InSteps, MomentList
    <2>4. CASE view.req.kind = "repofeed"
      <3>1. \A e \in events : Concerns(e) => e.pr \in InRepo
        BY <2>4 DEF Concerns, InRepo
      <3>2. /\ events' = events /\ seq' = seq /\ prs' = prs /\ view'.since = view.since
            /\ view'.req = view.req /\ view'.told = {}
        BY <2>1 DEF SameTarget, SameLog, vars, tables
      <3>3. \A e : Concerns(e)' <=> Concerns(e)
        BY <2>1, ConcernSame DEF SameTarget
      <3>4. OfMoments(view.told)'
        BY <2>1, <3>1, <3>2, <3>3 DEF OfMoments
      <3>5. QED
        BY <2>1, <2>2, <2>4, <3>2, <3>4 DEF MomentInv, Untold, OfKind, Answered200
    <2>5. QED
      BY <2>3, <2>4
  <1>13. CASE FeedRequest
    BY <1>13, MomentRequest
  <1>14. CASE ListRow
    <2>1. /\ view.step = "row" /\ view.req.kind \in {"list", "ls"} /\ view.told = {}
      BY <1>2, <1>3, <1>14, InSteps DEF ComesTo, Untold
    <2>2. /\ SameTarget /\ SameLog /\ view'.step \in {"row", "done"} /\ view'.rest \subseteq view.rest
      BY <1>1, <1>14, <2>1, RestTyped, RowDoes
    <2>3. \A p \in view'.rest : \E r \in prs : r.id = p /\ RepoOf[r.target] = RepoOf[view.req.target]
      BY <2>1, <2>2 DEF MomentInv
    <2>4. QED
      BY <2>1, <2>2, <2>3, MomentList
  <1>15. CASE LogsEntry
    <2>1. OfAMoment(view.told \cup view.todo) /\ view.req.kind # "repofeed"
      BY <1>2, <1>15, InSteps DEF ComesTo, MomentInv
    <2>2. SameTarget
      BY <1>1, <1>15, EntryDoes
    <2>3. \/ view'.step = "entry" /\ view.told \cup view.todo = view'.told \cup view'.todo
          \/ /\ view'.step = "revision" /\ view.told \cup view.todo = view'.told \cup view'.todo
             /\ view'.entry \subseteq view'.todo
          \/ view'.step = "done" /\ view'.told = view.told \cup view.todo
      BY <1>1, <1>15, EntryDoes DEF SameLog
    <2>4. QED
      BY <2>1, <2>2, <2>3, MomentOn
  <1>16. CASE LogsRevision
    <2>1. OfAMoment(view.told \cup view.todo) /\ view.req.kind # "repofeed"
          /\ view.entry \subseteq view.todo
      BY <1>2, <1>16, InSteps DEF ComesTo, MomentInv
    <2>2. SameTarget /\ view'.step = "entry"
      BY <1>1, <1>16, RevisionDoes
    <2>3. view.told \cup view.todo = view'.told \cup view'.todo
      <3>1. PICK e \in view.entry : view'.todo = view.todo \ {e} /\ view'.told = view.told \cup {e}
        BY <1>1, <1>16, RevisionDoes
      <3>2. QED
        BY <2>1, <3>1
    <2>4. QED
      BY <2>1, <2>2, <2>3, MomentOn
  <1>17. QED
    BY <1>4, <1>5, <1>6, <1>7, <1>8, <1>9, <1>10, <1>11, <1>12, <1>13, <1>14, <1>15, <1>16
    DEF PageRead

LEMMA MomentStep ==
  StoreInv /\ CourseInv /\ MomentInv /\ [PageNext]_pageVars => MomentInv'
  <1>1. StoreInv /\ [Next]_vars => StoreInv'
    BY StoreStep
  <1>2. QED
    BY <1>1, PageSteps, MomentStore, MomentBegins, MomentVisit, MomentRead, MomentFails
-----------------------------------------------------------------------------
(***************************************************************************)
(* A revision is the discussion's number of the patchset, as long as       *)
(* nothing was removed: rows and origins are one to one, and in the order  *)
(* of their ids.                                                           *)
(***************************************************************************)

UpTo(d) == {q \in PatchsetsOf(d.pr) : q.id <= d.id}
OriginsUpTo(d) == {e \in LogsOf(d.pr) : IsOrigin(e) /\ e.ps <= d.id}

LEMMA RevCounts ==
  ASSUME StoreInv, NEW d \in patchsets
  PROVE  IsFiniteSet(UpTo(d)) /\ Rev(d) = Cardinality(UpTo(d))
  <1> DEFINE before == {q \in PatchsetsOf(d.pr) : Before(q, d)}
  <1>1. /\ \A q \in patchsets : q.id \in Nat /\ q.at \in Nat
        /\ \A q \in patchsets : q.id = d.id => q = d
        /\ \A p, q \in patchsets : p.id < q.id => p.at <= q.at
        /\ IsFiniteSet(patchsets)
    BY StoreFacts DEF RevisionInv, OrderInv, RemovalInv, PatchsetIdInv, TypeOK, PsRow
  <1>2. \A q \in PatchsetsOf(d.pr) : Before(q, d) <=> q.id < d.id
    BY <1>1 DEF PatchsetsOf, Before
  <1>3. UpTo(d) = before \cup {d} /\ d \notin before
    <2>1. d \in PatchsetsOf(d.pr) /\ \A q \in PatchsetsOf(d.pr) : q.id \in Nat /\ (q.id = d.id => q = d)
      BY <1>1 DEF PatchsetsOf
    <2>2. QED
      BY <1>2, <2>1 DEF UpTo
  <1>4. IsFiniteSet(before)
    BY <1>1, FS_Subset DEF PatchsetsOf
  <1>5. Rev(d) = Cardinality(before) + 1
    BY DEF Rev
  <1> HIDE DEF before
  <1>6. QED
    BY <1>3, <1>4, <1>5, FS_AddElement

LEMMA RevIsTold ==
  ASSUME StoreInv, NEW d \in patchsets, ~Removed(d.pr)
  PROVE  Rev(d) = Told(LogsOf(d.pr), d.id)
  <1> DEFINE f == [e \in OriginsUpTo(d) |-> CHOOSE q \in UpTo(d) : q.id = e.ps]
  <1>1. /\ OriginLogged /\ IdInv /\ PatchsetIdInv /\ TypeOK /\ PlaceInv /\ seq.ps \in Nat
    BY StoreFacts
  <1>2. ASSUME NEW e \in OriginsUpTo(d)
        PROVE  /\ \E q \in UpTo(d) : q.id = e.ps
               /\ e.ps \in 1 .. seq.ps
    <2>1. e \in events /\ e.pr = d.pr /\ IsOrigin(e) /\ e.ps <= d.id /\ e.ps \in 1 .. seq.ps
      BY <1>1 DEF OriginsUpTo, LogsOf, PlaceInv, IdInv
    <2>2. Submission(e.ps, d.pr)
      BY <2>1 DEF Submission
    <2>3. PICK q \in PatchsetsOf(d.pr) : q.id = e.ps
      BY <2>1, <2>2, GoneRemoved
    <2>4. QED
      BY <2>1, <2>3 DEF UpTo
  <1>3. \A e \in OriginsUpTo(d) : f[e] \in UpTo(d) /\ f[e].id = e.ps
    BY <1>2
  <1>4. ASSUME NEW q \in UpTo(d)
        PROVE  \E e \in OriginsUpTo(d) : e.ps = q.id
    <2>1. q \in patchsets /\ q.pr = d.pr /\ q.id <= d.id /\ q.id \in 1 .. seq.ps
      BY <1>1 DEF UpTo, PatchsetsOf, IdInv
    <2>2. PICK e \in events : IsOrigin(e) /\ e.ps = q.id /\ e.pr = q.pr
      BY <1>1, <2>1 DEF OriginLogged
    <2>3. QED
      BY <2>1, <2>2 DEF OriginsUpTo, LogsOf
  <1>5. \A e, g \in OriginsUpTo(d) : e.ps = g.ps => e = g
    <2>1. \A e \in OriginsUpTo(d) : e \in events /\ IsOrigin(e)
      BY DEF OriginsUpTo, LogsOf
    <2>2. QED
      BY <1>1, <1>2, <2>1 DEF OriginLogged
  <1>6. \A p, q \in UpTo(d) : p.id = q.id => p = q
    BY <1>1 DEF UpTo, PatchsetsOf, PatchsetIdInv
  <1>7. f \in [OriginsUpTo(d) -> UpTo(d)]
    BY <1>3
  <1> HIDE DEF f
  <1>8. /\ \A e, g \in OriginsUpTo(d) : f[e] = f[g] => e = g
        /\ \A q \in UpTo(d) : \E e \in OriginsUpTo(d) : f[e] = q
    BY <1>3, <1>4, <1>5, <1>6
  <1>9. f \in Bijection(OriginsUpTo(d), UpTo(d))
    BY <1>7, <1>8, Fun_IsBij
  <1>10. ExistsBijection(UpTo(d), OriginsUpTo(d))
    BY <1>9, Fun_ExistsBijSymmetric DEF ExistsBijection
  <1>11. Cardinality(OriginsUpTo(d)) = Cardinality(UpTo(d))
    BY <1>10, RevCounts, FS_Bijection
  <1>12. QED
    BY <1>11, RevCounts DEF Told, OriginsUpTo
-----------------------------------------------------------------------------
(***************************************************************************)
(* The numbers agree.                                                      *)
(***************************************************************************)

\* The number that the log of a patch request gives a patchset stays.
LEMMA ToldStays ==
  ASSUME StoreInv, [Next]_vars, NEW ps, NEW pr, Submission(ps, pr)
  PROVE  Told({e \in events' : e.pr = pr}, ps) = Told({e \in events : e.pr = pr}, ps)
  <1>1. PICK e \in events : IsOrigin(e) /\ e.ps = ps /\ e.pr = pr
    BY DEF Submission
  <1>2. Told(LogsOf(e.pr), e.ps)' = Told(LogsOf(e.pr), e.ps)
    BY <1>1, StoreFacts, NumberKept
  <1>3. QED
    BY <1>1, <1>2 DEF LogsOf

\* A log without the origins that came later gives the same numbers.
LEMMA ToldEarlier ==
  ASSUME StoreInv, NEW log, log \subseteq LogsOf(view.pr), NumberedLater(log), NEW e \in log
  PROVE  Told(log, e.ps) = Told(LogsOf(view.pr), e.ps)
  <1> DEFINE counted == {f \in log : IsOrigin(f) /\ f.ps <= e.ps}
             all == {f \in LogsOf(view.pr) : IsOrigin(f) /\ f.ps <= e.ps}
  <1>1. \A f \in LogsOf(view.pr) : f.ps \in Nat
    BY StoreFacts DEF LogsOf, IdInv
  <1>2. \A f \in LogsOf(view.pr) \ log : IsOrigin(f) => e.ps < f.ps
    BY DEF NumberedLater
  <1>3. all = counted
    BY <1>1, <1>2
  <1>4. QED
    BY <1>3 DEF Told

LEMMA PageNumbersStay ==
  ASSUME StoreInv, CourseInv, PageNumbers, OfKind({"page"}), [Next]_vars, view' = view
  PROVE  PageNumbers'
  <1>1. \A l \in view.listed : l.id \in 1 .. seq.ps /\ Submission(l.id, view.pr) =>
             /\ l.id \in 1 .. seq'.ps /\ \E e \in events' : IsOrigin(e) /\ e.ps = l.id /\ e.pr = view.pr
             /\ Told({e \in events' : e.pr = view.pr}, l.id) = Told({e \in events : e.pr = view.pr}, l.id)
    BY KnownStays, ToldStays
  <1>2. Removed(view.pr) => \E e \in events' : IsRemoval(e) /\ e.pr = view.pr
    BY KnownStays
  <1>3. view.step \in {"logs"} =>
          Told({e \in events' : e.pr = view.pr}, view.ps) = Told({e \in events : e.pr = view.pr}, view.ps)
    BY ToldStays DEF CourseInv, OfKind, Asking, ForPatchRequest
  <1>4. view.step \in {"resolve", "list", "patches", "heading", "logs"} =>
          /\ \A l \in view.listed :
               l.id \in 1 .. seq'.ps /\ \E e \in events' : IsOrigin(e) /\ e.ps = l.id /\ e.pr = view.pr
          /\ (\A e \in events' : ~(IsRemoval(e) /\ e.pr = view.pr)) =>
               /\ \A l \in view.listed : l.rev = Told({e \in events' : e.pr = view.pr}, l.id)
               /\ view.heading # 0 => view.heading = Told({e \in events' : e.pr = view.pr}, view.ps)
    <2>1. SUFFICES ASSUME view.step \in {"resolve", "list", "patches", "heading", "logs"}
                   PROVE  /\ \A l \in view.listed :
                               /\ l.id \in 1 .. seq'.ps
                               /\ \E e \in events' : IsOrigin(e) /\ e.ps = l.id /\ e.pr = view.pr
                          /\ (\A e \in events' : ~(IsRemoval(e) /\ e.pr = view.pr)) =>
                               /\ \A l \in view.listed : l.rev = Told({e \in events' : e.pr = view.pr}, l.id)
                               /\ view.heading # 0 =>
                                    view.heading = Told({e \in events' : e.pr = view.pr}, view.ps)
      OBVIOUS
    <2>2. \A l \in view.listed : l.id \in 1 .. seq.ps /\ Submission(l.id, view.pr)
      BY <2>1 DEF PageNumbers
    <2>3. ~Removed(view.pr) =>
            /\ \A l \in view.listed : l.rev = Told({e \in events : e.pr = view.pr}, l.id)
            /\ view.heading # 0 => view.heading = Told({e \in events : e.pr = view.pr}, view.ps)
      BY <2>1 DEF PageNumbers, Agree, LogsOf
    <2>4. view.heading # 0 => view.step = "logs"
      BY <2>1 DEF PageNumbers
    <2>5. QED
      BY <1>1, <1>2, <1>3, <2>2, <2>3, <2>4
  <1>5. QED
    BY <1>4 DEF PageNumbers, PageShown, Submission, Removed, Agree, LogsOf

LEMMA LogNumbersStay ==
  ASSUME StoreInv, CourseInv, MomentInv, LogNumbers, [Next]_vars, view' = view
  PROVE  LogNumbers'
  <1>1. Removed(view.pr) => \E e \in events' : IsRemoval(e) /\ e.pr = view.pr
    BY KnownStays
  <1>2. ASSUME view.step \in {"entry", "revision"}
        PROVE  \A f \in {e \in events' : e.pr = view.pr} \ (view.told \cup view.todo) :
                 IsOrigin(f) => \A e \in view.told \cup view.todo : e.ps < f.ps
    <2>1. \A f \in LogsOf(view.pr) \ (view.told \cup view.todo) :
            IsOrigin(f) => \A e \in view.told \cup view.todo : e.ps < f.ps
      BY <1>2 DEF LogNumbers, NumberedLater
    <2>2. view.told \cup view.todo \subseteq events
      BY <1>2 DEF MomentInv, OfAMoment
    <2>3. \A f \in events' \ events : IsOrigin(f) => \A e \in events : e.ps < f.ps
      BY LogGains, StoreFacts DEF IdInv
    <2>4. QED
      BY <2>1, <2>2, <2>3 DEF LogsOf
  <1>3. QED
    BY <1>1, <1>2 DEF LogNumbers, LogsShown, Removed, NumberedLater, LogsOf, RevsAgree

LEMMA ListNumbersStay ==
  ASSUME StoreInv, CourseInv, MomentInv, ListNumbers, [Next]_vars, view' = view
  PROVE  ListNumbers'
  <1>1. RowsInv => RowsInv'
    <2>1. SUFFICES ASSUME RowsInv, NEW e \in events', e.kind = "pr_created"
                   PROVE  \/ e.pr \in view.rest
                          \/ \E l \in view.listed : l.id = e.pr /\ (l.rev > 0 \/ \E f \in events' : IsRemoval(f))
                          \/ e.id > view.since
                          \/ \A r \in prs' : r.id = e.pr => RepoOf[r.target] # RepoOf[view.req.target]
      BY DEF RowsInv
    <2>2. events \subseteq events'
      BY LogGains
    <2>3. CASE e \notin events
      <3>1. view.since <= seq.ev /\ view.since \in Nat
        BY DEF MomentInv, CourseInv, View
      <3>2. QED
        BY <2>3, <3>1, LaterEvents
    <2>4. CASE e \in events
      <3>1. (\A r \in prs : r.id = e.pr => RepoOf[r.target] # RepoOf[view.req.target]) =>
              \A r \in prs' : r.id = e.pr => RepoOf[r.target] # RepoOf[view.req.target]
        BY <2>4, RowsStay
      <3>2. QED
        BY <2>1, <2>2, <2>4, <3>1 DEF RowsInv
    <2>5. QED
      BY <2>3, <2>4
  <1>2. QED
    BY <1>1 DEF ListNumbers, ListShown

LEMMA NumberBegins == (view = NoView => NumberInv) /\ (view' = NoView => NumberInv')
  BY NoViewIs DEF NumberInv, OfKind

LEMMA NumberStore ==
  ASSUME StoreInv, CourseInv, MomentInv, NumberInv, [Next]_vars, view' = view
  PROVE  NumberInv'
  BY PageNumbersStay, LogNumbersStay, ListNumbersStay DEF NumberInv, OfKind

LEMMA NumberVisit ==
  ASSUME StoreInv, Visit
  PROVE  NumberInv'
  <1>1. seq.ev \in Nat
    BY StoreFacts
  <1>2. /\ view'.listed = {} /\ view'.heading = 0 /\ view'.revs = {} /\ view'.failed = FALSE
        /\ view'.step \in {"resolve", "select", "requests"}
    BY <1>1, VisitDoes DEF FirstQuery
  <1>3. PageNumbers'
    BY <1>2 DEF PageNumbers, Agree, PageShown
  <1>4. LogNumbers' /\ ListNumbers'
    BY <1>2 DEF LogNumbers, ListNumbers, LogsShown, ListShown
  <1>5. QED
    BY <1>3, <1>4 DEF NumberInv

LEMMA NumberFails ==
  ASSUME CourseInv, PageFails
  PROVE  NumberInv'
  <1>1. view'.step = "done" /\ view'.status # 200
    BY FailsDoes DEF CourseInv
  <1>2. QED
    BY <1>1 DEF NumberInv, PageNumbers, LogNumbers, ListNumbers, PageShown, LogsShown, ListShown

LEMMA PageNumbersRead ==
  ASSUME StoreInv, CourseInv, MomentInv, PageNumbers, UNCHANGED vars, view.req.kind = "page",
         PageList \/ PagePatches \/ PageHeading \/ PageLogs \/ PageEvent
  PROVE  PageNumbers'
  <1>0. view \in View /\ TypeOK /\ RevisionInv
    BY StoreFacts DEF CourseInv
  <1>1. /\ events' = events /\ seq' = seq /\ patchsets' = patchsets
        /\ \A pr : LogsOf(pr)' = LogsOf(pr)
    BY DEF vars, tables, LogsOf
  <1>2. SameTarget /\ view'.req = view.req /\ view'.pr = view.pr /\ view'.ps = view.ps
    BY <1>0, ListDoes, PatchesDo, HeadingDoes, LogsDo, EventDoes DEF SameTarget
  <1>3. CASE PageList
    <2>1. view.heading = 0 /\ view'.heading = 0 /\ view'.step = "patches"
      BY <1>0, <1>3, ListDoes, InSteps DEF PageNumbers
    <2>2. ASSUME NEW l \in view'.listed
          PROVE  /\ l.id \in 1 .. seq.ps /\ Submission(l.id, view.pr)
                 /\ ~Removed(view.pr) => l.rev = Told(LogsOf(view.pr), l.id)
      <3>1. PICK d \in PatchsetsOf(view.pr) : l = [rev |-> Rev(d), id |-> d.id]
        BY <1>0, <1>3, <2>2, ListDoes
      <3>2. d \in patchsets /\ d.pr = view.pr /\ l.id = d.id /\ l.rev = Rev(d)
        BY <3>1 DEF PatchsetsOf
      <3>3. QED
        BY <3>2, RowSubmitted, RevIsTold, StoreFacts
    <2>3. \A l \in view'.listed :
            /\ l.id \in 1 .. seq'.ps
            /\ \E e \in events' : IsOrigin(e) /\ e.ps = l.id /\ e.pr = view'.pr
      BY <1>1, <1>2, <2>2 DEF Submission
    <2>4. ~Removed(view.pr) =>
            \A l \in view'.listed : l.rev = Told({e \in events' : e.pr = view'.pr}, l.id)
      BY <1>1, <1>2, <2>2 DEF LogsOf
    <2>5. Removed(view.pr) <=> \E e \in events' : IsRemoval(e) /\ e.pr = view'.pr
      BY <1>1, <1>2 DEF Removed
    <2>6. QED
      BY <2>1, <2>3, <2>4, <2>5 DEF PageNumbers, PageShown, Submission, Removed, Agree, LogsOf
  <1>4. CASE PagePatches
    <2>1. /\ view'.listed = view.listed /\ view'.heading = view.heading
          /\ view.step = "patches"
          /\ view'.step = "heading" \/ (view'.step = "done" /\ view'.status = 404)
      BY <1>0, <1>4, PatchesDo, InSteps
    <2>2. QED
      BY <1>1, <1>2, <2>1 DEF PageNumbers, PageShown, Submission, Removed, Agree, LogsOf
  <1>5. CASE PageHeading
    <2>1. view'.listed = view.listed /\ view.step = "heading" /\ view'.step = "logs" /\ view.heading = 0
      BY <1>0, <1>5, HeadingDoes, InSteps DEF PageNumbers
    <2>2. ~Removed(view.pr) => view'.heading = 0 \/ view'.heading = Told(LogsOf(view.pr), view.ps)
      <3>1. CASE view'.heading = view.heading
        BY <2>1, <3>1
      <3>2. ASSUME NEW d \in patchsets, d.id = view.ps, view'.heading = Rev(d)
            PROVE  ~Removed(view.pr) => view'.heading = Told(LogsOf(view.pr), view.ps)
        <4>1. view.ps \in 1 .. seq.ps /\ Submission(view.ps, view.pr) /\ OriginLogged
          BY <2>1, StoreFacts DEF CourseInv, ComesTo, Asking, OfKind, ForPatchRequest
        <4>2. d.pr = view.pr
          BY <3>2, <4>1 DEF OriginLogged, Submission
        <4>3. QED
          BY <3>2, <4>2, RevIsTold
      <3>3. QED
        BY <1>0, <1>5, <3>1, <3>2, HeadingDoes
    <2>3. QED
      BY <1>1, <1>2, <2>1, <2>2 DEF PageNumbers, PageShown, Submission, Removed, Agree, LogsOf
  <1>6. CASE PageLogs
    <2>1. /\ view'.listed = view.listed /\ view'.heading = view.heading
          /\ view.step = "logs" /\ view'.step = "events"
          /\ view'.todo = LogsOf(view.pr) /\ view'.told = {}
      BY <1>0, <1>6, LogsDo, InSteps DEF SameParts, MomentInv, Untold
    <2>2. (\A e \in LogsOf(view.pr) : ~IsRemoval(e)) => ~Removed(view.pr)
      BY DEF Removed, LogsOf
    <2>3. (\A e \in LogsOf(view.pr) : ~IsRemoval(e)) => Agree(LogsOf(view.pr))
      BY <2>1, <2>2 DEF PageNumbers
    <2>4. view'.told \cup view'.todo = LogsOf(view.pr)
      BY <2>1
    <2>5. QED
      BY <1>2, <2>1, <2>3, <2>4 DEF PageNumbers, Agree
  <1>7. CASE PageEvent
    <2>1. /\ view'.listed = view.listed /\ view'.heading = view.heading
          /\ view.step = "events" /\ view.told \cup view.todo \subseteq events
      BY <1>0, <1>7, EventDoes, InSteps DEF SameParts, MomentInv, OfAMoment
    <2>2. ASSUME NEW e \in events, e.ps > 0 => Present(e.ps)
          PROVE  ~IsRemoval(e)
      <3>1. PlaceInv /\ RemovalLogged /\ e.ps \in 0 .. seq.ps /\ seq.ps \in Nat
        BY StoreFacts DEF IdInv
      <3>2. QED
        BY <2>2, <3>1 DEF PlaceInv, RemovalLogged, Present
    <2>3. /\ view'.told \cup view'.todo = view.told \cup view.todo
          /\ \A e \in view'.told : e \in view.told \/ ~IsRemoval(e)
      BY <1>0, <1>7, <2>1, <2>2, EventDoes DEF SameLog
    <2>4. view'.step \in {"events", "done"}
      BY <1>0, <1>7, EventDoes
    <2>5. QED
      BY <1>2, <2>1, <2>3, <2>4 DEF PageNumbers, Agree
  <1>8. QED
    BY <1>3, <1>4, <1>5, <1>6, <1>7

LEMMA LogNumbersRead ==
  ASSUME StoreInv, CourseInv, MomentInv, LogNumbers, UNCHANGED vars, view.req.kind = "logs",
         FeedSelect \/ LogsEntry \/ LogsRevision
  PROVE  LogNumbers'
  <1>0. view \in View /\ TypeOK /\ RevisionInv
    BY StoreFacts DEF CourseInv
  <1>1. events' = events /\ \A pr : LogsOf(pr)' = LogsOf(pr)
    BY DEF vars, tables, LogsOf
  <1>2. view'.req = view.req /\ view'.pr = view.pr
    BY <1>0, SelectDoes, EntryDoes, RevisionDoes DEF SameTarget
  <1>3. view.step # "select" => view.told \cup view.todo \subseteq LogsOf(view.pr)
    <2>1. SUFFICES ASSUME LogsEntry \/ LogsRevision
                   PROVE  view.told \cup view.todo \subseteq LogsOf(view.pr)
      BY InSteps
    <2>2. OfAMoment(view.told \cup view.todo)
      BY <2>1, InSteps DEF MomentInv
    <2>3. \A e : Concerns(e) => e.pr = view.pr
      BY DEF Concerns
    <2>4. QED
      BY <2>2, <2>3 DEF OfAMoment, LogsOf
  <1>4. CASE FeedSelect
    <2>1. /\ view.told = {} /\ view'.told = {} /\ view.revs = {} /\ view'.revs = {}
          /\ view'.todo = Selected(view.req) /\ view'.step = "entry"
      BY <1>0, <1>4, SelectDoes, InSteps DEF MomentInv, Untold, LogNumbers, SameRows
    <2>2. Selected(view.req) = LogsOf(view.pr)
      BY DEF Selected
    <2>3. view'.told \cup view'.todo = LogsOf(view.pr)
      BY <2>1, <2>2
    <2>4. \A f \in {e \in events' : e.pr = view'.pr} : f \in view'.told \cup view'.todo
      BY <1>1, <1>2, <2>3 DEF LogsOf
    <2>5. QED
      BY <2>1, <2>4 DEF LogNumbers, NumberedLater, RevsAgree, LogsShown, LogsOf
  <1>5. ASSUME view.step \in {"entry", "revision"},
               view'.told \cup view'.todo = view.told \cup view.todo,
               view'.step \in {"entry", "revision"} \/ (view'.step = "done" /\ view'.todo = {}),
               view'.step = "revision" => \A e \in view'.entry : e.ps # 0,
               ~view'.failed /\ ~Removed(view.pr) =>
                 \A n \in view'.revs : n.rev = Told(view.told \cup view.todo, n.ps)
        PROVE  LogNumbers'
    <2>1. NumberedLater(view.told \cup view.todo)
      BY <1>5 DEF LogNumbers
    <2>2. \A f \in {e \in events' : e.pr = view'.pr} \ (view'.told \cup view'.todo) :
            IsOrigin(f) => \A e \in view'.told \cup view'.todo : e.ps < f.ps
      BY <1>1, <1>2, <1>5, <2>1 DEF NumberedLater, LogsOf
    <2>3. Removed(view.pr) => \E e \in events' : IsRemoval(e) /\ e.pr = view'.pr
      BY <1>1, <1>2 DEF Removed
    <2>4. ~view'.failed /\ ~Removed(view.pr) =>
            \A n \in view'.revs : n.rev = Told(view'.told \cup view'.todo, n.ps)
      BY <1>5
    <2>5. QED
      BY <1>5, <2>2, <2>3, <2>4 DEF LogNumbers, NumberedLater, LogsOf, RevsAgree, LogsShown, Removed
  <1>6. view.step \in {"entry", "revision"} /\ ~view.failed /\ ~Removed(view.pr) =>
          \A n \in view.revs : n.rev = Told(view.told \cup view.todo, n.ps)
    BY DEF LogNumbers, RevsAgree
  <1>7. CASE LogsEntry
    <2>1. view.step = "entry"
      BY <1>7, InSteps
    <2>2. ASSUME NEW e \in view.todo, e.ps > 0 /\ ~Present(e.ps)
          PROVE  Removed(view.pr)
      <3>1. e \in LogsOf(view.pr)
        BY <1>3, <2>1
      <3>2. e.ps \in Nat
        BY <1>0 DEF View, EventRow
      <3>3. QED
        BY <2>2, <3>1, <3>2, AbsentRemoved
    <2>3. CASE /\ view.todo = {} /\ SameLog /\ view'.revs = view.revs
               /\ view'.step = "done" /\ view'.failed = view.failed
      BY <1>5, <1>6, <2>1, <2>3 DEF SameLog
    <2>4. ASSUME NEW e \in view.todo, view'.step = "revision", Present(e.ps), SameLog,
                 view'.entry = {e}, view'.revs = view.revs, view'.failed = view.failed
          PROVE  LogNumbers'
      <3>1. e.ps # 0
        BY <2>4, StoreFacts DEF Present, IdInv
      <3>2. QED
        BY <1>5, <1>6, <2>1, <2>4, <3>1 DEF SameLog
    <2>5. ASSUME NEW e \in view.todo, view'.step = "entry",
                 view'.todo = view.todo \ {e}, view'.told = view.told \cup {e},
                 \/ view'.failed = TRUE
                 \/ /\ view'.failed = view.failed
                    /\ view'.revs = view.revs \/ (e.ps > 0 /\ ~Present(e.ps))
          PROVE  LogNumbers'
      <3>1. view'.told \cup view'.todo = view.told \cup view.todo
        BY <2>5
      <3>2. view'.failed \/ Removed(view.pr) \/ (view'.failed = view.failed /\ view'.revs = view.revs)
        BY <2>2, <2>5
      <3>3. QED
        BY <1>5, <1>6, <2>1, <2>5, <3>1, <3>2
    <2>6. QED
      BY <1>0, <1>7, <2>3, <2>4, <2>5, EntryDoes
  <1>8. CASE LogsRevision
    <2>1. view.step = "revision" /\ view.entry \subseteq view.todo /\ \A e \in view.entry : e.ps # 0
      BY <1>8, InSteps DEF MomentInv, LogNumbers
    <2>2. PICK e \in view.entry :
            /\ view'.todo = view.todo \ {e} /\ view'.told = view.told \cup {e}
            /\ \/ view'.failed = TRUE
               \/ view'.failed = view.failed /\ ~Present(e.ps)
               \/ /\ view'.failed = view.failed
                  /\ \E d \in patchsets :
                       /\ d.id = e.ps
                       /\ view'.revs = view.revs \cup {[ps |-> e.ps, rev |-> Rev(d)]}
      BY <1>0, <1>8, RevisionDoes
    <2>3. view'.step = "entry" /\ view'.told \cup view'.todo = view.told \cup view.todo
      BY <1>0, <1>8, <2>1, <2>2, RevisionDoes
    <2>4. e \in LogsOf(view.pr) /\ e \in view.told \cup view.todo /\ e.ps # 0
          /\ view.told \cup view.todo \subseteq LogsOf(view.pr)
      BY <1>3, <2>1
    <2>5. CASE view'.failed = TRUE
      BY <1>5, <2>1, <2>3, <2>5
    <2>6. CASE ~Present(e.ps)
      BY <1>5, <2>1, <2>3, <2>4, <2>6, AbsentRemoved
    <2>7. ASSUME NEW d \in patchsets, d.id = e.ps, view'.failed = view.failed,
                 view'.revs = view.revs \cup {[ps |-> e.ps, rev |-> Rev(d)]},
                 Submission(e.ps, view.pr)
          PROVE  LogNumbers'
      <3>1. d.pr = view.pr
        BY <2>7, StoreFacts DEF IdInv, OriginLogged, Submission
      <3>2. ~Removed(view.pr) => Rev(d) = Told(LogsOf(view.pr), e.ps)
        BY <2>7, <3>1, RevIsTold
      <3>3. Told(view.told \cup view.todo, e.ps) = Told(LogsOf(view.pr), e.ps)
        <4>1. NumberedLater(view.told \cup view.todo)
          BY <2>1 DEF LogNumbers
        <4>2. QED
          BY <2>4, <4>1, ToldEarlier
      <3>4. ASSUME ~view'.failed, ~Removed(view.pr), NEW n \in view'.revs
            PROVE  n.rev = Told(view.told \cup view.todo, n.ps)
        <4>1. CASE n \in view.revs
          BY <1>6, <2>1, <2>7, <3>4, <4>1
        <4>2. CASE n = [ps |-> e.ps, rev |-> Rev(d)]
          <5>1. n.ps = e.ps /\ n.rev = Rev(d)
            BY <4>2
          <5>2. QED
            BY <3>2, <3>3, <3>4, <5>1
        <4>3. QED
          BY <2>7, <3>4, <4>1, <4>2
      <3>5. QED
        BY <1>5, <2>1, <2>3, <3>4
    <2>8. Present(e.ps) => Submission(e.ps, view.pr)
      <3>1. e \in events /\ e.pr = view.pr /\ PlaceInv /\ RemovalLogged /\ e.ps \in 0 .. seq.ps
            /\ seq.ps \in Nat
        BY <2>4, StoreFacts DEF LogsOf, IdInv
      <3>2. IsOrigin(e) \/ IsRemoval(e)
        BY <2>4, <3>1 DEF PlaceInv
      <3>3. QED
        BY <3>1, <3>2 DEF PlaceInv, Submission
    <2>9. QED
      BY <2>2, <2>5, <2>6, <2>7, <2>8
  <1>9. QED
    BY <1>4, <1>7, <1>8

LEMMA ListNumbersRead ==
  ASSUME StoreInv, CourseInv, MomentInv, ListNumbers, UNCHANGED vars, view.req.kind \in {"list", "ls"},
         FeedRequests \/ ListRow
  PROVE  ListNumbers'
  <1>0. view \in View /\ TypeOK /\ RevisionInv
    BY StoreFacts DEF CourseInv
  <1>1. events' = events /\ prs' = prs
    BY DEF vars, tables
  <1>2. CASE FeedRequests
    <2>1. view'.rest = InRepo /\ view'.step = "row" /\ view'.req = view.req
      BY <1>0, <1>2, RequestsDo DEF SameTarget
    <2>2. \A r \in prs : RepoOf[r.target] = RepoOf[view.req.target] => r.id \in InRepo
      BY DEF InRepo
    <2>3. RowsInv'
      BY <1>1, <2>1, <2>2 DEF RowsInv
    <2>4. QED
      BY <2>1, <2>3 DEF ListNumbers, ListShown
  <1>3. CASE ListRow
    <2>1. view.step = "row" /\ SameTarget /\ view'.req = view.req /\ view'.since = view.since
      BY <1>0, <1>3, InSteps, RestTyped, RowDoes DEF SameTarget
    <2>2. CASE /\ view.rest = {} /\ view'.rest = {} /\ view'.listed = view.listed
               /\ view'.failed = view.failed /\ view'.step = "done"
      BY <1>1, <2>1, <2>2 DEF ListNumbers, RowsInv
    <2>3. CASE view'.failed /\ view'.step = "row"
      BY <2>3 DEF ListNumbers, ListShown
    <2>4. ASSUME view'.step = "row", view'.failed = view.failed, view.rest # {},
                 view'.rest = view.rest \ {Highest(view.rest)},
                 view'.listed = view.listed \cup {[rev |-> Cardinality(PatchsetsOf(Highest(view.rest))),
                                                   id |-> Highest(view.rest)]}
          PROVE  ListNumbers'
      <3> DEFINE p == Highest(view.rest)
                 l == [rev |-> Cardinality(PatchsetsOf(p)), id |-> p]
      <3>1. SUFFICES ASSUME ~view.failed, NEW e \in events, e.kind = "pr_created"
                     PROVE  \/ e.pr \in view'.rest
                            \/ \E k \in view'.listed :
                                 k.id = e.pr /\ (k.rev > 0 \/ \E f \in events : IsRemoval(f))
                            \/ e.id > view.since
                            \/ \A r \in prs : r.id = e.pr => RepoOf[r.target] # RepoOf[view.req.target]
        BY <1>1, <2>1, <2>4 DEF ListNumbers, RowsInv, ListShown
      <3>2. \/ e.pr \in view.rest
            \/ \E k \in view.listed :
                 k.id = e.pr /\ (k.rev > 0 \/ \E f \in events : IsRemoval(f))
            \/ e.id > view.since
            \/ \A r \in prs : r.id = e.pr => RepoOf[r.target] # RepoOf[view.req.target]
        BY <2>1, <3>1 DEF ListNumbers, RowsInv
      <3>3. l \in view'.listed /\ view.listed \subseteq view'.listed /\ view'.rest = view.rest \ {p}
        BY <2>4
      <3>4. ASSUME e.pr = p
            PROVE  l.id = e.pr /\ (l.rev > 0 \/ \E f \in events : IsRemoval(f))
        <4>1. IsOrigin(e) /\ Submission(e.ps, p) /\ e.ps \in 1 .. seq.ps
          BY <3>1, <3>4, StoreFacts DEF IsOrigin, Submission, PlaceInv, IdInv
        <4>2. CASE PatchsetsOf(p) = {}
          BY <3>4, <4>1, <4>2, GoneRemoved DEF Removed
        <4>3. CASE PatchsetsOf(p) # {}
          <5>1. IsFiniteSet(PatchsetsOf(p))
            BY <1>0, FS_Subset DEF RevisionInv, PatchsetsOf
          <5>2. Cardinality(PatchsetsOf(p)) \in Nat /\ Cardinality(PatchsetsOf(p)) # 0
            BY <4>3, <5>1, FS_CardinalityType, FS_EmptySet
          <5>3. QED
            BY <3>4, <5>2
        <4>4. QED
          BY <4>2, <4>3
      <3> HIDE DEF p, l
      <3>5. QED
        BY <3>2, <3>3, <3>4
    <2>5. QED
      BY <1>0, <1>3, <2>1, <2>2, <2>3, <2>4, RestTyped, RowDoes
  <1>4. QED
    BY <1>2, <1>3

\* Queries of requests that give no numbers, and refusals.
LEMMA NumberElse ==
  ASSUME view' \in View,
         \/ view'.req.kind \notin {"page", "logs", "list", "ls"}
         \/ view'.step = "done" /\ view'.status # 200
  PROVE  NumberInv'
  <1>1. CASE view'.req.kind \notin {"page", "logs", "list", "ls"}
    BY <1>1 DEF NumberInv, OfKind
  <1>2. CASE view'.step = "done" /\ view'.status # 200
    BY <1>2 DEF NumberInv, PageNumbers, LogNumbers, ListNumbers, PageShown, LogsShown, ListShown
  <1>3. QED
    BY <1>1, <1>2

LEMMA NumberResolve ==
  ASSUME StoreInv, CourseInv, NumberInv, UNCHANGED vars, PageResolve
  PROVE  NumberInv'
  <1>1. view \in View /\ TypeOK /\ view.step = "resolve" /\ view.req.kind \in ForPatchRequest
    BY InSteps, StoreFacts DEF CourseInv, ComesTo
  <1>2. CASE view'.step = "done" /\ view'.status = 404
    BY <1>1, <1>2, ResolveDoes, NumberElse
  <1>3. CASE view'.step = AfterResolve(view.req.kind)
    <2>1. /\ view'.req = view.req /\ view'.listed = view.listed /\ view'.heading = view.heading
          /\ view'.revs = view.revs
      BY <1>1, ResolveDoes DEF SameParts, SameRows
    <2>2. CASE view.req.kind = "page"
      <3>1. view'.listed = {} /\ view'.heading = 0 /\ view'.step = "list" /\ view'.req.kind = "page"
        BY <1>1, <1>3, <2>1, <2>2 DEF NumberInv, PageNumbers, OfKind, AfterResolve
      <3>2. QED
        BY <3>1 DEF NumberInv, PageNumbers, OfKind, PageShown, Agree
    <2>3. CASE view.req.kind = "logs"
      <3>1. view'.revs = {} /\ view'.step = "select" /\ view'.req.kind = "logs"
        BY <1>1, <1>3, <2>1, <2>3 DEF NumberInv, LogNumbers, OfKind, AfterResolve
      <3>2. QED
        BY <3>1 DEF NumberInv, LogNumbers, OfKind, LogsShown
    <2>4. CASE view.req.kind \notin {"page", "logs"}
      <3>1. view'.req.kind \notin {"page", "logs", "list", "ls"}
        BY <1>1, <2>1, <2>4 DEF ForPatchRequest
      <3>2. QED
        BY <1>1, <3>1, ResolveDoes, NumberElse
    <2>5. QED
      BY <2>2, <2>3, <2>4
  <1>4. QED
    BY <1>1, <1>2, <1>3, ResolveDoes

LEMMA NumberRead ==
  ASSUME StoreInv, CourseInv, MomentInv, NumberInv, UNCHANGED vars, PageRead
  PROVE  NumberInv'
  <1>1. view \in View /\ TypeOK /\ RevisionInv
    BY StoreFacts DEF CourseInv
  <1>2. view.step # "none" => ComesTo(view.req.kind, view.step)
    BY DEF CourseInv
  <1>3. CASE PageResolve
    BY <1>3, NumberResolve
  <1>4. CASE PageList \/ PagePatches \/ PageHeading \/ PageLogs \/ PageEvent
    <2>1. view.step \notin {"none", "done"} /\ view.req.kind \in {"page", "mbox"}
      BY <1>2, <1>4, InSteps DEF ComesTo
    <2>2. view' \in View /\ view'.req = view.req
      BY <1>1, <1>4, ListDoes, PatchesDo, HeadingDoes, LogsDo, EventDoes DEF SameTarget
    <2>3. CASE view.req.kind = "page"
      <3>1. PageNumbers'
        BY <1>4, <2>1, <2>3, PageNumbersRead DEF NumberInv, OfKind
      <3>2. QED
        BY <2>2, <2>3, <3>1 DEF NumberInv, OfKind
    <2>4. CASE view.req.kind = "mbox"
      BY <2>2, <2>4, NumberElse
    <2>5. QED
      BY <2>1, <2>3, <2>4
  <1>5. CASE FeedSelect \/ FeedAuthors \/ LogsEntry \/ LogsRevision
    <2>1. /\ view.step \notin {"none", "done"}
          /\ view.req.kind \in {"prfeed", "logs", "feed", "userfeed"}
          /\ view.step = "authors" => view.req.kind # "logs"
      BY <1>2, <1>5, InSteps DEF ComesTo
    <2>2. view' \in View /\ view'.req = view.req
      BY <1>1, <1>5, SelectDoes, AuthorsDo, EntryDoes, RevisionDoes DEF SameTarget
    <2>3. CASE view.req.kind = "logs"
      <3>1. ~FeedAuthors
        BY <2>1, <2>3, InSteps
      <3>2. LogNumbers'
        BY <1>5, <2>1, <2>3, <3>1, LogNumbersRead DEF NumberInv, OfKind
      <3>3. QED
        BY <2>2, <2>3, <3>2 DEF NumberInv, OfKind
    <2>4. CASE view.req.kind # "logs"
      BY <2>1, <2>2, <2>4, NumberElse
    <2>5. QED
      BY <2>3, <2>4
  <1>6. CASE FeedRequests \/ FeedRequest \/ ListRow
    <2>1. /\ view.step \notin {"none", "done"} /\ view.req.kind \in {"repofeed", "list", "ls"}
          /\ view.step = "request" => view.req.kind = "repofeed"
      BY <1>2, <1>6, InSteps DEF ComesTo
    <2>2. view' \in View /\ view'.req = view.req
      BY <1>1, <1>6, InSteps, RestTyped, RequestsDo, RequestDoes, RowDoes DEF SameTarget
    <2>3. CASE view.req.kind = "repofeed"
      BY <2>2, <2>3, NumberElse
    <2>4. CASE view.req.kind \in {"list", "ls"}
      <3>1. ~FeedRequest
        BY <2>1, <2>4, InSteps
      <3>2. ListNumbers'
        BY <1>6, <2>1, <2>4, <3>1, ListNumbersRead DEF NumberInv, OfKind
      <3>3. QED
        BY <2>2, <2>4, <3>2 DEF NumberInv, OfKind
    <2>5. QED
      BY <2>1, <2>3, <2>4
  <1>7. QED
    BY <1>3, <1>4, <1>5, <1>6 DEF PageRead

LEMMA NumberStep ==
  StoreInv /\ CourseInv /\ MomentInv /\ NumberInv /\ [PageNext]_pageVars => NumberInv'
  BY PageSteps, NumberStore, NumberBegins, NumberVisit, NumberRead, NumberFails
-----------------------------------------------------------------------------
(***************************************************************************)
(* The theorems.                                                           *)
(***************************************************************************)

LEMMA PageInvStarts == PageInit => PageInv
  BY StoreStarts, StoreFacts, CourseBegins, WholeBegins, CauseBegins, MomentBegins, NumberBegins, NoViewIs
  DEF PageInit, PageInv, PageTypeOK

LEMMA PageInvStep == PageInv /\ [PageNext]_pageVars => PageInv'
  <1> SUFFICES ASSUME PageInv, [PageNext]_pageVars
               PROVE  PageInv'
    OBVIOUS
  <1>1. StoreInv' /\ TypeOK'
    BY PageStepIsStoreStep, StoreStep DEF PageInv, StoreInv, BookInv, RemovalInv, LogInv
  <1>2. CourseInv' /\ WholeInv' /\ CauseInv' /\ MomentInv' /\ NumberInv'
    BY CourseStep, WholeStep, CauseStep, MomentStep, NumberStep DEF PageInv
  <1>3. view' \in View
    BY <1>2 DEF CourseInv
  <1>4. visits' \in Nat
    <2>1. visits \in Nat
      BY DEF PageInv, PageTypeOK
    <2>2. visits' = visits \/ visits' = visits + 1
      BY DEF PageNext, Visit, PageRead, PageFails, PageResolve, PageList, PagePatches, PageHeading,
             PageLogs, PageEvent, FeedSelect, FeedAuthors, FeedRequests, FeedRequest, ListRow,
             LogsEntry, LogsRevision, PageCrash, pageVars
    <2>3. QED
      BY <2>1, <2>2
  <1>5. QED
    BY <1>1, <1>2, <1>3, <1>4 DEF PageInv, PageTypeOK

LEMMA PageInvHolds == PageSpec => []PageInv
  BY PageInvStarts, PageInvStep, PTL DEF PageSpec

\* The store, the request in progress and the count of requests keep their types.
THEOREM PageTyped == PageSpec => []PageTypeOK
  <1>1. PageInv => PageTypeOK
    BY DEF PageInv
  <1>2. QED
    BY <1>1, PageInvHolds, PTL

\* However a page is interleaved with pushes and removals, one that is shown has
\* all patches of its patchset, as they were pushed, and its log the submission.
THEOREM PagesAreWhole == PageSpec => []ShownWhole
  <1>1. ASSUME PageInv
        PROVE  ShownWhole
    <2>1. SUFFICES ASSUME PageShown \/ (MboxShown /\ ~view.failed)
                   PROVE  /\ \A p \in acked : p.op \in {"push", "issue"} /\ p.ps = view.ps =>
                               view.commits = p.patches
                          /\ \E e \in view.told : IsOrigin(e) /\ e.ps = view.ps /\ e.pr = view.pr
      BY DEF ShownWhole
    <2>2. OfKind({"page", "mbox"}) /\ Answered200 /\ WholeInv
      BY <1>1, <2>1 DEF OfKind, Answered200, PageShown, MboxShown, PageInv
    <2>3. \A p \in acked : p.op \in {"push", "issue"} => Content(p.ps) = p.patches
      BY <1>1 DEF PageInv, StoreInv, ClaimInv, ToldInv
    <2>4. QED
      BY <2>1, <2>2, <2>3 DEF WholeInv
  <1>2. QED
    BY <1>1, PageInvHolds, PTL

\* A page, a .patch file, a log or a feed whose queries work is refused only for
\* a target that is not there, a patchset without patches or a removal.
THEOREM RefusalsHaveCause == PageSpec => []RefusedForCause
  <1>1. PageInv => RefusedForCause
    BY DEF PageInv, CauseInv
  <1>2. QED
    BY <1>1, PageInvHolds, PTL

\* The events that are shown are all that there were up to a moment after the
\* request, for the feed of a repo those of each patch request up to its own.
THEOREM LogsAreOfAMoment == PageSpec => []LogOfAMoment
  <1>1. ASSUME PageInv
        PROVE  LogOfAMoment
    <2>1. SUFFICES ASSUME Answered200, ~view.failed
                   PROVE  /\ \A e \in view.told : Concerns(e)
                          /\ \A e \in events : Concerns(e) /\ e \notin view.told =>
                               /\ e.id > view.since
                               /\ \A f \in view.told :
                                    f.id < e.id \/ (view.req.kind = "repofeed" /\ f.pr # e.pr)
      BY DEF LogOfAMoment, Answered200
    <2>2. CASE view.req.kind # "repofeed"
      BY <1>1, <2>1, <2>2 DEF PageInv, MomentInv, OfAMoment
    <2>3. CASE view.req.kind = "repofeed"
      <3>1. OfMoments(view.told) /\ view.rest = {}
        BY <1>1, <2>1, <2>3 DEF PageInv, MomentInv, OfKind, Answered200
      <3>2. QED
        BY <2>3, <3>1 DEF OfMoments
    <2>4. QED
      BY <2>2, <2>3
  <1>2. QED
    BY <1>1, PageInvHolds, PTL

\* The heading, the list of patchsets and the timeline of a page, read at three
\* moments, agree on every revision; so does `logs` unless there was a removal;
\* a list leaves nobody out.
THEOREM NumbersOnPagesAgree == PageSpec => []NumbersAgree
  <1>1. ASSUME PageInv
        PROVE  NumbersAgree
    <2>1. PageShown =>
            /\ \A l \in view.listed : l.rev = Told(view.told, l.id)
            /\ view.heading # 0 => view.heading = Told(view.told, view.ps)
      <3>1. SUFFICES ASSUME PageShown
                     PROVE  Agree(view.told)
        BY DEF Agree
      <3>2. view.todo = {}
        BY <1>1, <3>1 DEF PageInv, WholeInv, OfKind, PageShown
      <3>3. PageNumbers
        BY <1>1, <3>1 DEF PageInv, NumberInv, OfKind, PageShown
      <3>4. Agree(view.told \cup view.todo)
        BY <3>1, <3>2, <3>3 DEF PageNumbers
      <3>5. QED
        BY <3>2, <3>4
    <2>2. LogsShown /\ ~view.failed =>
            \/ \E e \in events : IsRemoval(e) /\ e.pr = view.pr
            \/ \A n \in view.revs : n.rev = Told(view.told, n.ps)
      <3>1. SUFFICES ASSUME LogsShown, ~view.failed
                     PROVE  Removed(view.pr) \/ RevsAgree(view.told)
        BY DEF Removed, RevsAgree
      <3>2. LogNumbers
        BY <1>1, <3>1 DEF PageInv, NumberInv, OfKind, LogsShown
      <3>3. view.todo = {} /\ (Removed(view.pr) \/ RevsAgree(view.told \cup view.todo))
        BY <3>1, <3>2 DEF LogNumbers
      <3>4. view.told \cup view.todo = view.told
        BY <3>3
      <3>5. QED
        BY <3>3, <3>4
    <2>3. ListShown /\ ~view.failed =>
            \A e \in events : e.kind = "pr_created" =>
              \/ \E l \in view.listed : l.id = e.pr /\ (l.rev > 0 \/ \E f \in events : IsRemoval(f))
              \/ e.id > view.since
              \/ \A r \in prs : r.id = e.pr => RepoOf[r.target] # RepoOf[view.req.target]
      <3>1. SUFFICES ASSUME ListShown, ~view.failed
                     PROVE  RowsInv /\ view.rest = {}
        BY DEF RowsInv
      <3>2. ListNumbers
        BY <1>1, <3>1 DEF PageInv, NumberInv, OfKind, ListShown
      <3>3. QED
        BY <3>1, <3>2 DEF ListNumbers
    <2>4. QED
      BY <2>1, <2>2, <2>3 DEF NumbersAgree
  <1>2. QED
    BY <1>1, PageInvHolds, PTL
=============================================================================

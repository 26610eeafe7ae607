---------------------------- MODULE PatchBookProofs ----------------------------
(***************************************************************************)
(* PatchStore implements PatchBook: seen as a book, the tables change by   *)
(* one entry at a time, each made by whom it belongs to, for every number  *)
(* of sessions, users, targets, patches and commands.                      *)
(***************************************************************************)
EXTENDS PatchStoreProofs

(***************************************************************************)
(* The book, entry by entry, as a function of the rows it is read from.    *)
(***************************************************************************)

Titles(log, p) == {e \in log : e.pr = p /\ e.kind \in {"pr_created", "pr_name_changed"}}
Origins(log, i) == {e \in log : IsOrigin(e) /\ e.ps = i}
Removals(log, i) == {e \in log : IsRemoval(e) /\ e.ps = i}

Row(rows, p) == CHOOSE q \in rows : q.id = p

RequestEntry(rows, log, p) ==
  [target |-> Row(rows, p).target, by |-> Row(rows, p).user, name |-> Row(rows, p).name,
   namedBy |-> Newest(Titles(log, p)).user]

SubmissionEntry(rows, log, saved, i) ==
  [pr |-> First(Origins(log, i)).pr, by |-> First(Origins(log, i)).user,
   patches |-> {<<p.pos, p.sha>> : p \in {q \in saved : q.ps = i}},
   withdrawnBy |-> IF {d \in rows : d.id = i} # {} THEN NoSession
                   ELSE First(Removals(log, i)).user]
-----------------------------------------------------------------------------
(***************************************************************************)
(* The inductive invariant.                                                *)
(***************************************************************************)

\* Events are numbered in the order of the commits that log them.
EventIdInv ==
  /\ \A e \in events : e.id \in 1 .. seq.ev
  /\ \A e, f \in events : e.id = f.id => e = f

\* The events that the book's entries are read from are there.
ReadableInv ==
  /\ \A p \in 1 .. seq.pr : \E e \in Titles(events, p) :
       \A f \in Titles(events, p) : f.id <= e.id
  /\ \A i \in 1 .. seq.ps : Removals(events, i) # {} =>
       \E e \in Removals(events, i) : \A f \in Removals(events, i) : e.id <= f.id

\* An `edit` past its check has looked up a patch request of its user's.
EditInv ==
  \A s \in Sessions : cmd[s].op = "edit" /\ prq[s] # 0 =>
    \E r \in prs : r.id = prq[s] /\ r.user = cmd[s].key

\* The open transaction logs one event, by its session's user, and changes a row
\* of patch_requests only to make one or to give one of the user's a title.
EntryInv ==
  \A s \in Sessions : tx.owner = s =>
    /\ tx.seq.ev = seq.ev + 1
    /\ \E e \in tx.events :
         /\ tx.events = {e} /\ e.id = seq.ev + 1 /\ e.user = cmd[s].key
         /\ e.kind \notin {"pr_created", "pr_name_changed"} => tx.prs = {}
         /\ e.kind = "pr_name_changed" =>
              \E r \in prs, n \in Names :
                r.id = e.pr /\ r.user = e.user /\ tx.prs = {Renamed(r, n)}

BookInv ==
  /\ ReferenceInv
  /\ RemovalInv
  /\ EventIdInv
  /\ ReadableInv
  /\ EditInv
  /\ EntryInv
-----------------------------------------------------------------------------
LEMMA FirstIs ==
  ASSUME NEW S, NEW e \in S, \A f \in S : f.id \in Nat,
         \A f \in S : e.id <= f.id, \A f \in S : f.id = e.id => f = e
  PROVE  First(S) = e
  BY DEF First

LEMMA NewestIs ==
  ASSUME NEW S, NEW e \in S, \A f \in S : f.id \in Nat,
         \A f \in S : f.id <= e.id, \A f \in S : f.id = e.id => f = e
  PROVE  Newest(S) = e
  BY DEF Newest

LEMMA OfOne ==
  ASSUME NEW e, e.id \in Nat
  PROVE  First({e}) = e /\ Newest({e}) = e
  <1>1. /\ First({e}) \in {e} \/ ~\E x \in {e} : \A f \in {e} : x.id <= f.id
        /\ Newest({e}) \in {e} \/ ~\E x \in {e} : \A f \in {e} : f.id <= x.id
    BY DEF First, Newest
  <1>2. QED
    BY <1>1

LEMMA RowIs ==
  ASSUME NEW rows, NEW r \in rows, \A q \in rows : q.id = r.id => q = r
  PROVE  Row(rows, r.id) = r
  BY DEF Row

LEMMA ReadOff ==
  /\ RequestBook = [p \in 1 .. seq.pr |-> RequestEntry(prs, events, p)]
  /\ SubmissionBook = [i \in 1 .. seq.ps |-> SubmissionEntry(patchsets, events, patches, i)]
  BY DEF RequestBook, SubmissionBook, RequestEntry, SubmissionEntry, Row, Titles, Origins,
         Removals, Content

LEMMA ReadOffNext ==
  /\ RequestBook' = [p \in 1 .. seq'.pr |-> RequestEntry(prs', events', p)]
  /\ SubmissionBook' =
       [i \in 1 .. seq'.ps |-> SubmissionEntry(patchsets', events', patches', i)]
  BY DEF RequestBook, SubmissionBook, RequestEntry, SubmissionEntry, Row, Titles, Origins,
         Removals, Content

\* A function on 1 .. n is a sequence of length n.
LEMMA LengthOf ==
  ASSUME NEW n \in Nat, NEW f, f = [i \in 1 .. n |-> f[i]]
  PROVE  Len(f) = n /\ DOMAIN f = 1 .. n
  <1>1. f \in [1 .. n -> {f[i] : i \in 1 .. n}]
    OBVIOUS
  <1>2. QED
    BY <1>1

LEMMA OneMore ==
  ASSUME NEW S, NEW f \in Seq(S), NEW g \in Seq(S), Len(g) = Len(f) + 1,
         \A i \in 1 .. Len(f) : g[i] = f[i]
  PROVE  g = Append(f, g[Len(f) + 1])
  <1>1. g[Len(f) + 1] \in S
    OBVIOUS
  <1>2. QED
    BY <1>1

LEMMA Appended ==
  ASSUME NEW f, f = [i \in 1 .. Len(f) |-> f[i]], Len(f) \in Nat,
         NEW g, g = [i \in 1 .. Len(g) |-> g[i]], Len(g) = Len(f) + 1,
         \A i \in 1 .. Len(f) : g[i] = f[i]
  PROVE  g = Append(f, g[Len(g)])
  <1> DEFINE S == {g[i] : i \in 1 .. Len(g)}
  <1>1. \A i \in 1 .. Len(g) : g[i] \in S
    OBVIOUS
  <1> HIDE DEF S
  <1>2. \A i \in 1 .. Len(f) : f[i] \in S
    BY <1>1
  <1>3. f \in [1 .. Len(f) -> S] /\ g \in [1 .. Len(g) -> S]
    BY <1>1, <1>2
  <1>4. f \in Seq(S) /\ g \in Seq(S)
    BY <1>3
  <1>5. QED
    BY <1>4, OneMore
-----------------------------------------------------------------------------
(***************************************************************************)
(* The invariant is inductive.                                             *)
(***************************************************************************)

LEMMA EditStep == ReferenceInv /\ EditInv /\ [Next]_vars => EditInv'
  <1> SUFFICES ASSUME ReferenceInv, EditInv, [Next]_vars, NEW t \in Sessions,
                      cmd'[t].op = "edit", prq'[t] # 0
               PROVE  \E r \in prs' : r.id = prq'[t] /\ r.user = cmd'[t].key
    BY DEF EditInv
  <1>0. TypeOK /\ Routed(cmd[t].op, pc[t]) /\ \A r \in prs : Stays(r)
    BY TablesGrow DEF ReferenceInv, RequestInv, LogInv, RouteInv
  <1>1. CASE cmd'[t] = cmd[t] /\ prq'[t] = prq[t]
    BY <1>0, <1>1 DEF EditInv, Stays
  <1>2. CASE Ends(t)
    BY <1>2 DEF Ends
  <1>3. CASE Start(t)
    BY <1>3 DEF Start, At, ReferenceInv, LookupInv
  <1>4. CASE Lookup(t)
    BY <1>0, <1>4 DEF Lookup, TypeOK, tables
  <1>5. CASE Resolve(t) \/ WriteNew(t)
    BY <1>0, <1>5 DEF Resolve, WriteNew, Begin, At, Routed
  <1>6. CASE \/ FindUser(t) \/ AddUser(t) \/ LookupMisses(t) \/ ReadClock(t) \/ WriteAppend(t)
             \/ WriteComment(t) \/ WriteName(t) \/ WriteRm(t) \/ Commit(t) \/ Bump(t)
             \/ TouchFails(t) \/ (Touch(t) /\ cmd[t].op = "push")
    BY <1>1, <1>6 DEF FindUser, AddUser, LookupMisses, ReadClock, WriteAppend, WriteComment,
                      WriteName, WriteRm, Begin, Commit, Bump, TouchFails, Touch, local
  <1>7. CASE (Touch(t) /\ cmd[t].op # "push") \/ Summary(t) \/ Read(t) \/ Fail(t)
    <2>1. Ends(t)
      BY <1>0, <1>7, CloseEnds DEF Touch, Summary, Read, Fail, Reply
    <2>2. QED
      BY <1>2, <2>1
  <1>8. QED
    BY <1>0, <1>1, <1>2, <1>3, <1>4, <1>5, <1>6, <1>7, Moves DEF Step, Keeps

LEMMA EntryStep == ReferenceInv /\ EditInv /\ EntryInv /\ [Next]_vars => EntryInv'
  <1> SUFFICES ASSUME ReferenceInv, EditInv, EntryInv, [Next]_vars,
                      NEW t \in Sessions, tx'.owner = t
               PROVE  /\ tx'.seq.ev = seq'.ev + 1
                      /\ \E e \in tx'.events :
                           /\ tx'.events = {e} /\ e.id = seq'.ev + 1 /\ e.user = cmd'[t].key
                           /\ e.kind \notin {"pr_created", "pr_name_changed"} => tx'.prs = {}
                           /\ e.kind = "pr_name_changed" =>
                                \E r \in prs', n \in Names :
                                  r.id = e.pr /\ r.user = e.user /\ tx'.prs = {Renamed(r, n)}
    BY DEF EntryInv, Renamed
  <1>0. /\ LogInv /\ TypeOK /\ SessionInv /\ IdInv /\ PrIdInv /\ NoTx.owner # t
    BY NoTxType, SessionAssumption DEF ReferenceInv, RequestInv, LogInv
  <1>1. CASE tx' = tx
    <2>1. tx.owner = t
      BY <1>1
    <2>2. ~Commit(t)
      BY <1>0, <1>1, <2>1 DEF Commit
    <2>3. UNCHANGED <<prs, seq>> /\ Keeps(t)
      BY <1>0, <1>1, <2>1, <2>2, HolderAlone DEF tables
    <2>4. QED
      BY <1>1, <2>1, <2>3 DEF EntryInv, Keeps
  <1>2. CASE WriteNew(t)
    <2>1. /\ cmd' = cmd /\ seq' = seq
          /\ tx'.events = Event(t, "pr_created", seq.pr + 1, NextPs)
          /\ tx'.seq = Ids(seq.pr + 1, NextPs)
      BY <1>2 DEF WriteNew, Begin, tables
    <2>2. QED
      BY <2>1 DEF Event, Ids
  <1>3. CASE WriteAppend(t)
    <2>1. cmd[t].op = "push" /\ cmd[t] \in Commands
      BY <1>0, <1>3 DEF WriteAppend, Begin, At, SessionInv
    <2>2. NewPatches(NextPs, cmd[t].patches) # {}
      BY <1>0, <2>1, AllSaved
    <2>3. /\ cmd' = cmd /\ seq' = seq /\ tx'.prs = {}
          /\ tx'.events = Event(t, "pr_patchset_added", prq[t], NextPs)
          /\ tx'.seq = Ids(seq.pr, NextPs)
      BY <1>3, <2>2 DEF WriteAppend, Begin, tables
    <2>4. QED
      BY <2>3 DEF Event, Ids
  <1>4. CASE WriteComment(t) \/ WriteRm(t)
    <2>1. /\ cmd' = cmd /\ seq' = seq /\ tx'.prs = {} /\ tx'.seq = Ids(seq.pr, seq.ps)
          /\ \/ tx'.events = Event(t, "pr_commented", prq[t], 0)
             \/ tx'.events = Event(t, "pr_patchset_deleted", prq[t], pst[t])
      BY <1>4 DEF WriteComment, WriteRm, Begin, Change, tables
    <2>2. CASE tx'.events = Event(t, "pr_commented", prq[t], 0)
      BY <2>1, <2>2 DEF Event, Ids
    <2>3. CASE tx'.events = Event(t, "pr_patchset_deleted", prq[t], pst[t])
      BY <2>1, <2>3 DEF Event, Ids
    <2>4. QED
      BY <2>1, <2>2, <2>3
  <1>5. CASE WriteName(t)
    <2>1. /\ cmd' = cmd /\ seq' = seq /\ prs' = prs /\ tx'.seq = Ids(seq.pr, seq.ps)
          /\ tx'.events = Event(t, "pr_name_changed", prq[t], 0)
          /\ tx'.prs = {Renamed(r, cmd[t].name) : r \in {q \in prs : q.id = prq[t]}}
          /\ cmd[t].op = "edit" /\ pc[t] = "write"
      BY <1>5 DEF WriteName, Begin, Change, At, tables
    <2>2. cmd[t].name \in Names
      BY <1>0, <2>1, CommandType DEF SessionInv
    <2>3. PICK r \in prs : r.id = prq[t] /\ r.user = cmd[t].key
      BY <2>1 DEF EditInv, ReferenceInv, LookupInv
    <2>4. {q \in prs : q.id = prq[t]} = {r}
      BY <1>0, <2>3 DEF PrIdInv
    <2>5. tx'.prs = {Renamed(r, cmd[t].name)}
      BY <2>1, <2>4
    <2>6. QED
      BY <2>1, <2>2, <2>3, <2>5 DEF Event, Ids
  <1>6. ASSUME NEW s \in Sessions,
               \/ WriteNew(s) \/ WriteAppend(s) \/ WriteComment(s) \/ WriteName(s) \/ WriteRm(s)
        PROVE  s = t
    BY <1>6 DEF WriteNew, WriteAppend, WriteComment, WriteName, WriteRm, Begin, Change
  <1>7. QED
    BY <1>0, <1>1, <1>2, <1>3, <1>4, <1>5, <1>6, Openers

\* The event of a commit is later than all there are.
LEMMA CommitLogsLast ==
  ASSUME BookInv, NEW s \in Sessions, Commit(s)
  PROVE  \E e \in tx.events :
           /\ tx.events = {e} /\ events' = events \cup {e} /\ e.id = seq.ev + 1
           /\ seq'.ev = seq.ev + 1 /\ e \notin events
           /\ \A f \in events : f.id \in Nat /\ f.id < e.id
  <1>1. tx.owner = s /\ events' = events \cup tx.events /\ seq' = tx.seq /\ seq.ev \in Nat
    BY DEF Commit, At, BookInv, ReferenceInv, RequestInv, LogInv, SessionInv, TypeOK
  <1>2. PICK e \in tx.events : tx.events = {e} /\ e.id = seq.ev + 1
    BY <1>1 DEF BookInv, EntryInv
  <1>3. \A f \in events : f.id \in Nat /\ f.id < e.id
    BY <1>1, <1>2 DEF BookInv, EventIdInv
  <1>4. QED
    BY <1>1, <1>2, <1>3 DEF BookInv, EntryInv

LEMMA EventIdStep == BookInv /\ [Next]_vars => EventIdInv'
  <1>1. ASSUME BookInv, NEW s \in Sessions, Commit(s)
        PROVE  EventIdInv'
    <2>1. seq.ev \in Nat /\ EventIdInv
      BY <1>1 DEF BookInv, ReferenceInv, RequestInv, LogInv, TypeOK
    <2>2. QED
      BY <1>1, <2>1, CommitLogsLast DEF EventIdInv
  <1>2. QED
    BY <1>1, Writers DEF Touch, AddUser, tables, BookInv, EventIdInv

\* No event is about a patch request or a patchset whose number is not given out.
LEMMA NoEventAhead ==
  ASSUME ReferenceInv
  PROVE  /\ seq.pr \in Nat /\ seq.ps \in Nat
         /\ Titles(events, seq.pr + 1) = {}
         /\ Origins(events, seq.ps + 1) = {}
         /\ Removals(events, seq.ps + 1) = {}
  <1>1. seq.pr \in Nat /\ seq.ps \in Nat
    BY DEF ReferenceInv, RequestInv, LogInv, TypeOK
  <1>2. \A e \in events : e.pr \in 1 .. seq.pr /\ e.ps \in 0 .. seq.ps
    BY DEF ReferenceInv, RequestInv, LogInv, IdInv, PrIdInv, NoDanglingRows
  <1>3. QED
    BY <1>1, <1>2 DEF Titles, Origins, Removals

\* The transactions, told apart by the event they log.
LEMMA CommitKinds ==
  ASSUME BookInv, NEW s \in Sessions, Commit(s), NEW e, tx.events = {e}
  PROVE  /\ e.kind = "pr_created" => TxAdds /\ TxCreates
         /\ e.kind = "pr_patchset_added" => TxAdds /\ TxRewrites /\ tx.prs = {}
         /\ e.kind = "pr_patchset_deleted" => TxRemoves /\ TxRewrites /\ tx.prs = {}
         /\ e.kind \in {"pr_commented", "pr_name_changed"} => TxSpares /\ TxRewrites
         /\ e.kind = "pr_commented" => tx.prs = {}
         /\ e.kind \in Kinds /\ e.user \in Keys
  <1>1. /\ tx.owner = s /\ s # NoSession /\ tx \in Delta
        /\ TxAdds \/ TxRemoves \/ TxSpares
        /\ TxCreates \/ TxRewrites
    BY SessionAssumption
    DEF Commit, At, BookInv, ReferenceInv, RequestInv, LogInv, SessionInv, TxInv, TypeOK
  <1>2. e.kind \in Kinds /\ e.user \in Keys
    BY <1>1 DEF Delta, EventRow
  <1>3. /\ TxAdds => IsOrigin(e)
        /\ TxRemoves => IsRemoval(e)
        /\ TxSpares => ~IsOrigin(e) /\ ~IsRemoval(e)
        /\ TxCreates => e.kind = "pr_created"
        /\ TxRewrites => e.kind # "pr_created"
    BY DEF TxAdds, TxRemoves, TxSpares, TxCreates, TxRewrites
  <1>4. e.kind \notin {"pr_created", "pr_name_changed"} => tx.prs = {}
    BY <1>1 DEF BookInv, EntryInv
  <1>5. QED
    BY <1>1, <1>2, <1>3, <1>4 DEF IsOrigin, IsRemoval

LEMMA ReadableStep == BookInv /\ [Next]_vars => ReadableInv'
  <1>1. ASSUME BookInv, UNCHANGED <<events, seq>>
        PROVE  ReadableInv'
    BY <1>1 DEF BookInv, ReadableInv, Titles, Removals, IsRemoval
  <1>2. ASSUME BookInv, NEW s \in Sessions, Commit(s)
        PROVE  ReadableInv'
    <2>0. PICK e \in tx.events :
            /\ tx.events = {e} /\ events' = events \cup {e} /\ e.id = seq.ev + 1
            /\ \A f \in events : f.id \in Nat /\ f.id < e.id
      BY <1>2, CommitLogsLast
    <2>1. /\ seq' = tx.seq /\ e.id \in Nat /\ ReferenceInv /\ ReadableInv
          /\ seq.pr \in Nat /\ seq.ps \in Nat
          /\ tx.owner = s /\ s # NoSession
      BY <1>2, SessionAssumption
      DEF Commit, At, BookInv, ReferenceInv, RequestInv, LogInv, SessionInv, TypeOK, Delta, EventRow
    <2>2. ASSUME NEW p \in 1 .. seq'.pr
          PROVE  \E n \in Titles(events', p) : \A f \in Titles(events', p) : f.id <= n.id
      <3>1. CASE e \in Titles(events', p)
        BY <2>0, <2>1, <3>1 DEF Titles
      <3>2. CASE e \notin Titles(events', p)
        <4>1. Titles(events', p) = Titles(events, p)
          BY <2>0, <3>2 DEF Titles
        <4>2. p \in 1 .. seq.pr
          <5>1. TxCreates => (p = e.pr /\ e.kind = "pr_created") \/ p \in 1 .. seq.pr
            BY <2>0, <2>1 DEF TxCreates
          <5>2. TxRewrites => p \in 1 .. seq.pr
            BY <2>1 DEF TxRewrites
          <5>3. e \in events'
            BY <2>0
          <5>4. QED
            BY <2>1, <3>2, <5>1, <5>2, <5>3 DEF ReferenceInv, RequestInv, Titles
        <4>3. QED
          BY <2>1, <4>1, <4>2 DEF ReadableInv
      <3>3. QED
        BY <3>1, <3>2
    <2>3. ASSUME NEW i \in 1 .. seq'.ps, Removals(events', i) # {}
          PROVE  \E n \in Removals(events', i) : \A f \in Removals(events', i) : n.id <= f.id
      <3>1. CASE Removals(events, i) = {}
        <4>1. Removals(events', i) = {e}
          BY <2>0, <2>3, <3>1 DEF Removals
        <4>2. QED
          BY <2>1, <4>1
      <3>2. CASE Removals(events, i) # {}
        <4>1. i \in 1 .. seq.ps
          BY <2>1, <3>2 DEF ReferenceInv, RequestInv, LogInv, IdInv, Removals
        <4>2. PICK n \in Removals(events, i) : \A f \in Removals(events, i) : n.id <= f.id
          BY <2>1, <3>2, <4>1 DEF ReadableInv
        <4>3. n \in Removals(events', i) /\ \A f \in Removals(events', i) : f \in Removals(events, i) \/ f = e
          BY <2>0 DEF Removals
        <4>4. n.id <= e.id
          <5>1. n \in events
            BY DEF Removals
          <5>2. n.id \in Nat /\ n.id < e.id /\ e.id \in Nat
            BY <2>0, <2>1, <5>1
          <5>3. QED
            BY <5>2
        <4>5. QED
          BY <4>2, <4>3, <4>4
      <3>3. QED
        BY <3>1, <3>2
    <2>4. QED
      BY <2>2, <2>3 DEF ReadableInv
  <1>3. QED
    BY <1>1, <1>2, Writers DEF Touch, AddUser, tables

LEMMA BookStep == BookInv /\ [Next]_vars => BookInv'
  BY ReferenceStep, RemovalStep, EventIdStep, ReadableStep, EditStep, EntryStep
  DEF BookInv
-----------------------------------------------------------------------------
(***************************************************************************)
(* Each commit is one step of the book.                                    *)
(***************************************************************************)

LEMMA Lengths ==
  ASSUME BookInv, BookInv'
  PROVE  /\ seq.pr \in Nat /\ seq'.pr \in Nat /\ seq.ps \in Nat /\ seq'.ps \in Nat
         /\ Len(RequestBook) = seq.pr /\ DOMAIN RequestBook = 1 .. seq.pr
         /\ Len(RequestBook') = seq'.pr /\ DOMAIN RequestBook' = 1 .. seq'.pr
         /\ Len(SubmissionBook) = seq.ps /\ DOMAIN SubmissionBook = 1 .. seq.ps
         /\ Len(SubmissionBook') = seq'.ps /\ DOMAIN SubmissionBook' = 1 .. seq'.ps
  <1>1. seq.pr \in Nat /\ seq'.pr \in Nat /\ seq.ps \in Nat /\ seq'.ps \in Nat
    BY DEF BookInv, ReferenceInv, RequestInv, LogInv, TypeOK
  <1>2. /\ RequestBook = [p \in 1 .. seq.pr |-> RequestBook[p]]
        /\ RequestBook' = [p \in 1 .. seq'.pr |-> RequestBook'[p]]
        /\ SubmissionBook = [p \in 1 .. seq.ps |-> SubmissionBook[p]]
        /\ SubmissionBook' = [p \in 1 .. seq'.ps |-> SubmissionBook'[p]]
    BY ReadOff, ReadOffNext
  <1>3. /\ Len(RequestBook) = seq.pr /\ DOMAIN RequestBook = 1 .. seq.pr
    BY <1>1, <1>2, LengthOf
  <1>4. /\ Len(RequestBook') = seq'.pr /\ DOMAIN RequestBook' = 1 .. seq'.pr
    BY <1>1, <1>2, LengthOf
  <1>5. Len(SubmissionBook) = seq.ps /\ DOMAIN SubmissionBook = 1 .. seq.ps
    BY <1>1, <1>2, LengthOf
  <1>6. Len(SubmissionBook') = seq'.ps /\ DOMAIN SubmissionBook' = 1 .. seq'.ps
    BY <1>1, <1>2, LengthOf
  <1>7. QED
    BY <1>1, <1>3, <1>4, <1>5, <1>6

LEMMA RequestsSame ==
  ASSUME seq'.pr = seq.pr,
         \A p \in 1 .. seq.pr : RequestEntry(prs', events', p) = RequestEntry(prs, events, p)
  PROVE  RequestBook' = RequestBook
  BY ReadOff, ReadOffNext

LEMMA SubmissionsSame ==
  ASSUME seq'.ps = seq.ps,
         \A i \in 1 .. seq.ps : SubmissionEntry(patchsets', events', patches', i)
                                  = SubmissionEntry(patchsets, events, patches, i)
  PROVE  SubmissionBook' = SubmissionBook
  BY ReadOff, ReadOffNext

\* The entry of a patch request is told by its row.
LEMMA RequestEntryIs ==
  ASSUME NEW rows, NEW log, NEW r \in rows, \A q \in rows : q.id = r.id => q = r
  PROVE  RequestEntry(rows, log, r.id) =
           [target |-> r.target, by |-> r.user, name |-> r.name,
            namedBy |-> Newest(Titles(log, r.id)).user]
  BY RowIs DEF RequestEntry

\* It is the same before and after a step that leaves the row's target, user and
\* title alone and logs no title.
LEMMA RequestKept ==
  ASSUME PrIdInv, PrIdInv', NEW r \in prs, NEW q \in prs', q.id = r.id,
         q.target = r.target, q.user = r.user, q.name = r.name,
         Titles(events', r.id) = Titles(events, r.id)
  PROVE  RequestEntry(prs', events', r.id) = RequestEntry(prs, events, r.id)
  <1>1. /\ \A x \in prs : x.id = r.id => x = r
        /\ \A x \in prs' : x.id = q.id => x = q
    BY DEF PrIdInv
  <1>2. RequestEntry(prs, events, r.id) =
          [target |-> r.target, by |-> r.user, name |-> r.name,
           namedBy |-> Newest(Titles(events, r.id)).user]
    BY <1>1, RequestEntryIs
  <1>3. RequestEntry(prs', events', q.id) =
          [target |-> q.target, by |-> q.user, name |-> q.name,
           namedBy |-> Newest(Titles(events', q.id)).user]
    BY <1>1, RequestEntryIs
  <1>4. QED
    BY <1>2, <1>3

\* A commit changes the entry of a patchset only by its first removal.
LEMMA SubmissionKept ==
  ASSUME BookInv, [Next]_vars, NEW s \in Sessions, Commit(s), NEW e, tx.events = {e},
         NEW i \in 1 .. seq.ps,
         IsRemoval(e) /\ e.ps = i => \A d \in patchsets : d.id # i
  PROVE  SubmissionEntry(patchsets', events', patches', i)
           = SubmissionEntry(patchsets, events, patches, i)
  <1>0. /\ LogInv /\ seq.ps \in Nat /\ tx.owner = s /\ s # NoSession
        /\ events' = events \cup {e}
        /\ patchsets' = {r \in patchsets : r.id \notin tx.del} \cup tx.patchsets
    BY SessionAssumption
    DEF Commit, At, BookInv, ReferenceInv, RequestInv, LogInv, SessionInv, TypeOK
  <1>1. {q \in patches' : q.ps = i} = {q \in patches : q.ps = i}
    BY <1>0, GivenOutStays
  <1>2. /\ TxAdds => IsOrigin(e) /\ e.ps = seq.ps + 1 /\ tx.del = {}
                     /\ \A d \in tx.patchsets : d.id = seq.ps + 1
        /\ TxRemoves => IsRemoval(e) /\ tx.del = {e.ps} /\ tx.patchsets = {}
        /\ TxSpares => ~IsOrigin(e) /\ ~IsRemoval(e) /\ tx.del = {} /\ tx.patchsets = {}
        /\ TxAdds \/ TxRemoves \/ TxSpares
        /\ IsRemoval(e) => ~IsOrigin(e)
    BY <1>0 DEF LogInv, TxInv, TxAdds, TxRemoves, TxSpares, IsOrigin, IsRemoval
  <1>3. Origins(events', i) = Origins(events, i)
    BY <1>0, <1>2 DEF Origins
  <1>4. {d \in patchsets' : d.id = i} = {d \in patchsets : d.id = i}
    BY <1>0, <1>2
  <1>5. CASE Removals(events', i) = Removals(events, i)
    BY <1>1, <1>3, <1>4, <1>5 DEF SubmissionEntry
  <1>6. CASE Removals(events', i) # Removals(events, i)
    <2>1. /\ IsRemoval(e) /\ e.ps = i
          /\ \A f : f \in Removals(events', i) <=> f \in Removals(events, i) \/ f = e
      BY <1>0, <1>6 DEF Removals
    <2>2. Removals(events, i) # {}
      BY <1>0, <2>1 DEF LogInv, RemovalLogged, Removals
    <2>3. PICK n \in Removals(events, i) : \A f \in Removals(events, i) : n.id <= f.id
      BY <2>2 DEF BookInv, ReadableInv
    <2>4. /\ \A f \in events : f.id \in Nat /\ f.id < e.id
          /\ e.id \in Nat
          /\ \A f, g \in events : f.id = g.id => f = g
      BY <1>0, CommitLogsLast
      DEF BookInv, EventIdInv, LogInv, TypeOK, Delta, EventRow
    <2>5. /\ n \in events /\ n.id < e.id
          /\ \A f \in Removals(events, i) : f \in events /\ f.id \in Nat
      BY <2>4 DEF Removals
    <2>6. First(Removals(events, i)) = n
      BY <2>3, <2>4, <2>5, FirstIs
    <2>7. /\ n \in Removals(events', i)
          /\ \A f \in Removals(events', i) : f.id \in Nat
          /\ \A f \in Removals(events', i) : n.id <= f.id
          /\ \A f \in Removals(events', i) : f.id = n.id => f = n
      <3>1. n.id <= e.id /\ n.id # e.id
        BY <2>4, <2>5
      <3>2. QED
        BY <2>1, <2>3, <2>4, <2>5, <3>1
    <2>8. First(Removals(events', i)) = n
      BY <2>7, FirstIs
    <2>9. QED
      BY <1>1, <1>3, <1>4, <2>6, <2>8 DEF SubmissionEntry
  <1>7. QED
    BY <1>5, <1>6

\* What a commit does to the tables, with the event it logs.
LEMMA CommitFacts ==
  ASSUME BookInv, NEW s \in Sessions, Commit(s), NEW e, tx.events = {e}
  PROVE  /\ tx.owner = s /\ s # NoSession /\ seq' = tx.seq
         /\ prs' = {r \in prs : \A n \in tx.prs : n.id # r.id} \cup tx.prs
         /\ patchsets' = {r \in patchsets : r.id \notin tx.del} \cup tx.patchsets
         /\ patches' = patches \cup tx.patches /\ events' = events \cup {e}
         /\ e.id \in Nat /\ e.user = cmd[s].key
         /\ \A f \in events : f.id \in Nat /\ f.id < e.id
  <1>1. tx.owner = s /\ s # NoSession /\ tx \in Delta
    BY SessionAssumption
    DEF Commit, At, BookInv, ReferenceInv, RequestInv, LogInv, SessionInv, TypeOK
  <1>2. e.id \in Nat
    BY <1>1 DEF Delta, EventRow
  <1>3. e.user = cmd[s].key
    BY <1>1 DEF BookInv, EntryInv
  <1>4. QED
    BY <1>1, <1>2, <1>3, CommitLogsLast DEF Commit

\* Committing a push or an issue enters a patchset.
LEMMA EnteredByCommit ==
  ASSUME BookInv, BookInv', [Next]_vars, NEW s \in Sessions, Commit(s),
         NEW e, tx.events = {e}, TxAdds
  PROVE  Book!Entered(e.user, e.pr)
  <1> DEFINE i == seq.ps + 1
  <1>1. /\ seq'.ps = i /\ seq.ps \in Nat /\ IsOrigin(e) /\ ~IsRemoval(e) /\ e.ps = i
        /\ \E d \in tx.patchsets : d.id = i
    BY CommitFacts, NoEventAhead DEF TxAdds, IsOrigin, IsRemoval, BookInv
  <1>2. \A j \in 1 .. seq.ps : SubmissionBook'[j] = SubmissionBook[j]
    BY <1>1, SubmissionKept, ReadOff, ReadOffNext
  <1>3. First(Origins(events', i)) = e
    <2>1. Origins(events', i) = {e}
      BY <1>1, CommitFacts, NoEventAhead DEF Origins, BookInv
    <2>2. e.id \in Nat
      BY CommitFacts
    <2>3. QED
      BY <2>1, <2>2, OfOne
  <1>4. {d \in patchsets' : d.id = i} # {}
    BY <1>1, CommitFacts
  <1>5. SubmissionBook'[i] = SubmissionEntry(patchsets', events', patches', i)
    BY <1>1, ReadOffNext
  <1>6. /\ SubmissionBook'[i].pr = e.pr /\ SubmissionBook'[i].by = e.user
        /\ SubmissionBook'[i].withdrawnBy = NoSession
    BY <1>3, <1>4, <1>5 DEF SubmissionEntry
  <1>7. QED
    BY <1>1, <1>2, <1>6, Lengths DEF Book!Entered

LEMMA CreatedByCommit ==
  ASSUME BookInv, BookInv', [Next]_vars, NEW s \in Sessions, Commit(s),
         NEW e, tx.events = {e}, e.kind = "pr_created"
  PROVE  \E k \in Keys, t \in Targets, n \in Names : Book!Create(k, t, n)
  <1> DEFINE p == seq.pr + 1
  <1>1. TxAdds /\ TxCreates /\ ReferenceInv /\ PrIdInv /\ PrIdInv' /\ seq.pr \in Nat
    BY CommitKinds, Lengths DEF BookInv, ReferenceInv, RequestInv
  <1>2. PICK r \in tx.prs : /\ tx.prs = {r} /\ r.id = p /\ e.pr = p /\ e.user = r.user
                            /\ \A q \in prs : q.target # r.target
    BY <1>1 DEF TxCreates
  <1>3. /\ r.user \in Keys /\ r.target \in Targets /\ r.name \in Names /\ seq'.pr = p
        /\ r \in prs' /\ events' = events \cup {e}
        /\ \A q \in prs : q \in prs' /\ q.id \in 1 .. seq.pr
    BY <1>1, <1>2, CommitFacts
    DEF TxCreates, PrIdInv, ReferenceInv, RequestInv, LogInv, TypeOK, Delta, PrRow
  <1>4. ASSUME NEW j \in 1 .. seq.pr
        PROVE  RequestBook'[j] = RequestBook[j] /\ RequestBook[j].target # r.target
    <2>1. PICK q \in prs : q.id = j
      BY <1>1 DEF ReferenceInv, NoRequestLost
    <2>2. Titles(events', j) = Titles(events, j)
      BY <1>1, <1>2, <1>3 DEF Titles
    <2>3. RequestEntry(prs', events', j) = RequestEntry(prs, events, j)
      BY <1>1, <1>3, <2>1, <2>2, RequestKept
    <2>4. RequestEntry(prs, events, q.id) =
            [target |-> q.target, by |-> q.user, name |-> q.name,
             namedBy |-> Newest(Titles(events, q.id)).user]
      BY <1>1, RequestEntryIs DEF PrIdInv
    <2>5. j \in 1 .. seq'.pr
      BY <1>1, <1>3
    <2>6. QED
      BY <1>2, <2>1, <2>3, <2>4, <2>5, ReadOff, ReadOffNext
  <1>5. RequestBook'[p] = [target |-> r.target, by |-> r.user, name |-> r.name,
                           namedBy |-> r.user]
    <2>1. Titles(events', p) = {e}
      BY <1>1, <1>2, <1>3, NoEventAhead DEF Titles
    <2>2. Newest(Titles(events', p)) = e
      <3>1. e.id \in Nat
        BY CommitFacts
      <3>2. QED
        BY <2>1, <3>1, OfOne
    <2>3. RequestEntry(prs', events', r.id) =
            [target |-> r.target, by |-> r.user, name |-> r.name,
             namedBy |-> Newest(Titles(events', r.id)).user]
      <3>1. r \in prs' /\ \A q \in prs' : q.id = r.id => q = r
        BY <1>1, <1>3 DEF PrIdInv
      <3>2. QED
        BY <3>1, RequestEntryIs
    <2>4. RequestBook'[p] = RequestEntry(prs', events', r.id)
      <3>1. p \in 1 .. seq'.pr
        BY <1>1, <1>3
      <3>2. RequestBook'[p] = RequestEntry(prs', events', p)
        BY <3>1, ReadOffNext
      <3>3. QED
        BY <1>2, <3>2
    <2>5. Newest(Titles(events', r.id)).user = r.user
      BY <1>2, <2>2
    <2>6. QED
      BY <2>3, <2>4, <2>5
  <1>6. RequestBook' = Append(RequestBook, RequestBook'[p])
    <2>1. Len(RequestBook) = seq.pr /\ Len(RequestBook') = p
      BY <1>3, Lengths
    <2>2. RequestBook = [j \in 1 .. Len(RequestBook) |-> RequestBook[j]]
      BY <2>1, ReadOff
    <2>3. RequestBook' = [j \in 1 .. Len(RequestBook') |-> RequestBook'[j]]
      BY <1>3, <2>1, ReadOffNext
    <2>4. QED
      BY <1>1, <1>4, <2>1, <2>2, <2>3, Appended
  <1>7. Book!Entered(r.user, Len(RequestBook) + 1)
    BY <1>1, <1>2, EnteredByCommit, Lengths
  <1>8. Book!Create(r.user, r.target, r.name)
    BY <1>4, <1>5, <1>6, <1>7, Lengths DEF Book!Create
  <1>9. QED
    BY <1>3, <1>8

\* A commit that writes no row of patch_requests and no title leaves their book.
LEMMA RequestsKeptByCommit ==
  ASSUME BookInv, NEW s \in Sessions, Commit(s), NEW e, tx.events = {e},
         tx.prs = {}, tx.seq.pr = seq.pr, e.kind \notin {"pr_created", "pr_name_changed"}
  PROVE  RequestBook' = RequestBook
  <1>1. seq'.pr = seq.pr /\ prs' = prs /\ events' = events \cup {e}
    BY CommitFacts
  <1>2. \A p : Titles(events', p) = Titles(events, p)
    BY <1>1 DEF Titles
  <1>3. QED
    BY <1>1, <1>2, RequestsSame DEF RequestEntry

LEMMA AddedByCommit ==
  ASSUME BookInv, BookInv', [Next]_vars, NEW s \in Sessions, Commit(s),
         NEW e, tx.events = {e}, e.kind = "pr_patchset_added"
  PROVE  \E k \in Keys, p \in DOMAIN RequestBook : Book!Add(k, p)
  <1>1. TxAdds /\ TxRewrites /\ tx.prs = {} /\ e.user \in Keys /\ tx.seq.pr = seq.pr
    BY CommitKinds DEF TxRewrites
  <1>2. RequestBook' = RequestBook
    BY <1>1, RequestsKeptByCommit
  <1>3. Book!Entered(e.user, e.pr)
    BY <1>1, EnteredByCommit
  <1>4. e.pr \in 1 .. seq'.pr
    <2>1. e \in events' /\ NoDanglingRows' /\ PrIdInv'
      BY CommitFacts DEF BookInv, ReferenceInv, RequestInv
    <2>2. QED
      BY <2>1 DEF NoDanglingRows, PrIdInv
  <1>5. e.pr \in DOMAIN RequestBook
    BY <1>2, <1>4, Lengths
  <1>6. QED
    BY <1>1, <1>2, <1>3, <1>5 DEF Book!Add

\* What the book writes on an entry later.
LEMMA TitleWritten ==
  ASSUME NEW n, NEW x,
         x = [target |-> x.target, by |-> x.by, name |-> x.name, namedBy |-> x.namedBy]
  PROVE  [x EXCEPT !.name = n, !.namedBy = x.by]
           = [target |-> x.target, by |-> x.by, name |-> n, namedBy |-> x.by]
  <1> DEFINE y == [x EXCEPT !.name = n]
  <1>1. y = [target |-> x.target, by |-> x.by, name |-> n, namedBy |-> x.namedBy]
    OBVIOUS
  <1>2. [x EXCEPT !.name = n, !.namedBy = x.by] = [y EXCEPT !.namedBy = x.by]
    OBVIOUS
  <1> HIDE DEF y
  <1>3. [y EXCEPT !.namedBy = x.by]
          = [target |-> x.target, by |-> x.by, name |-> n, namedBy |-> x.by]
    BY <1>1
  <1>4. QED
    BY <1>2, <1>3

LEMMA WithdrawalWritten ==
  ASSUME NEW a, NEW b, NEW c, NEW d, NEW x,
         x = [pr |-> a, by |-> b, patches |-> c, withdrawnBy |-> d]
  PROVE  [x EXCEPT !.withdrawnBy = x.by] = [pr |-> a, by |-> b, patches |-> c, withdrawnBy |-> b]
  OBVIOUS

\* A second `rm` of a patchset that is gone already changes nothing.
LEMMA WithdrawnByCommit ==
  ASSUME BookInv, BookInv', [Next]_vars, NEW s \in Sessions, Commit(s),
         NEW e, tx.events = {e}, e.kind = "pr_patchset_deleted"
  PROVE  \/ UNCHANGED <<RequestBook, SubmissionBook>>
         \/ \E i \in DOMAIN SubmissionBook : Book!Withdraw(i)
  <1> DEFINE i == e.ps
  <1>1. /\ tx.prs = {} /\ tx.seq.pr = seq.pr /\ tx.seq.ps = seq.ps
        /\ tx.del = {i} /\ tx.patchsets = {} /\ IsRemoval(e) /\ ~IsOrigin(e)
        /\ i \in 1 .. seq.ps /\ seq'.ps = seq.ps
    BY CommitKinds, CommitFacts DEF TxRewrites, TxRemoves, IsRemoval, IsOrigin
  <1>2. RequestBook' = RequestBook
    BY <1>1, RequestsKeptByCommit
  <1>3. CASE \A d \in patchsets : d.id # i
    BY <1>1, <1>2, <1>3, SubmissionKept, SubmissionsSame
  <1>4. ASSUME NEW d \in patchsets, d.id = i
        PROVE  Book!Withdraw(i)
    <2>1. LogInv /\ RmInv /\ TxRmInv
      BY DEF BookInv, RemovalInv
    <2>2. e.user = d.user
      <3>1. tx.owner = s /\ e.user = cmd[s].key /\ pc[s] = "commit"
        BY CommitFacts DEF Commit, At
      <3>2. cmd[s].op = "rm" /\ pst[s] = i
        BY <1>1, <2>1, <3>1 DEF TxRmInv
      <3>3. QED
        BY <1>4, <2>1, <3>1, <3>2 DEF RmInv
    <2>3. PICK o \in events : /\ IsOrigin(o) /\ o.ps = i /\ o.user = d.user
                              /\ \A f \in events : IsOrigin(f) /\ f.ps = i => f = o
      BY <1>1, <1>4, <2>1 DEF LogInv, OriginLogged
    <2>4. Origins(events, i) = {o} /\ Origins(events', i) = {o} /\ o.id \in Nat
      BY <1>1, <2>3, CommitFacts DEF Origins
    <2>5. First(Origins(events, i)) = o /\ First(Origins(events', i)) = o
      BY <2>4, OfOne
    <2>6. Removals(events', i) = {e} /\ e.id \in Nat
      BY <1>1, <1>4, <2>1, CommitFacts DEF LogInv, RemovalLogged, Removals
    <2>7. First(Removals(events', i)) = e
      BY <2>6, OfOne
    <2>8. /\ {x \in patchsets : x.id = i} # {} /\ {x \in patchsets' : x.id = i} = {}
          /\ {q \in patches' : q.ps = i} = {q \in patches : q.ps = i}
      BY <1>1, <1>4, <2>1, CommitFacts, GivenOutStays
    <2>9. SubmissionEntry(patchsets, events, patches, i) =
            [pr |-> o.pr, by |-> o.user,
             patches |-> {<<p.pos, p.sha>> : p \in {q \in patches : q.ps = i}},
             withdrawnBy |-> NoSession]
      BY <2>5, <2>8 DEF SubmissionEntry
    <2>10. SubmissionEntry(patchsets', events', patches', i) =
            [pr |-> o.pr, by |-> o.user,
             patches |-> {<<p.pos, p.sha>> : p \in {q \in patches : q.ps = i}},
             withdrawnBy |-> o.user]
      BY <2>2, <2>3, <2>5, <2>7, <2>8 DEF SubmissionEntry
    <2>11. /\ SubmissionBook[i].withdrawnBy = NoSession
           /\ SubmissionBook'[i] =
                [SubmissionBook[i] EXCEPT !.withdrawnBy = SubmissionBook[i].by]
      <3>1. /\ SubmissionBook[i] = SubmissionEntry(patchsets, events, patches, i)
            /\ SubmissionBook'[i] = SubmissionEntry(patchsets', events', patches', i)
        BY <1>1, ReadOff, ReadOffNext
      <3>2. SubmissionBook[i].withdrawnBy = NoSession /\ SubmissionBook[i].by = o.user
        BY <2>9, <3>1
      <3>3. [SubmissionBook[i] EXCEPT !.withdrawnBy = SubmissionBook[i].by] =
              SubmissionEntry(patchsets', events', patches', i)
        <4> DEFINE sent == {<<p.pos, p.sha>> : p \in {q \in patches : q.ps = i}}
                   x == SubmissionBook[i]
        <4>1. x = [pr |-> o.pr, by |-> o.user, patches |-> sent, withdrawnBy |-> NoSession]
          BY <2>9, <3>1
        <4>2. SubmissionEntry(patchsets', events', patches', i) =
                [pr |-> o.pr, by |-> o.user, patches |-> sent, withdrawnBy |-> o.user]
          BY <2>10
        <4> HIDE DEF sent, x
        <4>3. [x EXCEPT !.withdrawnBy = x.by] =
                [pr |-> o.pr, by |-> o.user, patches |-> sent, withdrawnBy |-> o.user]
          BY <4>1, WithdrawalWritten
        <4>4. QED
          BY <4>2, <4>3 DEF x
      <3>4. QED
        BY <3>1, <3>2, <3>3
    <2>12. \A j \in 1 .. seq.ps : j # i => SubmissionBook'[j] = SubmissionBook[j]
      BY <1>1, SubmissionKept, ReadOff, ReadOffNext
    <2>13. SubmissionBook' =
             [SubmissionBook EXCEPT ![i].withdrawnBy = SubmissionBook[i].by]
      <3>1. /\ SubmissionBook = [j \in 1 .. seq.ps |-> SubmissionBook[j]]
            /\ SubmissionBook' = [j \in 1 .. seq.ps |-> SubmissionBook'[j]]
        BY <1>1, ReadOff, ReadOffNext
      <3>2. QED
        BY <1>1, <2>11, <2>12, <3>1
    <2>14. QED
      BY <1>2, <2>11, <2>13 DEF Book!Withdraw
  <1>5. i \in DOMAIN SubmissionBook
    BY <1>1, Lengths
  <1>6. QED
    BY <1>3, <1>4, <1>5

LEMMA RenamedByCommit ==
  ASSUME BookInv, BookInv', [Next]_vars, NEW s \in Sessions, Commit(s),
         NEW e, tx.events = {e}, e.kind = "pr_name_changed"
  PROVE  \E p \in DOMAIN RequestBook, n \in Names : Book!Rename(p, n)
  <1> DEFINE p == e.pr
  <1>1. /\ TxSpares /\ tx.seq.pr = seq.pr /\ tx.seq.ps = seq.ps /\ ~IsRemoval(e)
        /\ PrIdInv /\ PrIdInv' /\ prs \subseteq PrRow /\ prs' \subseteq PrRow
        /\ ReferenceInv /\ ReadableInv
    BY CommitKinds
    DEF TxRewrites, TxSpares, IsRemoval, BookInv, ReferenceInv, RequestInv, LogInv, TypeOK
  <1>2. PICK r \in prs, n \in Names :
          r.id = p /\ r.user = e.user /\ tx.prs = {Renamed(r, n)}
    BY CommitFacts DEF BookInv, EntryInv
  <1>3. /\ Renamed(r, n) = [id |-> r.id, user |-> r.user, target |-> r.target, name |-> n,
                            last |-> r.last]
        /\ p \in 1 .. seq.pr
    BY <1>1, <1>2 DEF PrRow, Renamed, PrIdInv
  <1>4. SubmissionBook' = SubmissionBook
    BY <1>1, CommitFacts, SubmissionKept, SubmissionsSame
  <1>5. /\ seq'.pr = seq.pr /\ events' = events \cup {e} /\ Renamed(r, n) \in prs'
        /\ \A q \in prs : q.id # p => q \in prs'
    BY <1>1, <1>2, <1>3, CommitFacts
  <1>6. ASSUME NEW j \in 1 .. seq.pr, j # p
        PROVE  RequestBook'[j] = RequestBook[j]
    <2>1. PICK q \in prs : q.id = j
      BY <1>1 DEF ReferenceInv, NoRequestLost
    <2>2. Titles(events', j) = Titles(events, j)
      BY <1>5, <1>6 DEF Titles
    <2>3. RequestEntry(prs', events', j) = RequestEntry(prs, events, j)
      BY <1>1, <1>5, <1>6, <2>1, <2>2, RequestKept
    <2>4. QED
      BY <1>5, <2>3, ReadOff, ReadOffNext
  <1>7. Newest(Titles(events', p)) = e
    <2>1. /\ e \in Titles(events', p) /\ e.id \in Nat
          /\ \A f \in Titles(events', p) : f.id \in Nat /\ (f = e \/ f.id < e.id)
      BY <1>5, CommitFacts DEF Titles
    <2>2. /\ \A f \in Titles(events', p) : f.id \in Nat
          /\ \A f \in Titles(events', p) : f.id <= e.id
          /\ \A f \in Titles(events', p) : f.id = e.id => f = e
      BY <2>1
    <2>3. QED
      BY <2>1, <2>2, NewestIs
  <1>8. RequestBook[p] = [target |-> r.target, by |-> r.user, name |-> r.name,
                          namedBy |-> Newest(Titles(events, p)).user]
    <2>1. \A q \in prs : q.id = r.id => q = r
      BY <1>1 DEF PrIdInv
    <2>2. RequestEntry(prs, events, r.id) =
            [target |-> r.target, by |-> r.user, name |-> r.name,
             namedBy |-> Newest(Titles(events, r.id)).user]
      BY <2>1, RequestEntryIs
    <2>3. RequestBook[p] = RequestEntry(prs, events, p)
      BY <1>3, ReadOff
    <2>4. QED
      BY <1>2, <2>2, <2>3
  <1>9. RequestBook'[p] = [target |-> r.target, by |-> r.user, name |-> n,
                           namedBy |-> r.user]
    <2> DEFINE q == Renamed(r, n)
    <2>1. /\ q.id = p /\ q.target = r.target /\ q.user = r.user /\ q.name = n /\ q \in prs'
      BY <1>2, <1>3, <1>5
    <2> HIDE DEF q
    <2>2. \A x \in prs' : x.id = q.id => x = q
      BY <1>1, <2>1 DEF PrIdInv
    <2>3. RequestEntry(prs', events', q.id) =
            [target |-> q.target, by |-> q.user, name |-> q.name,
             namedBy |-> Newest(Titles(events', q.id)).user]
      BY <2>1, <2>2, RequestEntryIs
    <2>4. RequestBook'[p] = RequestEntry(prs', events', p)
      BY <1>3, <1>5, ReadOffNext
    <2>5. QED
      BY <1>2, <1>7, <2>1, <2>3, <2>4
  <1>10. RequestBook' =
           [RequestBook EXCEPT ![p].name = n, ![p].namedBy = RequestBook[p].by]
    <2>1. /\ RequestBook = [j \in 1 .. seq.pr |-> RequestBook[j]]
          /\ RequestBook' = [j \in 1 .. seq.pr |-> RequestBook'[j]]
      BY <1>5, ReadOff, ReadOffNext
    <2>2. RequestBook'[p] =
            [RequestBook[p] EXCEPT !.name = n, !.namedBy = RequestBook[p].by]
      <3> DEFINE x == RequestBook[p]
      <3>1. /\ x = [target |-> x.target, by |-> x.by, name |-> x.name, namedBy |-> x.namedBy]
            /\ x.target = r.target /\ x.by = r.user
        BY <1>8
      <3> HIDE DEF x
      <3>2. [x EXCEPT !.name = n, !.namedBy = x.by]
              = [target |-> x.target, by |-> x.by, name |-> n, namedBy |-> x.by]
        BY <3>1, TitleWritten, Zenon
      <3>3. RequestBook'[p] = [x EXCEPT !.name = n, !.namedBy = x.by]
        BY <1>9, <3>1, <3>2
      <3>4. QED
        BY <3>3 DEF x
    <2>3. QED
      BY <1>3, <1>6, <2>1, <2>2
  <1>11. p \in DOMAIN RequestBook
    BY <1>3, Lengths
  <1>12. QED
    BY <1>4, <1>10, <1>11 DEF Book!Rename

\* The time of the last activity is not in the book.
LEMMA BookTouched ==
  ASSUME BookInv, BookInv', NEW s \in Sessions, Touch(s)
  PROVE  UNCHANGED <<RequestBook, SubmissionBook>>
  <1>1. /\ events' = events /\ seq' = seq /\ patchsets' = patchsets /\ patches' = patches
        /\ prs' = {IF r.id = prq[s] THEN Touched(r, stamp[s]) ELSE r : r \in prs}
        /\ prs \subseteq PrRow /\ stamp[s] \in Nat
        /\ ReferenceInv /\ PrIdInv /\ PrIdInv'
    BY DEF Touch, BookInv, ReferenceInv, RequestInv, LogInv, TypeOK
  <1>2. ASSUME NEW p \in 1 .. seq.pr
        PROVE  RequestEntry(prs', events', p) = RequestEntry(prs, events, p)
    <2>1. PICK r \in prs : r.id = p
      BY <1>1 DEF ReferenceInv, NoRequestLost
    <2> DEFINE q == IF r.id = prq[s] THEN Touched(r, stamp[s]) ELSE r
    <2>2. q \in prs'
      BY <1>1
    <2>3. q.id = p /\ q.target = r.target /\ q.user = r.user /\ q.name = r.name
      <3>1. r \in PrRow /\ stamp[s] \in Nat
        BY <1>1
      <3>2. /\ Touched(r, stamp[s]).id = r.id /\ Touched(r, stamp[s]).user = r.user
            /\ Touched(r, stamp[s]).target = r.target /\ Touched(r, stamp[s]).name = r.name
        BY <3>1, RowTouched
      <3>3. QED
        BY <2>1, <3>2
    <2> HIDE DEF q
    <2>4. QED
      BY <1>1, <2>1, <2>2, <2>3, RequestKept
  <1>3. RequestBook' = RequestBook
    BY <1>1, <1>2, RequestsSame
  <1>4. SubmissionBook' = SubmissionBook
    BY <1>1, SubmissionsSame DEF SubmissionEntry
  <1>5. QED
    BY <1>3, <1>4

LEMMA BookMoves == BookInv /\ BookInv' /\ [Next]_vars => [Book!Next]_(Book!book)
  <1> SUFFICES ASSUME BookInv, BookInv', [Next]_vars
               PROVE  Book!Next \/ UNCHANGED <<RequestBook, SubmissionBook>>
    BY DEF Book!book
  <1>1. ASSUME NEW s \in Sessions, Commit(s)
        PROVE  Book!Next \/ UNCHANGED <<RequestBook, SubmissionBook>>
    <2>1. PICK e \in tx.events : tx.events = {e}
      BY <1>1, CommitLogsLast
    <2>2. CASE e.kind = "pr_created"
      BY <1>1, <2>1, <2>2, CreatedByCommit DEF Book!Next
    <2>3. CASE e.kind = "pr_patchset_added"
      BY <1>1, <2>1, <2>3, AddedByCommit DEF Book!Next
    <2>4. CASE e.kind = "pr_patchset_deleted"
      BY <1>1, <2>1, <2>4, WithdrawnByCommit DEF Book!Next
    <2>5. CASE e.kind = "pr_commented"
      <3>1. /\ tx.prs = {} /\ tx.seq.pr = seq.pr /\ tx.seq.ps = seq.ps
            /\ seq'.ps = seq.ps /\ ~IsRemoval(e)
        BY <1>1, <2>1, <2>5, CommitKinds, CommitFacts DEF TxRewrites, TxSpares, IsRemoval
      <3>2. RequestBook' = RequestBook
        BY <1>1, <2>1, <2>5, <3>1, RequestsKeptByCommit
      <3>3. SubmissionBook' = SubmissionBook
        BY <1>1, <2>1, <3>1, SubmissionKept, SubmissionsSame
      <3>4. QED
        BY <3>2, <3>3
    <2>6. CASE e.kind = "pr_name_changed"
      BY <1>1, <2>1, <2>6, RenamedByCommit DEF Book!Next
    <2>7. e.kind \in Kinds
      BY <1>1, <2>1, CommitKinds
    <2>8. QED
      BY <2>2, <2>3, <2>4, <2>5, <2>6, <2>7 DEF Kinds
  <1>2. CASE \E s \in Sessions : Touch(s)
    BY <1>2, BookTouched
  <1>3. CASE UNCHANGED <<prs, patchsets, patches, events, seq>>
    BY <1>3, ReadOff, ReadOffNext
  <1>4. QED
    BY <1>1, <1>2, <1>3, Writers DEF AddUser, tables

LEMMA BookStarts == Init => BookInv /\ Book!Init
  <1> SUFFICES ASSUME Init
               PROVE  BookInv /\ Book!Init
    OBVIOUS
  <1>1. NoCommand.op = "none" /\ NoTx.owner = NoSession /\ NoTx.del = {}
        /\ NoIds.pr = 0 /\ NoIds.ps = 0 /\ NoIds.ev = 0
    BY DEF NoCommand, NoTx, NoIds
  <1>2. RemovalInv
    BY <1>1, LogInit, SessionAssumption DEF Init, RemovalInv, PatchsetIdInv, RmInv, TxRmInv
  <1>3. EventIdInv /\ ReadableInv /\ EditInv /\ EntryInv
    BY <1>1, SessionAssumption DEF Init, EventIdInv, ReadableInv, EditInv, EntryInv
  <1>4. BookInv
    BY <1>2, <1>3, ReferenceInit DEF BookInv
  <1>5. /\ RequestBook = [p \in 1 .. 0 |-> RequestBook[p]]
        /\ SubmissionBook = [p \in 1 .. 0 |-> SubmissionBook[p]]
    BY <1>1, ReadOff DEF Init
  <1>6. RequestBook = << >> /\ SubmissionBook = << >>
    BY <1>5
  <1>7. QED
    BY <1>4, <1>6 DEF Book!Init

\* However commands interleave, fail and crash, every commit is one entry in a
\* book that is only added to: patch requests and patchsets keep their number,
\* user and patches, and a title is changed and a patchset withdrawn by its
\* creator only, though the check of who that is was made some commits before.
THEOREM StoreIsABook == Spec => RefinesBook
  <1>1. BookInv /\ [Next]_vars => BookInv'
    BY BookStep
  <1>2. QED
    BY <1>1, BookStarts, BookMoves, PTL DEF Spec, RefinesBook, Book!Spec
=============================================================================

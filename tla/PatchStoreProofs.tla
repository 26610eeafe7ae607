-------------------------- MODULE PatchStoreProofs --------------------------
(***************************************************************************)
(* PatchStore, for every number of sessions, users, targets, patches and   *)
(* commands.  First: the event log tells the truth about patchsets.  Then  *)
(* what the tables keep, however sessions interleave: the order of         *)
(* revisions, references between rows that no foreign key enforces, what   *)
(* users were told, and that revisions only shift down.                    *)
(***************************************************************************)
EXTENDS PatchStore, FiniteSetTheorems, TLAPS

\* A busy session's command has the fields of Cmd.
LEMMA CommandType ==
  ASSUME NEW c \in Commands
  PROVE  /\ c \in Cmd /\ c.op \in Ops /\ c.key \in Keys /\ c.target \in Targets
         /\ c.rev \in Nat /\ c.patches \in Seq(Shas) /\ c.name \in Names
  BY CommandAssumption DEF Cmd

\* UPDATE changes one column of a patch request's row.
LEMMA RowRenamed ==
  ASSUME NEW r \in PrRow, NEW n \in Names
  PROVE  /\ Renamed(r, n) \in PrRow
         /\ Renamed(r, n).id = r.id
         /\ Renamed(r, n).user = r.user
         /\ Renamed(r, n).target = r.target
  BY DEF PrRow, Renamed

LEMMA RowTouched ==
  ASSUME NEW r \in PrRow, NEW t \in Nat
  PROVE  /\ Touched(r, t) \in PrRow
         /\ Touched(r, t).id = r.id
         /\ Touched(r, t).user = r.user
         /\ Touched(r, t).target = r.target
         /\ Touched(r, t).name = r.name
  BY DEF PrRow, Touched

\* createPatch inserts rows of patches only.
LEMMA NewPatchesType ==
  ASSUME NEW id \in Nat, NEW shas \in Seq(Shas)
  PROVE  NewPatches(id, shas) \in SUBSET PatchRow
  BY DEF NewPatches, PatchRow

LEMMA NoTxType == NoTx \in Delta /\ NoTx.owner = NoSession
  BY DEF NoTx, NoIds, Delta

LEMMA EventType ==
  ASSUME NEW s \in Sessions, cmd[s] \in Commands, seq.ev \in Nat, now \in Nat,
         NEW kind \in Kinds, NEW p \in Nat, NEW d \in Nat
  PROVE  Event(s, kind, p, d) \in SUBSET EventRow
  BY CommandType DEF Event, EventRow

LEMMA ChangeType ==
  ASSUME TypeOK, NEW s \in Sessions, cmd[s] \in Commands, NEW kind \in Kinds,
         NEW d \in Nat, NEW rows \in SUBSET PrRow, NEW removed \in SUBSET Nat
  PROVE  Change(s, kind, d, rows, removed) \in Delta
  <1>1. Event(s, kind, prq[s], d) \in SUBSET EventRow
    BY EventType DEF TypeOK
  <1>2. Ids(seq.pr, seq.ps) \in [pr : Nat, ps : Nat, ev : Nat]
    BY DEF Ids, TypeOK
  <1>3. QED
    BY <1>1, <1>2 DEF Change, Delta

LEMMA NewPatchsetType ==
  ASSUME NEW s \in Sessions, cmd[s] \in Commands, seq.ps \in Nat, now \in Nat,
         NEW p \in Nat
  PROVE  NewPatchset(s, p) \in SUBSET PsRow
  BY CommandType DEF NewPatchset, NextPs, PsRow

LEMMA StepsType ==
  /\ \A op : FirstStep(op) \in Steps \ {"idle", "commit"}
  /\ \A op : AfterUpsert(op) \in Steps \ {"idle", "commit"}
  /\ \A op : AfterLookup(op) \in Steps \ {"idle", "commit"}
  /\ \A s : AfterCommit(s) \in {"summary", "bump"}
  BY DEF FirstStep, AfterUpsert, AfterLookup, AfterCommit, Steps

\* Closing a session keeps the types of the per-session variables.
LEMMA CloseType ==
  ASSUME TypeOK, NEW s \in Sessions, Close(s)
  PROVE  /\ pc' \in [Sessions -> Steps]
         /\ cmd' \in [Sessions -> Commands \cup {NoCommand}]
         /\ prq' \in [Sessions -> Nat]
         /\ pst' \in [Sessions -> Nat]
         /\ stamp' \in [Sessions -> Nat]
  BY DEF TypeOK, Close, Goto, Steps

LEMMA ReplyType ==
  ASSUME TypeOK, NEW s \in Sessions, cmd[s] \in Commands,
         NEW content \in SUBSET (Nat \X Shas), Reply(s, content)
  PROVE  /\ acked' \subseteq Ack
         /\ Close(s)
  <1>1. /\ cmd[s].op \in Ops /\ cmd[s].key \in Keys /\ cmd[s].target \in Targets
        /\ prq[s] \in Nat /\ pst[s] \in Nat /\ stamp[s] \in Nat
    BY CommandType DEF TypeOK
  <1>2. QED
    BY <1>1 DEF TypeOK, Reply, Ack

LEMMA BeginType ==
  ASSUME TypeOK, NEW s \in Sessions, NEW delta \in Delta, Begin(s, delta),
         prq' \in [Sessions -> Nat], pst' \in [Sessions -> Nat]
  PROVE  TypeOK'
  BY DEF TypeOK, Begin, Goto, Steps, tables

\* Every step keeps the types.
LEMMA TypeStep == TypeOK /\ SessionInv /\ [Next]_vars => TypeOK'
  <1> SUFFICES ASSUME TypeOK, SessionInv, [Next]_vars
               PROVE  TypeOK'
    OBVIOUS
  <1>0. ASSUME NEW s \in Sessions, pc[s] # "idle"
        PROVE  cmd[s] \in Commands
    BY <1>0 DEF SessionInv
  <1>1. CASE Tick
    BY <1>1 DEF Tick, TypeOK, tables, local
  <1>2. CASE Crash
    BY <1>2, NoTxType DEF Crash, TypeOK, tables, Steps
  <1>3. ASSUME NEW s \in Sessions, Start(s)
        PROVE  TypeOK'
    BY <1>3, StepsType DEF Start, At, Goto, TypeOK, tables
  <1>4. ASSUME NEW s \in Sessions, FindUser(s)
        PROVE  TypeOK'
    BY <1>4, StepsType DEF FindUser, At, Goto, TypeOK, tables, local, Steps
  <1>5. ASSUME NEW s \in Sessions, AddUser(s)
        PROVE  TypeOK'
    <2>1. cmd[s].key \in Keys
      BY <1>0, <1>5, CommandType DEF AddUser, At
    <2>2. QED
      BY <1>5, <2>1, StepsType DEF AddUser, At, Goto, TypeOK, local
  <1>6. ASSUME NEW s \in Sessions, Lookup(s)
        PROVE  TypeOK'
    <2>1. prq' \in [Sessions -> Nat]
      BY <1>6 DEF Lookup, TypeOK, PrRow
    <2>2. QED
      BY <1>6, <2>1, StepsType DEF Lookup, At, Goto, TypeOK, tables
  <1>7. ASSUME NEW s \in Sessions, LookupMisses(s)
        PROVE  TypeOK'
    BY <1>7 DEF LookupMisses, At, Goto, TypeOK, tables, local, Steps
  <1>8. ASSUME NEW s \in Sessions, Resolve(s)
        PROVE  TypeOK'
    <2>1. prq' \in [Sessions -> Nat] /\ pst' \in [Sessions -> Nat]
      BY <1>8 DEF Resolve, PatchsetsOf, TypeOK, PrRow, PsRow
    <2>2. QED
      BY <1>8, <2>1 DEF Resolve, At, Goto, TypeOK, tables, Steps
  <1>9. ASSUME NEW s \in Sessions, ReadClock(s)
        PROVE  TypeOK'
    BY <1>9 DEF ReadClock, At, Goto, TypeOK, tables, Steps
  <1>10. ASSUME NEW s \in Sessions, WriteNew(s)
         PROVE  TypeOK'
    <2> DEFINE row == [id |-> seq.pr + 1, user |-> cmd[s].key, target |-> cmd[s].target,
                       name |-> cmd[s].name, last |-> stamp[s]]
               delta == [owner |-> s, prs |-> {row},
                         patchsets |-> NewPatchset(s, seq.pr + 1),
                         patches |-> NewPatches(NextPs, cmd[s].patches),
                         events |-> Event(s, "pr_created", seq.pr + 1, NextPs),
                         del |-> {}, seq |-> Ids(seq.pr + 1, NextPs)]
    <2>1. Begin(s, delta) /\ prq' = [prq EXCEPT ![s] = seq.pr + 1]
                          /\ pst' = [pst EXCEPT ![s] = NextPs]
      BY <1>10 DEF WriteNew
    <2>2. cmd[s] \in Commands
      BY <1>0, <2>1 DEF Begin, At
    <2>3. seq.pr \in Nat /\ seq.ps \in Nat /\ seq.ev \in Nat /\ NextPs \in Nat
          /\ stamp[s] \in Nat /\ now \in Nat
      BY DEF TypeOK, NextPs
    <2>4. row \in PrRow
      BY <2>2, <2>3, CommandType DEF PrRow
    <2>5. NewPatchset(s, seq.pr + 1) \in SUBSET PsRow
      BY <2>2, <2>3, NewPatchsetType
    <2>6. NewPatches(NextPs, cmd[s].patches) \in SUBSET PatchRow
      BY <2>2, <2>3, CommandType, NewPatchesType
    <2>7. Event(s, "pr_created", seq.pr + 1, NextPs) \in SUBSET EventRow
      BY <2>2, <2>3, EventType DEF Kinds
    <2>8. Ids(seq.pr + 1, NextPs) \in [pr : Nat, ps : Nat, ev : Nat]
      BY <2>3 DEF Ids
    <2>9. delta \in Delta
      BY <2>4, <2>5, <2>6, <2>7, <2>8 DEF Delta
    <2>10. prq' \in [Sessions -> Nat] /\ pst' \in [Sessions -> Nat]
      BY <2>1, <2>3 DEF TypeOK
    <2>11. QED
      BY <2>1, <2>9, <2>10, BeginType
  <1>11. ASSUME NEW s \in Sessions, WriteAppend(s)
         PROVE  TypeOK'
    <2> DEFINE saved == NewPatches(NextPs, cmd[s].patches)
               logged == IF saved = {} THEN {}
                         ELSE Event(s, "pr_patchset_added", prq[s], NextPs)
               delta == [owner |-> s, prs |-> {}, patchsets |-> NewPatchset(s, prq[s]),
                         patches |-> saved, events |-> logged, del |-> {},
                         seq |-> Ids(seq.pr, NextPs)]
    <2>1. Begin(s, delta) /\ UNCHANGED prq /\ pst' = [pst EXCEPT ![s] = NextPs]
      BY <1>11 DEF WriteAppend
    <2>2. cmd[s] \in Commands
      BY <1>0, <2>1 DEF Begin, At
    <2>3. seq.ps \in Nat /\ seq.ev \in Nat /\ NextPs \in Nat /\ prq[s] \in Nat /\ now \in Nat
      BY DEF TypeOK, NextPs
    <2>4. NewPatchset(s, prq[s]) \in SUBSET PsRow
      BY <2>2, <2>3, NewPatchsetType
    <2>5. saved \in SUBSET PatchRow
      BY <2>2, <2>3, CommandType, NewPatchesType
    <2>6. Event(s, "pr_patchset_added", prq[s], NextPs) \in SUBSET EventRow
      BY <2>2, <2>3, EventType DEF Kinds
    <2>7. Ids(seq.pr, NextPs) \in [pr : Nat, ps : Nat, ev : Nat]
      BY <2>3 DEF Ids, TypeOK
    <2>8. delta \in Delta
      BY <2>4, <2>5, <2>6, <2>7 DEF Delta
    <2>9. prq' \in [Sessions -> Nat] /\ pst' \in [Sessions -> Nat]
      BY <2>1, <2>3 DEF TypeOK
    <2>10. QED
      BY <2>1, <2>8, <2>9, BeginType
  <1>12. ASSUME NEW s \in Sessions, WriteComment(s)
         PROVE  TypeOK'
    <2>1. Begin(s, Change(s, "pr_commented", 0, {}, {})) /\ UNCHANGED <<prq, pst>>
      BY <1>12 DEF WriteComment
    <2>2. cmd[s] \in Commands
      BY <1>0, <2>1 DEF Begin, At
    <2>3. Change(s, "pr_commented", 0, {}, {}) \in Delta
      BY <2>2, ChangeType DEF Kinds
    <2>4. QED
      BY <2>1, <2>3, BeginType DEF TypeOK
  <1>13. ASSUME NEW s \in Sessions, WriteName(s)
         PROVE  TypeOK'
    <2> DEFINE rows == {Renamed(r, cmd[s].name) : r \in {q \in prs : q.id = prq[s]}}
    <2>1. Begin(s, Change(s, "pr_name_changed", 0, rows, {})) /\ UNCHANGED <<prq, pst>>
      BY <1>13 DEF WriteName
    <2>2. cmd[s] \in Commands
      BY <1>0, <2>1 DEF Begin, At
    <2>3. rows \in SUBSET PrRow
      <3>1. cmd[s].name \in Names
        BY <2>2, CommandType
      <3>2. \A r \in prs : Renamed(r, cmd[s].name) \in PrRow
        BY <3>1, RowRenamed DEF TypeOK
      <3>3. QED
        BY <3>2
    <2>4. Change(s, "pr_name_changed", 0, rows, {}) \in Delta
      BY <2>2, <2>3, ChangeType DEF Kinds
    <2>5. QED
      BY <2>1, <2>4, BeginType DEF TypeOK
  <1>14. ASSUME NEW s \in Sessions, WriteRm(s)
         PROVE  TypeOK'
    <2>1. Begin(s, Change(s, "pr_patchset_deleted", pst[s], {}, {pst[s]}))
          /\ UNCHANGED <<prq, pst>>
      BY <1>14 DEF WriteRm
    <2>2. cmd[s] \in Commands
      BY <1>0, <2>1 DEF Begin, At
    <2>3. pst[s] \in Nat
      BY DEF TypeOK
    <2>4. Change(s, "pr_patchset_deleted", pst[s], {}, {pst[s]}) \in Delta
      BY <2>2, <2>3, ChangeType DEF Kinds
    <2>5. QED
      BY <2>1, <2>4, BeginType DEF TypeOK
  <1>15. ASSUME NEW s \in Sessions, Commit(s)
         PROVE  TypeOK'
    <2>1. /\ tx.prs \in SUBSET PrRow /\ tx.patchsets \in SUBSET PsRow
          /\ tx.patches \in SUBSET PatchRow /\ tx.events \in SUBSET EventRow
          /\ tx.seq \in [pr : Nat, ps : Nat, ev : Nat]
      BY DEF TypeOK, Delta
    <2>2. /\ prs' \subseteq PrRow /\ patchsets' \subseteq PsRow
          /\ patches' \subseteq PatchRow /\ events' \subseteq EventRow
          /\ seq' \in [pr : Nat, ps : Nat, ev : Nat]
      BY <1>15, <2>1 DEF Commit, TypeOK
    <2>3. pc' \in [Sessions -> Steps]
      BY <1>15, StepsType DEF Commit, Goto, TypeOK, Steps
    <2>4. QED
      BY <1>15, <2>2, <2>3, NoTxType DEF Commit, TypeOK, local
  <1>16. ASSUME NEW s \in Sessions, Bump(s)
         PROVE  TypeOK'
    BY <1>16 DEF Bump, At, Goto, TypeOK, tables, Steps
  <1>17. ASSUME NEW s \in Sessions, Touch(s)
         PROVE  TypeOK'
    <2>1. prs' \subseteq PrRow
      <3>1. stamp[s] \in Nat
        BY DEF TypeOK
      <3>2. prs' = {IF r.id = prq[s] THEN Touched(r, stamp[s]) ELSE r : r \in prs}
        BY <1>17 DEF Touch
      <3>3. \A r \in prs : r \in PrRow /\ Touched(r, stamp[s]) \in PrRow
        BY <3>1, RowTouched DEF TypeOK
      <3>4. QED
        BY <3>2, <3>3
    <2>2. cmd[s] \in Commands
      BY <1>0, <1>17 DEF Touch, At
    <2>3. CASE cmd[s].op = "push"
      BY <1>17, <2>1, <2>3 DEF Touch, Goto, TypeOK, local, Steps
    <2>4. CASE cmd[s].op # "push"
      <3>1. Reply(s, {})
        BY <1>17, <2>4 DEF Touch
      <3>2. acked' \subseteq Ack /\ Close(s)
        BY <2>2, <3>1, ReplyType
      <3>3. QED
        BY <1>17, <2>1, <3>2, CloseType DEF Touch, TypeOK
    <2>5. QED
      BY <2>3, <2>4
  <1>18. ASSUME NEW s \in Sessions, TouchFails(s)
         PROVE  TypeOK'
    BY <1>18 DEF TouchFails, Goto, TypeOK, tables, local, Steps
  <1>19. ASSUME NEW s \in Sessions, Summary(s)
         PROVE  TypeOK'
    <2>1. cmd[s] \in Commands
      BY <1>0, <1>19 DEF Summary, At
    <2>2. Submitted(cmd[s]) \in SUBSET (Nat \X Shas)
      BY <2>1, CommandType DEF Submitted
    <2>3. acked' \subseteq Ack /\ Close(s)
      BY <1>19, <2>1, <2>2, ReplyType DEF Summary
    <2>4. QED
      BY <1>19, <2>3, CloseType DEF Summary, TypeOK, tables
  <1>20. ASSUME NEW s \in Sessions, Read(s)
         PROVE  TypeOK'
    <2>1. cmd[s] \in Commands
      BY <1>0, <1>20 DEF Read, At
    <2>2. Content(pst[s]) \in SUBSET (Nat \X Shas)
      BY DEF Content, TypeOK, PatchRow
    <2>3. acked' \subseteq Ack /\ Close(s)
      BY <1>20, <2>1, <2>2, ReplyType DEF Read
    <2>4. QED
      BY <1>20, <2>3, CloseType DEF Read, TypeOK, tables
  <1>21. ASSUME NEW s \in Sessions, Fail(s)
         PROVE  TypeOK'
    <2>1. tx' \in Delta
      BY <1>21, NoTxType DEF Fail, TypeOK
    <2>2. QED
      BY <1>21, <2>1, CloseType DEF Fail, TypeOK, tables
  <1>22. CASE UNCHANGED vars
    BY <1>22 DEF vars, tables, local, TypeOK
  <1>23. QED
    BY <1>1, <1>2, <1>3, <1>4, <1>5, <1>6, <1>7, <1>8, <1>9, <1>10, <1>11, <1>12,
       <1>13, <1>14, <1>15, <1>16, <1>17, <1>18, <1>19, <1>20, <1>21, <1>22
    DEF Next, Step
-----------------------------------------------------------------------------
\* A session that closes no longer bears on SessionInv.
LEMMA CloseSession ==
  ASSUME TypeOK, SessionInv, NEW s \in Sessions, Close(s), UNCHANGED seq,
         \/ tx' = tx /\ pc[s] # "commit"
         \/ tx' = IF tx.owner = s THEN NoTx ELSE tx
  PROVE  SessionInv'
  BY SessionAssumption, NoTxType DEF TypeOK, SessionInv, Close, Goto

\* A transaction that starts takes the write lock for its session.
LEMMA BeginSession ==
  ASSUME TypeOK, SessionInv, NEW s \in Sessions, NEW delta, delta.owner = s,
         Begin(s, delta),
         \/ UNCHANGED pst
         \/ cmd[s].op # "rm" /\ \E id : pst' = [pst EXCEPT ![s] = id]
  PROVE  SessionInv'
  BY SessionAssumption DEF TypeOK, SessionInv, Begin, At, Goto, WriterFree, tables

\* Every step keeps SessionInv.
LEMMA SessionStep == LogInv /\ [Next]_vars => SessionInv'
  <1> SUFFICES ASSUME TypeOK, SessionInv, IdInv, TxInv, [Next]_vars
               PROVE  SessionInv'
    BY DEF LogInv
  <1> USE SessionAssumption
  <1>1. CASE Tick
    BY <1>1 DEF Tick, SessionInv, tables, local
  <1>2. CASE Crash
    BY <1>2, NoTxType DEF Crash, SessionInv, tables
  <1>3. ASSUME NEW s \in Sessions, Start(s)
        PROVE  SessionInv'
    <2>1. PICK c \in Commands : /\ cmd' = [cmd EXCEPT ![s] = c]
                               /\ pc' = [pc EXCEPT ![s] = FirstStep(c.op)]
      BY <1>3 DEF Start, Goto
    <2>2. FirstStep(c.op) \notin {"idle", "commit"} /\ (c.op = "rm" => FirstStep(c.op) = "resolve")
      BY DEF FirstStep
    <2>3. QED
      BY <1>3, <2>1, <2>2 DEF Start, At, TypeOK, SessionInv, tables
  <1>4. ASSUME NEW s \in Sessions, FindUser(s)
        PROVE  SessionInv'
    BY <1>4, StepsType DEF FindUser, At, Goto, TypeOK, SessionInv, tables, local
  <1>5. ASSUME NEW s \in Sessions, AddUser(s)
        PROVE  SessionInv'
    BY <1>5, StepsType DEF AddUser, At, Goto, TypeOK, SessionInv, local
  <1>6. ASSUME NEW s \in Sessions, Lookup(s)
        PROVE  SessionInv'
    BY <1>6, StepsType DEF Lookup, At, Goto, TypeOK, SessionInv, tables
  <1>7. ASSUME NEW s \in Sessions, LookupMisses(s)
        PROVE  SessionInv'
    BY <1>7 DEF LookupMisses, At, Goto, TypeOK, SessionInv, tables, local
  <1>8. ASSUME NEW s \in Sessions, Resolve(s)
        PROVE  SessionInv'
    <2>1. PICK d \in patchsets : pst' = [pst EXCEPT ![s] = d.id]
      BY <1>8 DEF Resolve, PatchsetsOf
    <2>2. d.id \in 1 .. seq.ps
      BY DEF IdInv
    <2>3. QED
      BY <1>8, <2>1, <2>2 DEF Resolve, At, Goto, TypeOK, SessionInv, tables
  <1>9. ASSUME NEW s \in Sessions, ReadClock(s)
        PROVE  SessionInv'
    BY <1>9 DEF ReadClock, At, Goto, TypeOK, SessionInv, tables
  <1>10. ASSUME NEW s \in Sessions, WriteNew(s)
         PROVE  SessionInv'
    BY <1>10, BeginSession DEF WriteNew
  <1>11. ASSUME NEW s \in Sessions, WriteAppend(s)
         PROVE  SessionInv'
    BY <1>11, BeginSession DEF WriteAppend
  <1>12. ASSUME NEW s \in Sessions, WriteComment(s)
         PROVE  SessionInv'
    BY <1>12, BeginSession DEF WriteComment, Change
  <1>13. ASSUME NEW s \in Sessions, WriteName(s)
         PROVE  SessionInv'
    BY <1>13, BeginSession DEF WriteName, Change
  <1>14. ASSUME NEW s \in Sessions, WriteRm(s)
         PROVE  SessionInv'
    BY <1>14, BeginSession DEF WriteRm, Change
  <1>15. ASSUME NEW s \in Sessions, Commit(s)
         PROVE  SessionInv'
    <2>1. tx.owner = s
      BY <1>15 DEF Commit, At, SessionInv
    <2>2. tx.seq.ps \in Nat /\ seq.ps \in Nat /\ tx.seq.ps >= seq.ps
      BY <2>1 DEF TxInv, TxAdds, TxRemoves, TxSpares, TypeOK, Delta
    <2>3. AfterCommit(s) \notin {"idle", "resolve", "commit"}
      BY StepsType
    <2>4. QED
      BY <1>15, <2>1, <2>2, <2>3, NoTxType
      DEF Commit, At, Goto, TypeOK, SessionInv, local
  <1>16. ASSUME NEW s \in Sessions, Bump(s)
         PROVE  SessionInv'
    BY <1>16 DEF Bump, At, Goto, TypeOK, SessionInv, tables
  <1>17. ASSUME NEW s \in Sessions, Touch(s)
         PROVE  SessionInv'
    <2>1. CASE cmd[s].op = "push"
      BY <1>17, <2>1 DEF Touch, At, Goto, TypeOK, SessionInv, local
    <2>2. CASE cmd[s].op # "push"
      BY <1>17, <2>2, CloseSession DEF Touch, Reply, At
    <2>3. QED
      BY <2>1, <2>2
  <1>18. ASSUME NEW s \in Sessions, TouchFails(s)
         PROVE  SessionInv'
    BY <1>18 DEF TouchFails, At, Goto, TypeOK, SessionInv, tables, local
  <1>19. ASSUME NEW s \in Sessions, Summary(s)
         PROVE  SessionInv'
    BY <1>19, CloseSession DEF Summary, Reply, At, tables
  <1>20. ASSUME NEW s \in Sessions, Read(s)
         PROVE  SessionInv'
    BY <1>20, CloseSession DEF Read, Reply, At, tables
  <1>21. ASSUME NEW s \in Sessions, Fail(s)
         PROVE  SessionInv'
    BY <1>21, CloseSession DEF Fail, tables
  <1>22. CASE UNCHANGED vars
    BY <1>22 DEF vars, tables, local, SessionInv
  <1>23. QED
    BY <1>1, <1>2, <1>3, <1>4, <1>5, <1>6, <1>7, <1>8, <1>9, <1>10, <1>11, <1>12,
       <1>13, <1>14, <1>15, <1>16, <1>17, <1>18, <1>19, <1>20, <1>21, <1>22
    DEF Next, Step
-----------------------------------------------------------------------------
StoreUnchanged == UNCHANGED <<patchsets, patches, events, seq>>

\* Steps that write neither rows nor ids keep what is said of them.
LEMMA QuietStep ==
  ASSUME IdInv, OriginLogged, RemovalLogged, StoreUnchanged
  PROVE  IdInv' /\ OriginLogged' /\ RemovalLogged'
  BY DEF StoreUnchanged, IdInv, OriginLogged, RemovalLogged, IsOrigin, IsRemoval

LEMMA TxInvKept ==
  ASSUME TxInv, UNCHANGED seq, UNCHANGED tx \/ tx' = NoTx
  PROVE  TxInv'
  BY NoTxType DEF TxInv, TxAdds, TxRemoves, TxSpares, IsOrigin, IsRemoval

\* The next id of patchsets has no patches yet, so createPatch saves them all.
LEMMA AllSaved ==
  ASSUME TypeOK, IdInv, NEW c \in Commands, c.op = "push"
  PROVE  NewPatches(NextPs, c.patches) # {}
  <1>1. c.patches \in Seq(Shas) /\ c.patches # << >>
    BY CommandType, PatchesAssumption
  <1>2. 1 \in DOMAIN c.patches
    BY <1>1
  <1>3. ~Exists(NextPs, c.patches[1])
    BY DEF Exists, IdInv, NextPs, TypeOK
  <1>4. [ps |-> NextPs, pos |-> 1, sha |-> c.patches[1]] \in NewPatches(NextPs, c.patches)
    BY <1>2, <1>3 DEF NewPatches
  <1>5. QED
    BY <1>4

\* Both transactions that add a patchset log its origin.
LEMMA AddsPatchset ==
  ASSUME TypeOK, NEW s \in Sessions, NEW p, NEW kind \in {"pr_created", "pr_patchset_added"},
         NEW shas,
         tx'.patchsets = NewPatchset(s, p), tx'.events = Event(s, kind, p, NextPs),
         tx'.patches = NewPatches(NextPs, shas), tx'.del = {}, tx'.seq.ps = NextPs,
         UNCHANGED seq
  PROVE  TxAdds'
  <1> DEFINE d == [id |-> NextPs, pr |-> p, user |-> cmd[s].key, at |-> now]
             e == [id |-> seq.ev + 1, kind |-> kind, pr |-> p, ps |-> NextPs,
                   user |-> cmd[s].key, at |-> now]
  <1>1. tx'.patchsets = {d} /\ tx'.events = {e}
    BY DEF NewPatchset, Event
  <1>2. d.id = seq'.ps + 1 /\ e.ps = d.id /\ e.pr = d.pr /\ e.user = d.user /\ IsOrigin(e)
    BY DEF NextPs, IsOrigin
  <1>3. \A q \in tx'.patches : q.ps = seq'.ps + 1
    BY DEF NewPatches, NextPs
  <1>4. QED
    BY <1>1, <1>2, <1>3 DEF TxAdds, NextPs, IsOrigin

LEMMA TxStep == LogInv /\ [Next]_vars => TxInv'
  <1> SUFFICES ASSUME LogInv, [Next]_vars
               PROVE  TxInv'
    OBVIOUS
  <1>0. TypeOK /\ SessionInv /\ IdInv /\ TxInv
    BY DEF LogInv
  <1>1. CASE UNCHANGED <<seq, tx>>
    BY <1>0, <1>1, TxInvKept
  <1>2. CASE Crash
    BY <1>0, <1>2, TxInvKept DEF Crash, tables
  <1>3. ASSUME NEW s \in Sessions, WriteNew(s)
        PROVE  TxInv'
    <2>1. TxAdds'
      BY <1>0, <1>3, AddsPatchset DEF WriteNew, Begin, Ids, tables
    <2>2. QED
      BY <2>1 DEF TxInv
  <1>4. ASSUME NEW s \in Sessions, WriteAppend(s)
        PROVE  TxInv'
    <2>1. cmd[s] \in Commands /\ cmd[s].op = "push"
      BY <1>0, <1>4 DEF WriteAppend, Begin, At, SessionInv
    <2>2. NewPatches(NextPs, cmd[s].patches) # {}
      BY <1>0, <2>1, AllSaved
    <2>3. tx'.events = Event(s, "pr_patchset_added", prq[s], NextPs)
      BY <1>4, <2>2 DEF WriteAppend, Begin
    <2>4. TxAdds'
      BY <1>0, <1>4, <2>3, AddsPatchset DEF WriteAppend, Begin, Ids, tables
    <2>5. QED
      BY <2>4 DEF TxInv
  <1>5. ASSUME NEW s \in Sessions, WriteComment(s) \/ WriteName(s)
        PROVE  TxInv'
    <2>1. PICK kind, rows : /\ kind \in {"pr_commented", "pr_name_changed"}
                             /\ tx' = Change(s, kind, 0, rows, {})
      BY <1>5 DEF WriteComment, WriteName, Begin
    <2>2. UNCHANGED seq
      BY <1>5 DEF WriteComment, WriteName, Begin, tables
    <2>3. TxSpares'
      BY <2>1, <2>2 DEF TxSpares, Change, Ids, Event, IsOrigin, IsRemoval
    <2>4. QED
      BY <2>3 DEF TxInv
  <1>6. ASSUME NEW s \in Sessions, WriteRm(s)
        PROVE  TxInv'
    <2>1. tx' = Change(s, "pr_patchset_deleted", pst[s], {}, {pst[s]}) /\ UNCHANGED seq
      BY <1>6 DEF WriteRm, Begin, tables
    <2>2. pst[s] \in 1 .. seq.ps
      BY <1>0, <1>6 DEF WriteRm, Begin, At, SessionInv
    <2>3. TxRemoves'
      BY <2>1, <2>2 DEF TxRemoves, Change, Ids, Event, IsRemoval
    <2>4. QED
      BY <2>3 DEF TxInv
  <1>7. ASSUME NEW s \in Sessions, Commit(s)
        PROVE  TxInv'
    BY <1>7, NoTxType DEF Commit, TxInv
  <1>8. ASSUME NEW s \in Sessions, Fail(s)
        PROVE  TxInv'
    BY <1>0, <1>8, TxInvKept DEF Fail, tables
  <1>9. QED
    BY <1>1, <1>2, <1>3, <1>4, <1>5, <1>6, <1>7, <1>8
    DEF Next, Step, Tick, Start, FindUser, AddUser, Lookup, LookupMisses, Resolve,
        ReadClock, Bump, Touch, TouchFails, Summary, Read, vars, tables

LEMMA CommitLogs ==
  ASSUME LogInv, NEW s \in Sessions, Commit(s)
  PROVE  IdInv' /\ OriginLogged' /\ RemovalLogged'
  <1>1. TxAdds \/ TxRemoves \/ TxSpares
    BY SessionAssumption DEF LogInv, SessionInv, TxInv, Commit, At
  <1>0. /\ TypeOK /\ IdInv /\ OriginLogged /\ RemovalLogged
        /\ seq.ps \in Nat /\ seq'.ps = tx.seq.ps
        /\ patchsets' = {r \in patchsets : r.id \notin tx.del} \cup tx.patchsets
        /\ patches' = patches \cup tx.patches
        /\ events' = events \cup tx.events
    BY DEF LogInv, TypeOK, Commit
  <1>2. CASE TxAdds
    <2>1. PICK d \in tx.patchsets, e \in tx.events :
            /\ tx.patchsets = {d} /\ tx.events = {e}
            /\ d.id = seq.ps + 1
            /\ IsOrigin(e) /\ e.ps = d.id /\ e.pr = d.pr /\ e.user = d.user
      BY <1>2 DEF TxAdds
    <2>2. /\ seq'.ps = seq.ps + 1
          /\ patchsets' = patchsets \cup {d}
          /\ events' = events \cup {e}
          /\ \A p \in patches' : p \in patches \/ p.ps = seq.ps + 1
      BY <1>0, <1>2, <2>1 DEF TxAdds
    <2>3. IdInv'
      BY <1>0, <2>1, <2>2 DEF IdInv
    <2>4. OriginLogged'
      <3> SUFFICES ASSUME NEW id \in 1 .. seq'.ps
                   PROVE  \E o \in events' :
                            /\ IsOrigin(o) /\ o.ps = id
                            /\ \A f \in events' : IsOrigin(f) /\ f.ps = id => f = o
                            /\ \A c \in patchsets' : c.id = id => c.pr = o.pr /\ c.user = o.user
        BY DEF OriginLogged, IsOrigin
      <3>1. CASE id = seq.ps + 1
        BY <1>0, <2>1, <2>2, <3>1 DEF IdInv
      <3>2. CASE id \in 1 .. seq.ps
        <4>1. PICK o \in events :
                /\ IsOrigin(o) /\ o.ps = id
                /\ \A f \in events : IsOrigin(f) /\ f.ps = id => f = o
                /\ \A c \in patchsets : c.id = id => c.pr = o.pr /\ c.user = o.user
          BY <1>0, <3>2 DEF OriginLogged
        <4>2. QED
          BY <1>0, <2>1, <2>2, <3>2, <4>1
      <3>3. QED
        BY <1>0, <2>2, <3>1, <3>2
    <2>5. RemovalLogged'
      <3>1. ~IsRemoval(e)
        BY <2>1 DEF IsOrigin, IsRemoval
      <3>2. \A f \in events : f.ps # seq.ps + 1
        BY <1>0 DEF IdInv
      <3>3. QED
        BY <1>0, <2>1, <2>2, <3>1, <3>2 DEF RemovalLogged, IsRemoval
    <2>6. QED
      BY <2>3, <2>4, <2>5
  <1>3. CASE TxRemoves
    <2>1. PICK id \in 1 .. seq.ps, e \in tx.events :
            tx.del = {id} /\ tx.events = {e} /\ IsRemoval(e) /\ e.ps = id
      BY <1>3 DEF TxRemoves
    <2>2. /\ seq'.ps = seq.ps
          /\ patchsets' = {r \in patchsets : r.id # id}
          /\ patches' = patches
          /\ events' = events \cup {e}
      BY <1>0, <1>3, <2>1 DEF TxRemoves
    <2>3. ~IsOrigin(e)
      BY <2>1 DEF IsOrigin, IsRemoval
    <2>4. IdInv'
      BY <1>0, <2>1, <2>2 DEF IdInv
    <2>5. OriginLogged'
      BY <1>0, <2>2, <2>3 DEF OriginLogged, IsOrigin
    <2>6. RemovalLogged'
      BY <1>0, <2>1, <2>2 DEF RemovalLogged, IsRemoval
    <2>7. QED
      BY <2>4, <2>5, <2>6
  <1>4. CASE TxSpares
    <2>1. PICK e \in tx.events :
            tx.events = {e} /\ ~IsOrigin(e) /\ ~IsRemoval(e) /\ e.ps = 0
      BY <1>4 DEF TxSpares
    <2>2. /\ seq'.ps = seq.ps
          /\ patchsets' = patchsets
          /\ patches' = patches
          /\ events' = events \cup {e}
      BY <1>0, <1>4, <2>1 DEF TxSpares
    <2>3. QED
      BY <1>0, <2>1, <2>2 DEF IdInv, OriginLogged, RemovalLogged, IsOrigin, IsRemoval
  <1>5. QED
    BY <1>1, <1>2, <1>3, <1>4

\* Every step keeps the invariant.
LEMMA LogStep == LogInv /\ [Next]_vars => LogInv'
  <1> SUFFICES ASSUME LogInv, [Next]_vars
               PROVE  LogInv'
    OBVIOUS
  <1>1. TypeOK' /\ SessionInv' /\ TxInv'
    BY TypeStep, SessionStep, TxStep DEF LogInv
  <1>2. CASE StoreUnchanged
    BY <1>1, <1>2, QuietStep DEF LogInv
  <1>3. CASE \E s \in Sessions : Commit(s)
    BY <1>1, <1>3, CommitLogs DEF LogInv
  <1>4. QED
    BY <1>2, <1>3
    DEF Next, Step, Tick, Crash, Start, FindUser, AddUser, Lookup, LookupMisses, Resolve,
        ReadClock, WriteNew, WriteAppend, WriteComment, WriteName, WriteRm, Begin, Bump,
        Touch, TouchFails, Summary, Read, Fail, StoreUnchanged, vars, tables

LEMMA LogInit == Init => LogInv
  BY SessionAssumption, NoTxType
  DEF Init, LogInv, TypeOK, SessionInv, IdInv, TxInv, OriginLogged, RemovalLogged,
      NoIds, Steps

THEOREM Typed == Spec => []TypeOK
  <1>1. LogInv => TypeOK
    BY DEF LogInv
  <1>2. QED
    BY LogInit, LogStep, <1>1, PTL DEF Spec

THEOREM LogIsTruthful == Spec => [](OriginLogged /\ RemovalLogged)
  <1>1. LogInv => OriginLogged /\ RemovalLogged
    BY DEF LogInv
  <1>2. QED
    BY LogInit, LogStep, <1>1, PTL DEF Spec
-----------------------------------------------------------------------------
(***************************************************************************)
(* A target names one patch request.                                       *)
(***************************************************************************)
TxPrInv == tx.owner # NoSession => TxCreates \/ TxRewrites

\* Steps that leave patch requests, the log and the open transaction alone.
LEMMA RequestQuiet ==
  ASSUME RequestInv, UNCHANGED <<prs, events, seq>>, UNCHANGED tx \/ tx' = NoTx
  PROVE  PrIdInv' /\ TxPrInv' /\ TargetsUnique'
  <1>1. PrIdInv' /\ TargetsUnique'
    BY DEF RequestInv, PrIdInv, TargetsUnique
  <1>2. TxPrInv'
    BY NoTxType DEF RequestInv, TxPrInv, TxCreates, TxRewrites
  <1>3. QED
    BY <1>1, <1>2

LEMMA RequestBegin ==
  ASSUME RequestInv, NEW s \in Sessions,
         WriteNew(s) \/ WriteAppend(s) \/ WriteComment(s) \/ WriteName(s) \/ WriteRm(s)
  PROVE  PrIdInv' /\ TxPrInv' /\ TargetsUnique'
  <1>0. UNCHANGED <<prs, events, seq>> /\ TypeOK /\ PrIdInv
    BY DEF WriteNew, WriteAppend, WriteComment, WriteName, WriteRm, Begin, tables,
           RequestInv, LogInv
  <1>1. PrIdInv' /\ TargetsUnique'
    BY <1>0 DEF RequestInv, PrIdInv, TargetsUnique
  <1>2. CASE WriteNew(s)
    <2> DEFINE r == [id |-> seq.pr + 1, user |-> cmd[s].key, target |-> cmd[s].target,
                     name |-> cmd[s].name, last |-> stamp[s]]
               e == [id |-> seq.ev + 1, kind |-> "pr_created", pr |-> seq.pr + 1,
                     ps |-> NextPs, user |-> cmd[s].key, at |-> now]
    <2>1. tx'.prs = {r} /\ tx'.events = {e} /\ tx'.seq.pr = seq.pr + 1
      BY <1>2 DEF WriteNew, Begin, Event, Ids
    <2>2. \A q \in prs : q.target # r.target
      BY <1>2 DEF WriteNew
    <2>3. TxCreates'
      BY <1>0, <2>1, <2>2 DEF TxCreates
    <2>4. QED
      BY <1>1, <2>3 DEF TxPrInv
  <1>3. CASE WriteAppend(s)
    <2>1. tx'.prs = {} /\ tx'.seq.pr = seq.pr /\ \A e \in tx'.events : e.kind # "pr_created"
      BY <1>3 DEF WriteAppend, Begin, Ids, Event
    <2>2. TxRewrites'
      BY <1>0, <2>1 DEF TxRewrites
    <2>3. QED
      BY <1>1, <2>2 DEF TxPrInv
  <1>4. CASE WriteComment(s) \/ WriteRm(s)
    <2>1. tx'.prs = {} /\ tx'.seq.pr = seq.pr /\ \A e \in tx'.events : e.kind # "pr_created"
      BY <1>4 DEF WriteComment, WriteRm, Begin, Change, Ids, Event
    <2>2. TxRewrites'
      BY <1>0, <2>1 DEF TxRewrites
    <2>3. QED
      BY <1>1, <2>2 DEF TxPrInv
  <1>5. CASE WriteName(s)
    <2>1. /\ tx'.prs = {Renamed(r, cmd[s].name) : r \in {q \in prs : q.id = prq[s]}}
          /\ tx'.seq.pr = seq.pr /\ \A e \in tx'.events : e.kind # "pr_created"
      BY <1>5 DEF WriteName, Begin, Change, Ids, Event
    <2>2. cmd[s].name \in Names
      BY <1>5, CommandType DEF WriteName, Begin, At, RequestInv, LogInv, SessionInv
    <2>3. \A r \in tx'.prs : \E q \in prs :
            /\ r = Renamed(q, cmd[s].name)
            /\ q.id = prq[s] /\ r.id = q.id /\ r.user = q.user /\ r.target = q.target
      <3>1. \A q \in prs : /\ Renamed(q, cmd[s].name).id = q.id
                           /\ Renamed(q, cmd[s].name).user = q.user
                           /\ Renamed(q, cmd[s].name).target = q.target
        BY <1>0, <2>2, RowRenamed DEF TypeOK
      <3>2. QED
        BY <2>1, <3>1
    <2>4. \A r, q \in tx'.prs : r = q
      BY <1>0, <2>3 DEF PrIdInv
    <2>5. TxRewrites'
      BY <1>0, <2>1, <2>3, <2>4 DEF TxRewrites
    <2>6. QED
      BY <1>1, <2>5 DEF TxPrInv
  <1>6. QED
    BY <1>2, <1>3, <1>4, <1>5

LEMMA RequestCommit ==
  ASSUME RequestInv, NEW s \in Sessions, Commit(s)
  PROVE  PrIdInv' /\ TxPrInv' /\ TargetsUnique'
  <1>0. /\ TypeOK /\ PrIdInv /\ TargetsUnique
        /\ seq.pr \in Nat /\ seq'.pr = tx.seq.pr
        /\ prs' = {r \in prs : \A n \in tx.prs : n.id # r.id} \cup tx.prs
        /\ events' = events \cup tx.events
        /\ tx' = NoTx
    BY DEF RequestInv, LogInv, TypeOK, Commit
  <1>1. TxCreates \/ TxRewrites
    BY SessionAssumption DEF RequestInv, LogInv, SessionInv, Commit, At
  <1>2. TxPrInv'
    BY <1>0, NoTxType DEF TxPrInv
  <1>3. CASE TxCreates
    <2>1. PICK r \in tx.prs, e \in tx.events :
            /\ tx.prs = {r} /\ tx.events = {e}
            /\ r.id = seq.pr + 1 /\ \A q \in prs : q.target # r.target
            /\ e.kind = "pr_created" /\ e.pr = r.id /\ e.user = r.user
      BY <1>3 DEF TxCreates
    <2>2. \A q \in prs : q.id # r.id
      BY <1>0, <2>1 DEF PrIdInv
    <2>3. seq'.pr = seq.pr + 1 /\ prs' = prs \cup {r} /\ events' = events \cup {e}
      BY <1>0, <1>3, <2>1, <2>2 DEF TxCreates
    <2>4. PrIdInv'
      BY <1>0, <2>1, <2>2, <2>3 DEF PrIdInv
    <2>5. \A p, q \in prs' : p.target = q.target => p = q
      BY <1>0, <2>1, <2>3 DEF TargetsUnique
    <2>6. ASSUME NEW p \in prs'
          PROVE  \E o \in events' :
                   /\ o.kind = "pr_created" /\ o.pr = p.id /\ o.user = p.user
                   /\ \A f \in events' : f.kind = "pr_created" /\ f.pr = p.id => f = o
      <3>1. CASE p = r
        BY <1>0, <2>1, <2>3, <3>1 DEF PrIdInv
      <3>2. CASE p \in prs
        <4>1. p.id # e.pr
          BY <2>1, <2>2, <3>2
        <4>2. PICK o \in events :
                /\ o.kind = "pr_created" /\ o.pr = p.id /\ o.user = p.user
                /\ \A f \in events : f.kind = "pr_created" /\ f.pr = p.id => f = o
          BY <1>0, <3>2 DEF TargetsUnique
        <4>3. QED
          BY <2>3, <4>1, <4>2
      <3>3. QED
        BY <2>3, <3>1, <3>2
    <2>7. QED
      BY <1>2, <2>4, <2>5, <2>6 DEF TargetsUnique
  <1>4. CASE TxRewrites
    <2>1. /\ seq'.pr = seq.pr
          /\ \A e \in events' : e.kind = "pr_created" => e \in events
          /\ events \subseteq events'
      BY <1>0, <1>4 DEF TxRewrites
    <2>2. \A r \in prs' : \E q \in prs : q.id = r.id /\ q.user = r.user /\ q.target = r.target
      BY <1>0, <1>4 DEF TxRewrites
    <2>3. \A r, q \in prs' : r.id = q.id => r = q
      BY <1>0, <1>4 DEF TxRewrites, PrIdInv
    <2>4. PrIdInv'
      BY <1>0, <2>1, <2>2, <2>3 DEF PrIdInv
    <2>5. \A r, q \in prs' : r.target = q.target => r = q
      <3> SUFFICES ASSUME NEW r \in prs', NEW q \in prs', r.target = q.target
                   PROVE  r.id = q.id
        BY <2>3
      <3>1. PICK a \in prs : a.id = r.id /\ a.target = r.target
        BY <2>2
      <3>2. PICK b \in prs : b.id = q.id /\ b.target = q.target
        BY <2>2
      <3>3. QED
        BY <1>0, <3>1, <3>2 DEF TargetsUnique
    <2>6. ASSUME NEW r \in prs'
          PROVE  \E o \in events' :
                   /\ o.kind = "pr_created" /\ o.pr = r.id /\ o.user = r.user
                   /\ \A f \in events' : f.kind = "pr_created" /\ f.pr = r.id => f = o
      <3>1. PICK q \in prs : q.id = r.id /\ q.user = r.user
        BY <2>2
      <3>2. PICK o \in events :
              /\ o.kind = "pr_created" /\ o.pr = q.id /\ o.user = q.user
              /\ \A f \in events : f.kind = "pr_created" /\ f.pr = q.id => f = o
        BY <1>0 DEF TargetsUnique
      <3>3. QED
        BY <2>1, <3>1, <3>2
    <2>7. QED
      BY <1>2, <2>4, <2>5, <2>6 DEF TargetsUnique
  <1>5. QED
    BY <1>1, <1>3, <1>4

\* updateLastActivity rewrites a row while nobody holds the write lock.
LEMMA RequestTouch ==
  ASSUME RequestInv, NEW s \in Sessions, Touch(s)
  PROVE  PrIdInv' /\ TxPrInv' /\ TargetsUnique'
  <1>1. /\ prs \subseteq PrRow /\ stamp[s] \in Nat
        /\ prs' = {IF r.id = prq[s] THEN Touched(r, stamp[s]) ELSE r : r \in prs}
        /\ UNCHANGED <<events, seq, tx>> /\ tx.owner = NoSession
        /\ PrIdInv /\ TargetsUnique
    BY DEF RequestInv, LogInv, TypeOK, Touch, WriterFree
  <1>2. /\ \A r \in prs' : \E q \in prs :
             /\ r = IF q.id = prq[s] THEN Touched(q, stamp[s]) ELSE q
             /\ q.id = r.id /\ q.user = r.user /\ q.target = r.target
    BY <1>1, RowTouched
  <1>3. \A r, q \in prs' : r.id = q.id => r = q
    BY <1>1, <1>2 DEF PrIdInv
  <1>4. \A r, q \in prs' : r.target = q.target => r = q
    BY <1>1, <1>2 DEF TargetsUnique
  <1>5. \A r \in prs' : \E e \in events' :
          /\ e.kind = "pr_created" /\ e.pr = r.id /\ e.user = r.user
          /\ \A f \in events' : f.kind = "pr_created" /\ f.pr = r.id => f = e
    BY <1>1, <1>2 DEF TargetsUnique
  <1>6. QED
    BY <1>1, <1>2, <1>3, <1>4, <1>5 DEF PrIdInv, TxPrInv, TargetsUnique

LEMMA RequestStep == RequestInv /\ [Next]_vars => RequestInv'
  <1> SUFFICES ASSUME RequestInv, [Next]_vars
               PROVE  PrIdInv' /\ TxPrInv' /\ TargetsUnique'
    BY LogStep DEF RequestInv, TxPrInv
  <1>1. CASE UNCHANGED <<prs, events, seq>> /\ (UNCHANGED tx \/ tx' = NoTx)
    BY <1>1, RequestQuiet
  <1>2. CASE \E s \in Sessions : \/ WriteNew(s) \/ WriteAppend(s) \/ WriteComment(s)
                                \/ WriteName(s) \/ WriteRm(s)
    BY <1>2, RequestBegin
  <1>3. CASE \E s \in Sessions : Commit(s)
    BY <1>3, RequestCommit
  <1>4. CASE \E s \in Sessions : Touch(s)
    BY <1>4, RequestTouch
  <1>5. QED
    BY <1>1, <1>2, <1>3, <1>4
    DEF Next, Step, Tick, Crash, Start, FindUser, AddUser, Lookup, LookupMisses, Resolve,
        ReadClock, Bump, TouchFails, Summary, Read, Fail, vars, tables

THEOREM TargetsStayUnique == Spec => []TargetsUnique
  <1>1. Init => RequestInv
    BY LogInit, NoTxType DEF Init, RequestInv, PrIdInv, TargetsUnique
  <1>2. RequestInv => TargetsUnique
    BY DEF RequestInv
  <1>3. QED
    BY <1>1, <1>2, RequestStep, PTL DEF Spec
-----------------------------------------------------------------------------
(***************************************************************************)
(* A patchset is removed by its creator only.                              *)
(***************************************************************************)

\* Rows of patchsets go, or come with an id that no session holds yet.
RowsFresh == \A d \in patchsets' : d \in patchsets \/ d.id = seq.ps + 1

\* Session s is given no patchset to remove by this step.
NotChosen(s) ==
  \/ pc'[s] \in {"idle", "resolve"}
  \/ cmd'[s].op # "rm"
  \/ /\ pc[s] \notin {"idle", "resolve"}
     /\ cmd'[s] = cmd[s] /\ pst'[s] = pst[s]

LEMMA NoneChosen ==
  ASSUME RemovalInv, RowsFresh, \A s \in Sessions : NotChosen(s)
  PROVE  RmInv'
  <1> SUFFICES ASSUME NEW s \in Sessions, pc'[s] \notin {"idle", "resolve"},
                      cmd'[s].op = "rm", NEW d \in patchsets', d.id = pst'[s]
               PROVE  d.user = cmd'[s].key
    BY DEF RmInv
  <1>1. pc[s] \notin {"idle", "resolve"} /\ cmd'[s] = cmd[s] /\ pst'[s] = pst[s]
    BY DEF NotChosen
  <1>2. pst[s] \in 1 .. seq.ps /\ seq.ps \in Nat
    BY <1>1 DEF RemovalInv, LogInv, TypeOK, SessionInv
  <1>3. d \in patchsets
    BY <1>1, <1>2 DEF RowsFresh
  <1>4. QED
    BY <1>1, <1>3 DEF RemovalInv, RmInv

\* Only a commit writes patchsets.
LEMMA PatchsetsStep ==
  ASSUME RemovalInv, [Next]_vars
  PROVE  RowsFresh /\ PatchsetIdInv'
  <1>1. CASE UNCHANGED patchsets
    BY <1>1 DEF RowsFresh, PatchsetIdInv, RemovalInv
  <1>2. ASSUME NEW s \in Sessions, Commit(s)
        PROVE  RowsFresh /\ PatchsetIdInv'
    <2>1. /\ patchsets' = {r \in patchsets : r.id \notin tx.del} \cup tx.patchsets
          /\ tx.owner = s /\ s # NoSession
          /\ PatchsetIdInv /\ IdInv /\ seq.ps \in Nat
      BY <1>2, SessionAssumption
      DEF Commit, At, RemovalInv, LogInv, SessionInv, TypeOK
    <2>2. TxAdds \/ TxRemoves \/ TxSpares
      BY <2>1 DEF RemovalInv, LogInv, TxInv
    <2>3. \A d \in patchsets : d.id # seq.ps + 1
      BY <2>1 DEF IdInv
    <2>4. CASE TxAdds
      BY <2>1, <2>3, <2>4 DEF TxAdds, RowsFresh, PatchsetIdInv
    <2>5. CASE TxRemoves \/ TxSpares
      BY <2>1, <2>5 DEF TxRemoves, TxSpares, RowsFresh, PatchsetIdInv
    <2>6. QED
      BY <2>2, <2>4, <2>5
  <1>3. QED
    BY <1>1, <1>2
    DEF Next, Step, Tick, Crash, Start, FindUser, AddUser, Lookup, LookupMisses, Resolve,
        ReadClock, WriteNew, WriteAppend, WriteComment, WriteName, WriteRm, Begin, Bump,
        Touch, TouchFails, Summary, Read, Fail, vars, tables

\* A session that is done is given none, and the others keep what they hold.
LEMMA CloseChooses ==
  ASSUME TypeOK, NEW s \in Sessions, Close(s), NEW t \in Sessions
  PROVE  NotChosen(t)
  BY DEF TypeOK, NotChosen, Close, Goto

LEMMA RmStep == RemovalInv /\ [Next]_vars => RmInv'
  <1> SUFFICES ASSUME RemovalInv, [Next]_vars
               PROVE  RmInv'
    OBVIOUS
  <1>0. RowsFresh /\ TypeOK /\ SessionInv
    BY PatchsetsStep DEF RemovalInv, LogInv
  <1>1. CASE Tick \/ UNCHANGED vars
    BY <1>0, <1>1, NoneChosen DEF Tick, NotChosen, vars, local
  <1>2. CASE Crash
    BY <1>0, <1>2, NoneChosen DEF Crash, NotChosen
  <1>3. ASSUME NEW s \in Sessions, Start(s)
        PROVE  RmInv'
    <2>1. PICK c \in Commands : /\ cmd' = [cmd EXCEPT ![s] = c]
                               /\ pc' = [pc EXCEPT ![s] = FirstStep(c.op)]
      BY <1>3 DEF Start, Goto
    <2>2. c.op = "rm" => FirstStep(c.op) = "resolve"
      BY DEF FirstStep
    <2>3. \A t \in Sessions : NotChosen(t)
      BY <1>0, <1>3, <2>1, <2>2 DEF Start, TypeOK, NotChosen
    <2>4. QED
      BY <1>0, <2>3, NoneChosen
  <1>4. ASSUME NEW s \in Sessions, Resolve(s)
        PROVE  RmInv'
    <2>1. PICK d \in patchsets : /\ cmd[s].op = "rm" => d.user = cmd[s].key
                                /\ pst' = [pst EXCEPT ![s] = d.id]
      BY <1>4 DEF Resolve, PatchsetsOf
    <2>2. patchsets' = patchsets /\ cmd' = cmd
          /\ \A t \in Sessions : t # s => pc'[t] = pc[t] /\ pst'[t] = pst[t]
      BY <1>0, <1>4, <2>1 DEF Resolve, Goto, TypeOK, tables
    <2>3. pst'[s] = d.id
      BY <1>0, <2>1 DEF TypeOK
    <2>4. QED
      BY <2>1, <2>2, <2>3 DEF RemovalInv, RmInv, PatchsetIdInv
  <1>5. ASSUME NEW s \in Sessions,
               \/ FindUser(s) \/ AddUser(s) \/ Lookup(s) \/ LookupMisses(s)
               \/ ReadClock(s) \/ Bump(s) \/ TouchFails(s) \/ Commit(s)
               \/ WriteComment(s) \/ WriteName(s) \/ WriteRm(s)
        PROVE  RmInv'
    <2>1. /\ cmd' = cmd /\ pst' = pst /\ pc[s] \notin {"idle", "resolve"}
          /\ \E step : pc' = [pc EXCEPT ![s] = step]
      BY <1>5 DEF FindUser, AddUser, Lookup, LookupMisses, ReadClock, Bump, TouchFails,
                  Commit, WriteComment, WriteName, WriteRm, Begin, At, Goto, local
    <2>2. \A t \in Sessions : NotChosen(t)
      BY <1>0, <2>1 DEF TypeOK, NotChosen
    <2>3. QED
      BY <1>0, <2>2, NoneChosen
  <1>6. ASSUME NEW s \in Sessions, WriteNew(s) \/ WriteAppend(s)
        PROVE  RmInv'
    <2>1. /\ cmd' = cmd /\ cmd[s].op # "rm"
          /\ pc' = [pc EXCEPT ![s] = "commit"]
          /\ \E id : pst' = [pst EXCEPT ![s] = id]
      BY <1>6 DEF WriteNew, WriteAppend, Begin, Goto
    <2>2. \A t \in Sessions : NotChosen(t)
      BY <1>0, <2>1 DEF TypeOK, NotChosen
    <2>3. QED
      BY <1>0, <2>2, NoneChosen
  <1>7. ASSUME NEW s \in Sessions, Touch(s), cmd[s].op = "push"
        PROVE  RmInv'
    <2>1. \A t \in Sessions : NotChosen(t)
      BY <1>0, <1>7 DEF TypeOK, NotChosen, Touch, Goto, local
    <2>2. QED
      BY <1>0, <2>1, NoneChosen
  <1>8. ASSUME NEW s \in Sessions,
               \/ Touch(s) /\ cmd[s].op # "push"
               \/ Summary(s) \/ Read(s) \/ Fail(s)
        PROVE  RmInv'
    <2>1. Close(s)
      BY <1>8 DEF Touch, Summary, Read, Fail, Reply
    <2>2. QED
      BY <1>0, <2>1, CloseChooses, NoneChosen
  <1>9. QED
    BY <1>1, <1>2, <1>3, <1>4, <1>5, <1>6, <1>7, <1>8 DEF Next, Step

\* The session that holds the write lock changes nothing until it commits.
LEMMA HolderWaits ==
  ASSUME RemovalInv, UNCHANGED tx,
         \A s \in Sessions : pc[s] = "commit" => cmd'[s] = cmd[s] /\ pst'[s] = pst[s]
  PROVE  TxRmInv'
  BY DEF RemovalInv, LogInv, SessionInv, TxRmInv

LEMMA TxRmStep == RemovalInv /\ [Next]_vars => TxRmInv'
  <1> SUFFICES ASSUME RemovalInv, [Next]_vars
               PROVE  TxRmInv'
    OBVIOUS
  <1>0. TypeOK /\ SessionInv
    BY DEF RemovalInv, LogInv
  <1>1. CASE tx' = NoTx
    BY <1>1, NoTxType, SessionAssumption DEF TxRmInv
  <1>2. CASE Tick \/ UNCHANGED vars
    BY <1>2, HolderWaits DEF Tick, vars, local
  <1>3. ASSUME NEW s \in Sessions, UNCHANGED tx,
               \/ Start(s) \/ FindUser(s) \/ AddUser(s) \/ Lookup(s) \/ LookupMisses(s)
               \/ Resolve(s) \/ ReadClock(s) \/ Bump(s) \/ TouchFails(s)
        PROVE  TxRmInv'
    <2>1. /\ pc[s] # "commit"
          /\ \E c : cmd' = [cmd EXCEPT ![s] = c] \/ cmd' = cmd
          /\ \E id : pst' = [pst EXCEPT ![s] = id] \/ pst' = pst
      BY <1>3 DEF Start, FindUser, AddUser, Lookup, LookupMisses, Resolve, ReadClock,
                  Bump, TouchFails, At, local
    <2>2. QED
      BY <1>0, <1>3, <2>1, HolderWaits DEF TypeOK
  <1>4. ASSUME NEW s \in Sessions, WriteRm(s)
        PROVE  TxRmInv'
    <2>1. tx'.owner = s /\ tx'.del = {pst[s]} /\ cmd[s].op = "rm" /\ cmd' = cmd /\ pst' = pst
      BY <1>4 DEF WriteRm, Begin, Change
    <2>2. QED
      BY <2>1 DEF TxRmInv
  <1>5. ASSUME NEW s \in Sessions,
               WriteNew(s) \/ WriteAppend(s) \/ WriteComment(s) \/ WriteName(s)
        PROVE  TxRmInv'
    <2>1. tx'.del = {}
      BY <1>5 DEF WriteNew, WriteAppend, WriteComment, WriteName, Begin, Change
    <2>2. QED
      BY <2>1 DEF TxRmInv
  <1>6. ASSUME NEW s \in Sessions, Touch(s) \/ Summary(s) \/ Read(s) \/ Fail(s),
               tx' # NoTx
        PROVE  TxRmInv'
    <2>1. /\ pc[s] # "commit" /\ UNCHANGED tx
          /\ \E c : cmd' = [cmd EXCEPT ![s] = c] \/ cmd' = cmd
          /\ \E id : pst' = [pst EXCEPT ![s] = id] \/ pst' = pst
      BY <1>0, <1>6 DEF Touch, Summary, Read, Fail, Reply, Close, At, SessionInv, local
    <2>2. QED
      BY <1>0, <2>1, HolderWaits DEF TypeOK
  <1>7. QED
    BY <1>1, <1>2, <1>3, <1>4, <1>5, <1>6
    DEF Next, Step, Crash, Start, FindUser, AddUser, Lookup, LookupMisses, Resolve,
        ReadClock, Bump, TouchFails, Commit

LEMMA RemovalStep == RemovalInv /\ [Next]_vars => RemovalInv'
  BY LogStep, PatchsetsStep, RmStep, TxRmStep DEF RemovalInv

\* The step that takes a patchset's row away is its creator's `rm`.
LEMMA OnlyOwnGoes ==
  ASSUME RemovalInv, [Next]_vars, NEW d \in patchsets \ patchsets'
  PROVE  \E s \in Sessions : /\ pc[s] = "commit" /\ pc'[s] # "commit"
                             /\ cmd[s].op = "rm" /\ cmd[s].key = d.user
  <1>1. PICK s \in Sessions : Commit(s)
    BY DEF Next, Step, Tick, Crash, Start, FindUser, AddUser, Lookup, LookupMisses, Resolve,
           ReadClock, WriteNew, WriteAppend, WriteComment, WriteName, WriteRm, Begin, Bump,
           Touch, TouchFails, Summary, Read, Fail, vars, tables
  <1>2. pc[s] = "commit" /\ tx.owner = s /\ d.id \in tx.del
    BY <1>1 DEF Commit, At, RemovalInv, LogInv, SessionInv
  <1>3. cmd[s].op = "rm" /\ d.id = pst[s]
    BY <1>2 DEF RemovalInv, TxRmInv
  <1>4. d.user = cmd[s].key
    BY <1>2, <1>3 DEF RemovalInv, RmInv
  <1>5. pc'[s] # "commit"
    BY <1>1, StepsType DEF Commit, Goto, RemovalInv, LogInv, TypeOK
  <1>6. QED
    BY <1>2, <1>3, <1>4, <1>5

\* An `rm` checks the patchset's creator before it waits for the write lock,
\* and the patchset that goes then is still one of its user's.
THEOREM RemovedByCreatorOnly == Spec => RemovedByCreator
  <1>1. Init => RemovalInv
    BY LogInit, NoTxType, SessionAssumption DEF Init, RemovalInv, PatchsetIdInv, RmInv, TxRmInv
  <1> DEFINE Own == \A d \in patchsets \ patchsets' :
                      \E s \in Sessions : /\ pc[s] = "commit" /\ pc'[s] # "commit"
                                          /\ cmd[s].op = "rm" /\ cmd[s].key = d.user
  <1>2. RemovalInv /\ [Next]_vars => [Own]_vars
    BY OnlyOwnGoes
  <1>3. QED
    BY <1>1, <1>2, RemovalStep, PTL DEF Spec, RemovedByCreator
-----------------------------------------------------------------------------
(***************************************************************************)
(* The inductive invariants.                                               *)
(***************************************************************************)

\* The clock is read under the write lock, where ids are given out too: the
\* rows there are and the one held back have ids and times in one order.
OrderInv ==
  /\ LogInv
  /\ \A d \in patchsets \cup tx.patchsets : d.at <= now
  /\ \A d, e \in patchsets \cup tx.patchsets : d.id < e.id => d.at <= e.at

\* Which commands come to which step.
Routed(op, step) ==
  /\ step \in {"upsert", "adduser"} => op \in {"push", "issue", "comment"}
  /\ step = "lookup" => op \in {"push", "comment", "edit", "show"}
  /\ step = "resolve" => op \in {"rm", "pull"}
  /\ step = "now" => op \in {"push", "issue"}
  /\ step \in {"write", "commit"} => op \in {"push", "issue", "comment", "edit", "rm"}
  /\ step \in {"bump", "touch"} => op \in {"push", "comment", "edit", "rm"}
  /\ step = "summary" => op \in {"push", "issue", "show"}
  /\ step = "read" => op = "pull"
RouteInv == \A s \in Sessions : Routed(cmd[s].op, pc[s])

\* Patch requests are numbered without gaps; their rows are never deleted.
NoRequestLost == \A p \in 1 .. seq.pr : \E r \in prs : r.id = p

\* The patch request that a session looked up, or is about to create, is of the
\* target it was asked for; a command that needs one has one.
LookupInv ==
  \A s \in Sessions :
    /\ pc[s] = "idle" => prq[s] = 0
    /\ prq[s] # 0 =>
         \E r \in prs \cup tx.prs :
           r.id = prq[s] /\ r.target = cmd[s].target /\ (r \in prs \/ tx.owner = s)
    /\ \/ cmd[s].op = "comment" /\ pc[s] \in {"upsert", "adduser", "write"}
       \/ cmd[s].op \in {"edit", "rm"} /\ pc[s] = "write"
       => prq[s] # 0

\* The user of a session that is about to write has a row.
UserInv ==
  \A s \in Sessions :
    \/ pc[s] \in {"now", "write"}
    \/ cmd[s].op = "push" /\ pc[s] = "lookup"
    => cmd[s].key \in users

\* The open transaction's rows refer to rows that are there or come with it.
TxRefInv ==
  tx.owner # NoSession =>
    /\ \A r \in tx.prs : r.user \in users
    /\ \A d \in tx.patchsets : d.user \in users /\ \E r \in prs \cup tx.prs : r.id = d.pr
    /\ \A e \in tx.events : e.user \in users /\ \E r \in prs \cup tx.prs : r.id = e.pr

ReferenceInv ==
  /\ RequestInv
  /\ RouteInv
  /\ NoRequestLost
  /\ LookupInv
  /\ UserInv
  /\ TxRefInv
  /\ NoDanglingRows

\* Patchset ps was submitted to patch request pr, which is target's.
Traced(ps, pr, target) ==
  /\ \E e \in events : IsOrigin(e) /\ e.ps = ps /\ e.pr = pr
  /\ \E r \in prs : r.id = pr /\ r.target = target

\* It was submitted by key.
From(ps, key) == \E e \in events : IsOrigin(e) /\ e.ps = ps /\ e.user = key

Gone(ps) == \A d \in patchsets : d.id # ps

\* What a session is going to tell its user, once it has committed.
HeldInv ==
  \A s \in Sessions :
    /\ cmd[s].op \in {"push", "issue"} /\ pc[s] \in {"bump", "touch", "summary"} =>
         /\ pst[s] \in 1 .. seq.ps
         /\ Traced(pst[s], prq[s], cmd[s].target) /\ From(pst[s], cmd[s].key)
         /\ Content(pst[s]) = Submitted(cmd[s])
    /\ pc[s] = "read" => pst[s] \in 1 .. seq.ps /\ Traced(pst[s], prq[s], cmd[s].target)
    /\ cmd[s].op = "rm" /\ pc[s] \in {"bump", "touch"} => Gone(pst[s])

\* What its transaction is going to make true.
PendingInv ==
  \A s \in Sessions : tx.owner = s =>
    /\ cmd[s].op \in {"push", "issue"} =>
         /\ pst[s] = seq.ps + 1 /\ prq[s] # 0
         /\ \E e \in tx.events :
              IsOrigin(e) /\ e.ps = pst[s] /\ e.pr = prq[s] /\ e.user = cmd[s].key
         /\ {<<p.pos, p.sha>> : p \in tx.patches} = Submitted(cmd[s])
         /\ tx.seq.ps = pst[s]
    /\ cmd[s].op = "rm" => tx.del = {pst[s]}

\* What users were told.
ToldInv ==
  \A a \in acked :
    /\ a.op \in {"push", "issue", "pull"} =>
         /\ a.ps \in 1 .. seq.ps
         /\ Traced(a.ps, a.pr, a.target)
         /\ Content(a.ps) = a.patches
    /\ a.op \in {"push", "issue"} => From(a.ps, a.key)
    /\ a.op = "rm" => a.ps \in 1 .. seq.ps /\ Gone(a.ps)

ClaimInv ==
  /\ ReferenceInv
  /\ HeldInv
  /\ PendingInv
  /\ ToldInv
-----------------------------------------------------------------------------
(***************************************************************************)
(* Revisions follow ids.                                                   *)
(***************************************************************************)

\* Steps that add no row to patchsets and no pending one.
LEMMA OrderKept ==
  ASSUME OrderInv, LogInv', now' >= now,
         patchsets' \cup tx'.patchsets \subseteq patchsets \cup tx.patchsets
  PROVE  OrderInv'
  <1>1. \A d \in patchsets \cup tx.patchsets : d.at \in Nat
    BY DEF OrderInv, LogInv, TypeOK, Delta, PsRow
  <1>2. now \in Nat /\ now' \in Nat
    BY DEF OrderInv, LogInv, TypeOK
  <1>3. QED
    BY <1>1, <1>2 DEF OrderInv

\* A new row is later than all rows and has a larger id.
LEMMA OrderAdds ==
  ASSUME OrderInv, LogInv', NEW s \in Sessions, NEW p,
         tx.owner = NoSession, patchsets' = patchsets, now' = now,
         tx'.patchsets = NewPatchset(s, p)
  PROVE  OrderInv'
  <1>1. \A d \in patchsets : d.at \in Nat /\ d.id \in 1 .. seq.ps /\ d.at <= now
    BY DEF OrderInv, LogInv, TypeOK, PsRow, IdInv
  <1>2. now \in Nat /\ seq.ps \in Nat
    BY DEF OrderInv, LogInv, TypeOK
  <1>3. tx'.patchsets = {[id |-> seq.ps + 1, pr |-> p, user |-> cmd[s].key, at |-> now]}
    BY DEF NewPatchset, NextPs
  <1>4. QED
    BY <1>1, <1>2, <1>3 DEF OrderInv

LEMMA OrderStep == OrderInv /\ [Next]_vars => OrderInv'
  <1> SUFFICES ASSUME OrderInv, [Next]_vars
               PROVE  OrderInv'
    OBVIOUS
  <1>0. LogInv' /\ now \in Nat /\ NoTx.patchsets = {}
    BY LogStep DEF OrderInv, LogInv, TypeOK, NoTx
  <1>1. CASE UNCHANGED patchsets /\ (UNCHANGED tx \/ tx' = NoTx) /\ now' >= now
    BY <1>0, <1>1, OrderKept
  <1>2. ASSUME NEW s \in Sessions, WriteNew(s) \/ WriteAppend(s)
        PROVE  OrderInv'
    <2>1. /\ tx.owner = NoSession /\ patchsets' = patchsets /\ now' = now
          /\ \E p : tx'.patchsets = NewPatchset(s, p)
      BY <1>2 DEF WriteNew, WriteAppend, Begin, WriterFree, tables
    <2>2. QED
      BY <1>0, <2>1, OrderAdds
  <1>3. ASSUME NEW s \in Sessions, WriteComment(s) \/ WriteName(s) \/ WriteRm(s)
        PROVE  OrderInv'
    <2>1. patchsets' = patchsets /\ now' = now /\ tx'.patchsets = {}
      BY <1>3 DEF WriteComment, WriteName, WriteRm, Begin, Change, tables
    <2>2. QED
      BY <1>0, <2>1, OrderKept
  <1>4. ASSUME NEW s \in Sessions, Commit(s)
        PROVE  OrderInv'
    <2>1. now' = now /\ patchsets' \subseteq patchsets \cup tx.patchsets /\ tx' = NoTx
      BY <1>4 DEF Commit
    <2>2. QED
      BY <1>0, <2>1, OrderKept
  <1>5. QED
    BY <1>0, <1>1, <1>2, <1>3, <1>4
    DEF Next, Step, Tick, Crash, Start, FindUser, AddUser, Lookup, LookupMisses, Resolve,
        ReadClock, Bump, Touch, TouchFails, Summary, Read, Fail, vars, tables

LEMMA OrderInit == Init => OrderInv
  BY LogInit DEF Init, OrderInv, NoTx

\* `created_at` has a resolution of a second and the list of patchsets is sorted
\* by it alone: all the same a later patchset is never listed before an earlier.
THEOREM RevisionsFollowIds == Spec => []RevisionsInOrder
  <1>1. OrderInv => RevisionsInOrder
    <2> SUFFICES ASSUME OrderInv, NEW d \in patchsets, NEW e \in patchsets, d.id < e.id
                 PROVE  Before(d, e)
      BY DEF RevisionsInOrder
    <2>1. d.at \in Nat /\ e.at \in Nat /\ d.at <= e.at
      BY DEF OrderInv, LogInv, TypeOK, PsRow
    <2>2. QED
      BY <2>1 DEF Before
  <1>2. QED
    BY OrderInit, OrderStep, <1>1, PTL DEF Spec
-----------------------------------------------------------------------------
(***************************************************************************)
(* Rows refer to rows.                                                     *)
(***************************************************************************)

LEMMA RouteGoto ==
  ASSUME TypeOK, RouteInv, NEW s \in Sessions, NEW step, cmd' = cmd,
         pc' = [pc EXCEPT ![s] = step], Routed(cmd[s].op, step)
  PROVE  RouteInv'
  BY DEF TypeOK, RouteInv

LEMMA RouteClose ==
  ASSUME TypeOK, RouteInv, NEW s \in Sessions, Close(s)
  PROVE  RouteInv'
  <1>1. Routed(NoCommand.op, "idle")
    BY DEF NoCommand, Routed
  <1>2. QED
    BY <1>1 DEF TypeOK, RouteInv, Close, Goto

LEMMA RouteStep == LogInv /\ RouteInv /\ [Next]_vars => RouteInv'
  <1> SUFFICES ASSUME TypeOK, SessionInv, RouteInv, [Next]_vars
               PROVE  RouteInv'
    BY DEF LogInv
  <1>1. CASE Tick \/ UNCHANGED vars
    BY <1>1 DEF Tick, RouteInv, vars, local
  <1>2. CASE Crash
    BY <1>2 DEF Crash, RouteInv, Routed, NoCommand
  <1>3. ASSUME NEW s \in Sessions, Start(s)
        PROVE  RouteInv'
    <2>1. PICK c \in Commands : /\ cmd' = [cmd EXCEPT ![s] = c]
                               /\ pc' = [pc EXCEPT ![s] = FirstStep(c.op)]
      BY <1>3 DEF Start, Goto
    <2>2. Routed(c.op, FirstStep(c.op))
      BY CommandType DEF FirstStep, Routed, Ops
    <2>3. QED
      BY <2>1, <2>2 DEF TypeOK, RouteInv
  <1>4. ASSUME NEW s \in Sessions, FindUser(s) \/ AddUser(s)
        PROVE  RouteInv'
    <2>1. Routed(cmd[s].op, pc[s]) /\ pc[s] \in {"upsert", "adduser"}
      BY <1>4 DEF RouteInv, FindUser, AddUser, At
    <2>2. /\ Routed(cmd[s].op, "adduser")
          /\ Routed(cmd[s].op, AfterUpsert(cmd[s].op))
      BY <2>1 DEF Routed, AfterUpsert
    <2>3. QED
      BY <1>4, <2>2, RouteGoto DEF FindUser, AddUser, Goto, local
  <1>5. ASSUME NEW s \in Sessions, Lookup(s) \/ LookupMisses(s)
        PROVE  RouteInv'
    <2>1. Routed(cmd[s].op, "lookup")
      BY <1>5 DEF RouteInv, Lookup, LookupMisses, At
    <2>2. /\ Routed(cmd[s].op, AfterLookup(cmd[s].op))
          /\ cmd[s].op = "push" => Routed(cmd[s].op, "now")
      BY <2>1 DEF Routed, AfterLookup
    <2>3. QED
      BY <1>5, <2>2, RouteGoto DEF Lookup, LookupMisses, Goto, local
  <1>6. ASSUME NEW s \in Sessions, Resolve(s) \/ ReadClock(s)
        PROVE  RouteInv'
    <2>1. Routed(cmd[s].op, pc[s]) /\ pc[s] \in {"resolve", "now"}
      BY <1>6 DEF RouteInv, Resolve, ReadClock, At
    <2>2. /\ pc[s] = "resolve" => Routed(cmd[s].op, IF cmd[s].op = "rm" THEN "write" ELSE "read")
          /\ pc[s] = "now" => Routed(cmd[s].op, "write")
      BY <2>1 DEF Routed
    <2>3. QED
      BY <1>6, <2>2, RouteGoto DEF Resolve, ReadClock, At, Goto
  <1>7. ASSUME NEW s \in Sessions,
               \/ WriteNew(s) \/ WriteAppend(s) \/ WriteComment(s) \/ WriteName(s) \/ WriteRm(s)
        PROVE  RouteInv'
    <2>1. pc[s] = "write" /\ cmd' = cmd /\ pc' = [pc EXCEPT ![s] = "commit"]
      BY <1>7 DEF WriteNew, WriteAppend, WriteComment, WriteName, WriteRm, Begin, At, Goto
    <2>2. Routed(cmd[s].op, "commit")
      BY <2>1 DEF RouteInv, Routed
    <2>3. QED
      BY <2>1, <2>2, RouteGoto
  <1>8. ASSUME NEW s \in Sessions, Commit(s) \/ Bump(s) \/ TouchFails(s)
        PROVE  RouteInv'
    <2>1. Routed(cmd[s].op, pc[s]) /\ pc[s] \in {"commit", "bump", "touch"}
      BY <1>8 DEF RouteInv, Commit, Bump, TouchFails, At
    <2>2. /\ pc[s] = "commit" => Routed(cmd[s].op, AfterCommit(s))
          /\ pc[s] = "bump" => Routed(cmd[s].op, "touch")
          /\ cmd[s].op = "push" => Routed(cmd[s].op, "summary")
      BY <2>1 DEF Routed, AfterCommit
    <2>3. QED
      BY <1>8, <2>2, RouteGoto DEF Commit, Bump, TouchFails, At, Goto, local
  <1>9. ASSUME NEW s \in Sessions, Touch(s), cmd[s].op = "push"
        PROVE  RouteInv'
    <2>1. Routed(cmd[s].op, "summary")
      BY <1>9 DEF Routed
    <2>2. QED
      BY <1>9, <2>1, RouteGoto DEF Touch, Goto, local
  <1>10. ASSUME NEW s \in Sessions,
                \/ Touch(s) /\ cmd[s].op # "push"
                \/ Summary(s) \/ Read(s) \/ Fail(s)
         PROVE  RouteInv'
    <2>1. Close(s)
      BY <1>10 DEF Touch, Summary, Read, Fail, Reply
    <2>2. QED
      BY <2>1, RouteClose
  <1>11. QED
    BY <1>1, <1>2, <1>3, <1>4, <1>5, <1>6, <1>7, <1>8, <1>9, <1>10 DEF Next, Step
\* A patch request keeps its row, with its id, creator and target.
Stays(r) == \E q \in prs' : q.id = r.id /\ q.user = r.user /\ q.target = r.target

\* Three steps write tables.
LEMMA Writers ==
  ASSUME [Next]_vars
  PROVE  \/ \E s \in Sessions : Commit(s) \/ Touch(s) \/ AddUser(s)
         \/ UNCHANGED tables
  BY DEF Next, Step, Tick, Crash, Start, FindUser, Lookup, LookupMisses, Resolve,
         ReadClock, WriteNew, WriteAppend, WriteComment, WriteName, WriteRm, Begin, Bump,
         TouchFails, Summary, Read, Fail, vars

\* Rows of users, patches and events are only added, a commit writes the rows
\* its transaction held back and nothing else, and no id is given out twice.
LEMMA TablesGrow ==
  ASSUME RequestInv, [Next]_vars
  PROVE  /\ users \subseteq users' /\ patches \subseteq patches' /\ events \subseteq events'
         /\ seq'.pr >= seq.pr /\ seq'.ps >= seq.ps
         /\ \A r \in prs : Stays(r)
         /\ \A r \in prs' : \E q \in prs \cup tx.prs : q.id = r.id /\ q.user = r.user
  <1>0. TypeOK /\ PrIdInv /\ SessionInv /\ seq.pr \in Nat /\ seq.ps \in Nat
    BY DEF RequestInv, LogInv, TypeOK
  <1>1. ASSUME NEW s \in Sessions, Commit(s)
        PROVE  /\ users \subseteq users' /\ patches \subseteq patches' /\ events \subseteq events'
               /\ seq'.pr >= seq.pr /\ seq'.ps >= seq.ps
               /\ \A r \in prs : Stays(r)
               /\ \A r \in prs' : \E q \in prs \cup tx.prs : q.id = r.id /\ q.user = r.user
    <2>1. /\ users' = users /\ patches' = patches \cup tx.patches /\ events' = events \cup tx.events
          /\ prs' = {r \in prs : \A n \in tx.prs : n.id # r.id} \cup tx.prs
          /\ seq' = tx.seq /\ tx.owner = s /\ s # NoSession
      BY <1>0, <1>1, SessionAssumption DEF Commit, At, SessionInv
    <2>2. TxAdds \/ TxRemoves \/ TxSpares
      BY <2>1 DEF RequestInv, LogInv, TxInv
    <2>3. tx.seq.ps = seq.ps \/ tx.seq.ps = seq.ps + 1
      BY <2>2 DEF TxAdds, TxRemoves, TxSpares
    <2>4. CASE TxCreates
      <3>1. tx.seq.pr = seq.pr + 1 /\ \A n \in tx.prs : n.id = seq.pr + 1
        BY <2>4 DEF TxCreates
      <3>2. \A r \in prs : r \in prs'
        BY <1>0, <2>1, <3>1 DEF PrIdInv
      <3>3. QED
        BY <1>0, <2>1, <2>3, <3>1, <3>2 DEF Stays
    <2>5. CASE TxRewrites
      <3>1. \A r \in prs : Stays(r)
        BY <1>0, <2>1, <2>5 DEF TxRewrites, PrIdInv, Stays
      <3>2. QED
        BY <1>0, <2>1, <2>3, <2>5, <3>1 DEF TxRewrites
    <2>6. QED
      BY <2>1, <2>4, <2>5 DEF RequestInv
  <1>2. ASSUME NEW s \in Sessions, Touch(s)
        PROVE  /\ \A r \in prs : Stays(r)
               /\ \A r \in prs' : \E q \in prs \cup tx.prs : q.id = r.id /\ q.user = r.user
    <2>1. /\ prs' = {IF r.id = prq[s] THEN Touched(r, stamp[s]) ELSE r : r \in prs}
          /\ prs \subseteq PrRow /\ stamp[s] \in Nat
      BY <1>0, <1>2 DEF Touch, TypeOK
    <2>2. QED
      BY <2>1, RowTouched DEF Stays
  <1>3. ASSUME UNCHANGED prs
        PROVE  /\ \A r \in prs : Stays(r)
               /\ \A r \in prs' : \E q \in prs \cup tx.prs : q.id = r.id /\ q.user = r.user
    BY <1>3 DEF Stays
  <1>4. CASE \E s \in Sessions : Commit(s)
    BY <1>1, <1>4
  <1>5. CASE \E s \in Sessions : Touch(s)
    BY <1>0, <1>2, <1>5 DEF Touch
  <1>6. CASE (\E s \in Sessions : AddUser(s)) \/ UNCHANGED tables
    BY <1>0, <1>3, <1>6 DEF AddUser, tables
  <1>7. QED
    BY <1>4, <1>5, <1>6, Writers

LEMMA NoneLostStep == RequestInv /\ NoRequestLost /\ [Next]_vars => NoRequestLost'
  <1> SUFFICES ASSUME RequestInv, NoRequestLost, [Next]_vars
               PROVE  NoRequestLost'
    OBVIOUS
  <1>0. \A r \in prs : \E q \in prs' : q.id = r.id
    BY TablesGrow DEF Stays
  <1>1. CASE UNCHANGED seq
    BY <1>0, <1>1 DEF NoRequestLost
  <1>2. ASSUME NEW s \in Sessions, Commit(s)
        PROVE  NoRequestLost'
    <2>1. /\ seq.pr \in Nat /\ seq'.pr = tx.seq.pr /\ tx.prs \subseteq prs'
          /\ TxCreates \/ TxRewrites
      BY <1>2, SessionAssumption DEF Commit, At, RequestInv, LogInv, SessionInv, TypeOK
    <2>2. CASE TxCreates
      <3>1. tx.seq.pr = seq.pr + 1 /\ \E r \in tx.prs : r.id = seq.pr + 1
        BY <2>2 DEF TxCreates
      <3>2. \A p \in 1 .. seq'.pr : p \in 1 .. seq.pr \/ p = seq.pr + 1
        BY <2>1, <3>1
      <3>3. QED
        BY <1>0, <2>1, <3>1, <3>2 DEF NoRequestLost
    <2>3. CASE TxRewrites
      BY <1>0, <2>1, <2>3 DEF TxRewrites, NoRequestLost
    <2>4. QED
      BY <2>1, <2>2, <2>3
  <1>3. QED
    BY <1>1, <1>2, Writers DEF Touch, AddUser, tables

-----------------------------------------------------------------------------
\* What a step does to session s: nothing, the end of it, or a step of its own.
Keeps(s) == pc'[s] = pc[s] /\ cmd'[s] = cmd[s] /\ prq'[s] = prq[s] /\ pst'[s] = pst[s]
Ends(s) == pc'[s] = "idle" /\ cmd'[s] = NoCommand /\ prq'[s] = 0 /\ pst'[s] = 0

LEMMA CloseEnds ==
  ASSUME TypeOK, NEW s \in Sessions, Close(s)
  PROVE  Ends(s) /\ \A t \in Sessions \ {s} : Keeps(t)
  BY DEF TypeOK, Close, Goto, Ends, Keeps

LEMMA OthersKeep ==
  ASSUME TypeOK, NEW s \in Sessions, Start(s) \/ Step(s)
  PROVE  \A t \in Sessions \ {s} : Keeps(t)
  <1>1. CASE Start(s)
    BY <1>1 DEF Start, Goto, TypeOK, Keeps
  <1>2. CASE FindUser(s) \/ AddUser(s) \/ LookupMisses(s) \/ TouchFails(s) \/ Commit(s)
    BY <1>2 DEF FindUser, AddUser, LookupMisses, TouchFails, Commit, Goto, TypeOK, Keeps, local
  <1>3. CASE Lookup(s) \/ Resolve(s) \/ ReadClock(s) \/ Bump(s)
    BY <1>3 DEF Lookup, Resolve, ReadClock, Bump, Goto, TypeOK, Keeps
  <1>4. CASE WriteNew(s) \/ WriteAppend(s)
    BY <1>4 DEF WriteNew, WriteAppend, Begin, Goto, TypeOK, Keeps
  <1>5. CASE WriteComment(s) \/ WriteName(s) \/ WriteRm(s)
    BY <1>5 DEF WriteComment, WriteName, WriteRm, Begin, Goto, TypeOK, Keeps
  <1>6. CASE Touch(s) /\ cmd[s].op = "push"
    BY <1>6 DEF Touch, Goto, TypeOK, Keeps, local
  <1>7. CASE (Touch(s) /\ cmd[s].op # "push") \/ Summary(s) \/ Read(s) \/ Fail(s)
    BY <1>7, CloseEnds DEF Touch, Summary, Read, Fail, Reply
  <1>8. QED
    BY <1>1, <1>2, <1>3, <1>4, <1>5, <1>6, <1>7 DEF Step

LEMMA Moves ==
  ASSUME TypeOK, [Next]_vars, NEW t \in Sessions
  PROVE  Keeps(t) \/ Ends(t) \/ Start(t) \/ Step(t)
  <1>1. CASE Tick \/ UNCHANGED vars
    BY <1>1 DEF Tick, Keeps, vars, local
  <1>2. CASE Crash
    BY <1>2 DEF Crash, Ends
  <1>3. ASSUME NEW s \in Sessions, Start(s) \/ Step(s)
        PROVE  Keeps(t) \/ Ends(t) \/ Start(t) \/ Step(t)
    BY <1>3, OthersKeep
  <1>4. QED
    BY <1>1, <1>2, <1>3 DEF Next

\* While a session holds the write lock nothing is written but by its commit,
\* and its transaction stays what it is or is rolled back.
LEMMA HolderAlone ==
  ASSUME LogInv, [Next]_vars, NEW t \in Sessions, tx.owner = t
  PROVE  \/ Commit(t)
         \/ UNCHANGED tables /\ (tx' = NoTx \/ (tx' = tx /\ Keeps(t)))
  <1>0. /\ TypeOK /\ pc[t] = "commit" /\ t # NoSession
        /\ \A s \in Sessions : pc[s] = "commit" => s = t
    BY SessionAssumption DEF LogInv, SessionInv
  <1>1. CASE Tick \/ UNCHANGED vars
    BY <1>1 DEF Tick, Keeps, vars, local
  <1>2. CASE Crash
    BY <1>2 DEF Crash
  <1>3. ASSUME NEW s \in Sessions,
               \/ Start(s) \/ FindUser(s) \/ Lookup(s) \/ LookupMisses(s) \/ Resolve(s)
               \/ ReadClock(s) \/ Bump(s) \/ TouchFails(s) \/ Summary(s) \/ Read(s)
        PROVE  UNCHANGED tables /\ tx' = tx /\ Keeps(t)
    <2>1. UNCHANGED tables /\ tx' = tx /\ pc[s] # "commit"
      BY <1>3 DEF Start, FindUser, Lookup, LookupMisses, Resolve, ReadClock, Bump,
                  TouchFails, Summary, Read, At
    <2>2. QED
      BY <1>0, <1>3, <2>1, OthersKeep DEF Step
  <1>4. ASSUME NEW s \in Sessions,
               \/ AddUser(s) \/ Touch(s) \/ WriteNew(s) \/ WriteAppend(s) \/ WriteComment(s)
               \/ WriteName(s) \/ WriteRm(s)
        PROVE  FALSE
    BY <1>0, <1>4 DEF AddUser, Touch, WriteNew, WriteAppend, WriteComment, WriteName,
                      WriteRm, Begin, WriterFree
  <1>5. ASSUME NEW s \in Sessions, Commit(s)
        PROVE  Commit(t)
    BY <1>0, <1>5 DEF Commit, At
  <1>6. ASSUME NEW s \in Sessions, Fail(s)
        PROVE  UNCHANGED tables /\ (tx' = NoTx \/ (tx' = tx /\ Keeps(t)))
    BY <1>0, <1>6, CloseEnds DEF Fail
  <1>7. QED
    BY <1>1, <1>2, <1>3, <1>4, <1>5, <1>6 DEF Next, Step

\* The patch request t looked up or is creating is still its command's after a
\* step that leaves t's lookup alone.
LEMMA LookedUpStays ==
  ASSUME RequestInv, LookupInv, [Next]_vars, NEW t \in Sessions,
         prq'[t] = prq[t], cmd'[t] = cmd[t], prq[t] # 0,
         tx.owner = t => Commit(t) \/ pc'[t] = "commit"
  PROVE  \E r \in prs' \cup tx'.prs :
           r.id = prq'[t] /\ r.target = cmd'[t].target /\ (r \in prs' \/ tx'.owner = t)
  <1>0. LogInv /\ LogInv' /\ t # NoSession /\ NoTx.owner = NoSession
    BY LogStep, NoTxType, SessionAssumption DEF RequestInv
  <1>1. PICK r \in prs \cup tx.prs :
          r.id = prq[t] /\ r.target = cmd[t].target /\ (r \in prs \/ tx.owner = t)
    BY DEF LookupInv
  <1>2. CASE r \in prs
    BY <1>1, <1>2, TablesGrow DEF Stays
  <1>3. CASE r \in tx.prs /\ tx.owner = t
    <2>1. CASE Commit(t)
      BY <1>1, <1>3, <2>1 DEF Commit
    <2>2. CASE pc'[t] = "commit"
      <3>1. tx'.owner = t /\ pc[t] = "commit"
        BY <1>0, <1>3, <2>2 DEF LogInv, SessionInv
      <3>2. ~Commit(t) \/ tx'.owner = NoSession
        BY <1>0 DEF Commit
      <3>3. tx' = tx
        BY <1>0, <1>3, <3>1, <3>2, HolderAlone
      <3>4. QED
        BY <1>1, <1>3, <3>1, <3>3
    <2>3. QED
      BY <1>3, <2>1, <2>2
  <1>4. QED
    BY <1>1, <1>2, <1>3

LEMMA LookupStep == RequestInv /\ RouteInv /\ LookupInv /\ [Next]_vars => LookupInv'
  <1> SUFFICES ASSUME RequestInv, RouteInv, LookupInv, [Next]_vars, NEW t \in Sessions
               PROVE  /\ pc'[t] = "idle" => prq'[t] = 0
                      /\ prq'[t] # 0 =>
                           \E r \in prs' \cup tx'.prs :
                             r.id = prq'[t] /\ r.target = cmd'[t].target
                             /\ (r \in prs' \/ tx'.owner = t)
                      /\ \/ cmd'[t].op = "comment" /\ pc'[t] \in {"upsert", "adduser", "write"}
                         \/ cmd'[t].op \in {"edit", "rm"} /\ pc'[t] = "write"
                         => prq'[t] # 0
    BY DEF LookupInv
  <1>0. /\ TypeOK /\ PrIdInv /\ SessionInv /\ SessionInv' /\ Routed(cmd[t].op, pc[t])
        /\ seq.pr \in Nat /\ t # NoSession
    BY LogStep, SessionAssumption DEF RequestInv, RouteInv, LogInv, TypeOK
  <1>1. CASE Keeps(t)
    <2>1. tx.owner = t => pc'[t] = "commit"
      BY <1>0, <1>1 DEF Keeps, SessionInv
    <2>2. QED
      BY <1>1, <2>1, LookedUpStays DEF Keeps, LookupInv
  <1>2. CASE Ends(t)
    BY <1>2 DEF Ends, NoCommand
  <1>3. CASE Start(t)
    <2>1. pc[t] = "idle" /\ prq' = prq /\ prq[t] = 0
      BY <1>3 DEF Start, At, LookupInv
    <2>2. PICK c \in Commands : cmd'[t] = c /\ pc'[t] = FirstStep(c.op)
      BY <1>0, <1>3 DEF Start, Goto, TypeOK
    <2>3. QED
      BY <2>1, <2>2 DEF FirstStep
  <1>4. CASE FindUser(t) \/ AddUser(t) \/ LookupMisses(t) \/ ReadClock(t)
    <2>1. /\ cmd' = cmd /\ prq' = prq /\ tx.owner # t
          /\ pc'[t] # "idle"
          /\ cmd[t].op = "comment" => pc[t] \in {"upsert", "adduser"}
          /\ cmd[t].op \notin {"edit", "rm"}
      BY <1>0, <1>4 DEF FindUser, AddUser, LookupMisses, ReadClock, At, Goto, local, SessionInv,
                        TypeOK, Routed, AfterUpsert
    <2>2. QED
      BY <2>1, LookedUpStays DEF LookupInv
  <1>5. CASE Lookup(t) \/ Resolve(t)
    <2>1. /\ \E r \in prs : r.target = cmd[t].target /\ prq'[t] = r.id
          /\ cmd' = cmd /\ prs' = prs /\ pc'[t] # "idle"
      BY <1>0, <1>5 DEF Lookup, Resolve, Goto, TypeOK, AfterLookup, tables
    <2>2. QED
      BY <1>0, <2>1 DEF PrIdInv
  <1>6. CASE WriteNew(t)
    <2>1. /\ cmd' = cmd /\ prq'[t] = seq.pr + 1 /\ tx'.owner = t /\ pc'[t] = "commit"
          /\ \E r \in tx'.prs : r.id = seq.pr + 1 /\ r.target = cmd[t].target
      BY <1>0, <1>6 DEF WriteNew, Begin, Goto, TypeOK
    <2>2. QED
      BY <2>1
  <1>7. CASE WriteAppend(t) \/ WriteComment(t) \/ WriteName(t) \/ WriteRm(t)
    <2>1. cmd' = cmd /\ prq' = prq /\ tx.owner # t /\ pc'[t] = "commit"
      BY <1>0, <1>7
      DEF WriteAppend, WriteComment, WriteName, WriteRm, Begin, At, Goto, TypeOK, SessionInv
    <2>2. QED
      BY <2>1, LookedUpStays DEF LookupInv
  <1>8. CASE Commit(t) \/ Bump(t) \/ TouchFails(t)
    <2>1. /\ cmd' = cmd /\ prq' = prq /\ pc'[t] \in {"summary", "bump", "touch"}
          /\ Commit(t) \/ tx.owner # t
      BY <1>0, <1>8, StepsType DEF Commit, Bump, TouchFails, At, Goto, TypeOK, SessionInv, local
    <2>2. QED
      BY <2>1, LookedUpStays DEF LookupInv
  <1>9. CASE Touch(t) /\ cmd[t].op = "push"
    <2>1. cmd' = cmd /\ prq' = prq /\ pc'[t] = "summary" /\ tx.owner # t
      BY <1>0, <1>9 DEF Touch, At, Goto, TypeOK, SessionInv, local
    <2>2. QED
      BY <2>1, LookedUpStays DEF LookupInv
  <1>10. CASE (Touch(t) /\ cmd[t].op # "push") \/ Summary(t) \/ Read(t) \/ Fail(t)
    <2>1. Ends(t)
      BY <1>0, <1>10, CloseEnds DEF Touch, Summary, Read, Fail, Reply
    <2>2. QED
      BY <1>2, <2>1
  <1>11. QED
    BY <1>0, <1>1, <1>2, <1>3, <1>4, <1>5, <1>6, <1>7, <1>8, <1>9, <1>10, Moves DEF Step

LEMMA UserStep == RequestInv /\ RouteInv /\ NoDanglingRows /\ UserInv /\ [Next]_vars => UserInv'
  <1> SUFFICES ASSUME RequestInv, RouteInv, NoDanglingRows, UserInv, [Next]_vars,
                      NEW t \in Sessions,
                      \/ pc'[t] \in {"now", "write"}
                      \/ cmd'[t].op = "push" /\ pc'[t] = "lookup"
               PROVE  cmd'[t].key \in users'
    BY DEF UserInv
  <1>0. TypeOK /\ Routed(cmd[t].op, pc[t]) /\ users \subseteq users'
    BY TablesGrow DEF RequestInv, RouteInv, LogInv
  <1>1. CASE Keeps(t)
    BY <1>0, <1>1 DEF Keeps, UserInv
  <1>2. CASE Ends(t)
    BY <1>2 DEF Ends, NoCommand
  <1>3. CASE Start(t)
    <2>1. PICK c \in Commands : cmd'[t] = c /\ pc'[t] = FirstStep(c.op)
      BY <1>0, <1>3 DEF Start, Goto, TypeOK
    <2>2. QED
      BY <2>1 DEF FirstStep
  <1>4. CASE FindUser(t) \/ AddUser(t)
    BY <1>0, <1>4 DEF FindUser, AddUser, Goto, TypeOK, local
  <1>5. CASE Lookup(t)
    <2>1. cmd'[t] = cmd[t] /\ pc[t] = "lookup" /\ pc'[t] = AfterLookup(cmd[t].op)
      BY <1>0, <1>5 DEF Lookup, At, Goto, TypeOK
    <2>2. cmd[t].op \in {"push", "edit"}
      BY <2>1 DEF AfterLookup
    <2>3. cmd[t].op = "edit" => \E r \in prs : r.user = cmd[t].key
      BY <1>5 DEF Lookup
    <2>4. QED
      BY <1>0, <2>1, <2>2, <2>3 DEF UserInv, NoDanglingRows
  <1>6. CASE LookupMisses(t) \/ ReadClock(t)
    <2>1. cmd' = cmd /\ (pc[t] = "now" \/ (cmd[t].op = "push" /\ pc[t] = "lookup"))
      BY <1>6 DEF LookupMisses, ReadClock, At, local
    <2>2. QED
      BY <1>0, <2>1 DEF UserInv
  <1>7. CASE Resolve(t)
    <2>1. /\ cmd'[t] = cmd[t] /\ pc'[t] = IF cmd[t].op = "rm" THEN "write" ELSE "read"
          /\ cmd[t].op = "rm" => \E d \in patchsets : d.user = cmd[t].key
      BY <1>0, <1>7 DEF Resolve, At, Goto, TypeOK, PatchsetsOf
    <2>2. QED
      BY <1>0, <2>1 DEF NoDanglingRows, Routed
  <1>8. CASE \/ WriteNew(t) \/ WriteAppend(t) \/ WriteComment(t) \/ WriteName(t) \/ WriteRm(t)
    BY <1>0, <1>8
    DEF WriteNew, WriteAppend, WriteComment, WriteName, WriteRm, Begin, Goto, TypeOK
  <1>9. CASE Commit(t) \/ Bump(t) \/ TouchFails(t) \/ (Touch(t) /\ cmd[t].op = "push")
    BY <1>0, <1>9, StepsType DEF Commit, Bump, TouchFails, Touch, Goto, TypeOK
  <1>10. CASE (Touch(t) /\ cmd[t].op # "push") \/ Summary(t) \/ Read(t) \/ Fail(t)
    <2>1. Ends(t)
      BY <1>0, <1>10, CloseEnds DEF Touch, Summary, Read, Fail, Reply
    <2>2. QED
      BY <1>2, <2>1
  <1>11. QED
    BY <1>0, <1>1, <1>2, <1>3, <1>4, <1>5, <1>6, <1>7, <1>8, <1>9, <1>10, Moves DEF Step

\* A transaction is opened, or it stays what it is, or it is over.
LEMMA Openers ==
  ASSUME [Next]_vars
  PROVE  \/ tx' = tx \/ tx' = NoTx
         \/ \E s \in Sessions : \/ WriteNew(s) \/ WriteAppend(s) \/ WriteComment(s)
                                \/ WriteName(s) \/ WriteRm(s)
  BY DEF Next, Step, Tick, Crash, Start, FindUser, AddUser, Lookup, LookupMisses, Resolve,
         ReadClock, Commit, Bump, Touch, TouchFails, Summary, Read, Fail, vars

LEMMA TxRefStep ==
  RequestInv /\ RouteInv /\ LookupInv /\ UserInv /\ NoDanglingRows /\ TxRefInv /\ [Next]_vars
    => TxRefInv'
  <1> SUFFICES ASSUME RequestInv, RouteInv, LookupInv, UserInv, NoDanglingRows, TxRefInv,
                      [Next]_vars
               PROVE  TxRefInv'
    OBVIOUS
  <1>0. /\ TypeOK /\ PrIdInv /\ SessionInv /\ users \subseteq users'
        /\ \A r \in prs : \E q \in prs' : q.id = r.id
        /\ NoTx.owner = NoSession
    BY TablesGrow, NoTxType DEF RequestInv, LogInv, Stays
  <1>1. CASE tx' = NoTx
    BY <1>0, <1>1 DEF TxRefInv
  <1>2. CASE tx' = tx
    BY <1>0, <1>2 DEF TxRefInv
  <1>3. ASSUME NEW s \in Sessions, pc[s] = "write"
        PROVE  /\ cmd[s].key \in users
               /\ tx.owner = NoSession /\ prq[s] # 0 => \E r \in prs : r.id = prq[s]
               /\ cmd[s].op \in {"comment", "edit", "rm"} => prq[s] # 0
    BY <1>0, <1>3, SessionAssumption DEF UserInv, LookupInv
  <1>4. ASSUME NEW s \in Sessions, WriteNew(s)
        PROVE  TxRefInv'
    <2>1. /\ cmd[s].key \in users /\ users' = users
          /\ tx'.prs = {[id |-> seq.pr + 1, user |-> cmd[s].key, target |-> cmd[s].target,
                         name |-> cmd[s].name, last |-> stamp[s]]}
          /\ tx'.patchsets = NewPatchset(s, seq.pr + 1)
          /\ tx'.events = Event(s, "pr_created", seq.pr + 1, NextPs)
      BY <1>3, <1>4 DEF WriteNew, Begin, At, tables
    <2>2. /\ \A r \in tx'.prs : r.user = cmd[s].key
          /\ \E r \in tx'.prs : r.id = seq.pr + 1
      BY <2>1
    <2>3. \A d \in tx'.patchsets : d.user = cmd[s].key /\ d.pr = seq.pr + 1
      BY <2>1 DEF NewPatchset
    <2>4. \A e \in tx'.events : e.user = cmd[s].key /\ e.pr = seq.pr + 1
      BY <2>1 DEF Event
    <2>5. QED
      BY <2>1, <2>2, <2>3, <2>4 DEF TxRefInv
  <1>5. ASSUME NEW s \in Sessions, WriteAppend(s)
        PROVE  TxRefInv'
    <2>1. /\ cmd[s].key \in users /\ users' = users /\ prs' = prs
          /\ tx'.prs = {} /\ tx'.patchsets = NewPatchset(s, prq[s])
          /\ \A e \in tx'.events : e \in Event(s, "pr_patchset_added", prq[s], NextPs)
          /\ \E r \in prs : r.id = prq[s]
      BY <1>3, <1>5 DEF WriteAppend, Begin, At, WriterFree, tables
    <2>2. QED
      BY <2>1 DEF TxRefInv, NewPatchset, Event
  <1>6. ASSUME NEW s \in Sessions, WriteComment(s) \/ WriteName(s) \/ WriteRm(s)
        PROVE  TxRefInv'
    <2>1. /\ cmd[s].key \in users /\ users' = users /\ prs' = prs /\ tx'.patchsets = {}
          /\ \E r \in prs : r.id = prq[s]
          /\ \E kind, d : tx'.events = Event(s, kind, prq[s], d)
      BY <1>3, <1>6 DEF WriteComment, WriteName, WriteRm, Begin, Change, At, WriterFree, tables
    <2>2. \A r \in tx'.prs : r.user \in users
      <3>1. CASE WriteName(s)
        <4>1. cmd[s].name \in Names /\ prs \subseteq PrRow
          BY <1>0, <3>1, CommandType DEF WriteName, Begin, At, SessionInv, TypeOK
        <4>2. QED
          BY <3>1, <4>1, RowRenamed DEF WriteName, Begin, Change, NoDanglingRows
      <3>2. QED
        BY <1>6, <3>1 DEF WriteComment, WriteRm, Begin, Change
    <2>3. QED
      BY <2>1, <2>2 DEF TxRefInv, Event
  <1>7. QED
    BY <1>1, <1>2, <1>4, <1>5, <1>6, Openers

LEMMA RowsStep == RequestInv /\ TxRefInv /\ NoDanglingRows /\ [Next]_vars => NoDanglingRows'
  <1> SUFFICES ASSUME RequestInv, TxRefInv, NoDanglingRows, [Next]_vars
               PROVE  NoDanglingRows'
    OBVIOUS
  <1>0. /\ users \subseteq users' /\ patches \subseteq patches' /\ events \subseteq events'
        /\ \A r \in prs : \E q \in prs' : q.id = r.id
        /\ \A r \in prs' : \E q \in prs \cup tx.prs : q.id = r.id /\ q.user = r.user
    BY TablesGrow DEF Stays
  <1>2. ASSUME NEW s \in Sessions, Commit(s)
        PROVE  NoDanglingRows'
    <2>1. /\ tx.owner # NoSession /\ tx.prs \subseteq prs' /\ users' = users
          /\ patchsets' \subseteq patchsets \cup tx.patchsets
          /\ patches' = patches \cup tx.patches /\ events' = events \cup tx.events
      BY <1>2, SessionAssumption DEF Commit, At, RequestInv, LogInv, SessionInv
    <2>2. \A p \in tx.patches : \E e \in tx.events : IsOrigin(e) /\ e.ps = p.ps
      <3>1. TxAdds \/ tx.patches = {}
        BY <2>1 DEF RequestInv, LogInv, TxInv, TxRemoves, TxSpares
      <3>2. QED
        BY <3>1 DEF TxAdds
    <2>3. QED
      BY <1>0, <2>1, <2>2 DEF NoDanglingRows, TxRefInv
  <1>3. CASE UNCHANGED <<patchsets, patches, events>> /\ \A r \in prs' : \E q \in prs : q.user = r.user
    BY <1>0, <1>3 DEF NoDanglingRows
  <1>4. ASSUME NEW s \in Sessions, Touch(s)
        PROVE  \A r \in prs' : \E q \in prs : q.user = r.user
    <2>1. /\ prs' = {IF r.id = prq[s] THEN Touched(r, stamp[s]) ELSE r : r \in prs}
          /\ prs \subseteq PrRow /\ stamp[s] \in Nat
      BY <1>4 DEF Touch, RequestInv, LogInv, TypeOK
    <2>2. QED
      BY <2>1, RowTouched
  <1>5. QED
    BY <1>2, <1>3, <1>4, Writers DEF Touch, AddUser, tables

LEMMA ReferenceInit == Init => ReferenceInv
  <1> SUFFICES ASSUME Init
               PROVE  ReferenceInv
    OBVIOUS
  <1>1. NoCommand.op = "none" /\ NoTx.owner = NoSession /\ NoTx.prs = {} /\ NoIds.pr = 0
    BY DEF NoCommand, NoTx, NoIds
  <1>2. QED
    BY <1>1, LogInit
    DEF Init, ReferenceInv, RequestInv, PrIdInv, TargetsUnique, RouteInv, Routed,
        NoRequestLost, LookupInv, UserInv, TxRefInv, NoDanglingRows

LEMMA ReferenceStep == ReferenceInv /\ [Next]_vars => ReferenceInv'
  BY RequestStep, RouteStep, NoneLostStep, LookupStep, UserStep, TxRefStep, RowsStep
  DEF ReferenceInv, RequestInv

\* No foreign key is enforced, and sessions act on what they looked up some
\* commits ago: all the same every row refers to rows that are there.
THEOREM RowsReferToRows == Spec => []NoDanglingRows
  <1>1. ReferenceInv => NoDanglingRows
    BY DEF ReferenceInv
  <1>2. QED
    BY ReferenceInit, ReferenceStep, <1>1, PTL DEF Spec
-----------------------------------------------------------------------------
(***************************************************************************)
(* What users were told.                                                   *)
(***************************************************************************)

\* All patches of a push are saved under the next id, which has none so far.
LEMMA NewContent ==
  ASSUME TypeOK, IdInv, NEW c \in Commands
  PROVE  {<<p.pos, p.sha>> : p \in NewPatches(NextPs, c.patches)} = Submitted(c)
  <1>1. \A sha : ~Exists(NextPs, sha)
    BY DEF Exists, IdInv, NextPs, TypeOK
  <1>2. NewPatches(NextPs, c.patches) =
          {[ps |-> NextPs, pos |-> i, sha |-> c.patches[i]] : i \in DOMAIN c.patches}
    BY <1>1 DEF NewPatches
  <1>3. \A p \in NewPatches(NextPs, c.patches) : <<p.pos, p.sha>> \in Submitted(c)
    BY <1>2 DEF Submitted
  <1>4. ASSUME NEW i \in DOMAIN c.patches
        PROVE  \E p \in NewPatches(NextPs, c.patches) : p.pos = i /\ p.sha = c.patches[i]
    <2> DEFINE row == [ps |-> NextPs, pos |-> i, sha |-> c.patches[i]]
    <2>1. row \in NewPatches(NextPs, c.patches)
      BY <1>2
    <2>2. row.pos = i /\ row.sha = c.patches[i]
      OBVIOUS
    <2>3. QED
      BY <2>1, <2>2
  <1>5. \A x \in Submitted(c) :
          \E p \in NewPatches(NextPs, c.patches) : x = <<p.pos, p.sha>>
    BY <1>4 DEF Submitted
  <1>6. QED
    BY <1>3, <1>5

\* The rows of a patchset id that was given out neither grow nor shrink, and
\* once removed the patchset does not come back.
LEMMA GivenOutStays ==
  ASSUME LogInv, [Next]_vars, NEW id \in 1 .. seq.ps
  PROVE  /\ {p \in patches' : p.ps = id} = {p \in patches : p.ps = id}
         /\ (\A d \in patchsets : d.id # id) => \A d \in patchsets' : d.id # id
         /\ id \in 1 .. seq'.ps
  <1>0. seq.ps \in Nat
    BY DEF LogInv, TypeOK
  <1>1. ASSUME NEW s \in Sessions, Commit(s)
        PROVE  /\ {p \in patches' : p.ps = id} = {p \in patches : p.ps = id}
               /\ (\A d \in patchsets : d.id # id) => \A d \in patchsets' : d.id # id
               /\ id \in 1 .. seq'.ps
    <2>1. /\ tx.owner # NoSession /\ seq' = tx.seq /\ patches' = patches \cup tx.patches
          /\ patchsets' \subseteq patchsets \cup tx.patchsets
      BY <1>1, SessionAssumption DEF Commit, At, LogInv, SessionInv
    <2>2. TxAdds \/ TxRemoves \/ TxSpares
      BY <2>1 DEF LogInv, TxInv
    <2>3. /\ tx.seq.ps \in {seq.ps, seq.ps + 1}
          /\ \A p \in tx.patches : p.ps = seq.ps + 1
          /\ \A d \in tx.patchsets : d.id = seq.ps + 1
      BY <2>2 DEF TxAdds, TxRemoves, TxSpares
    <2>4. QED
      BY <1>0, <2>1, <2>3
  <1>2. QED
    BY <1>1, Writers DEF Touch, AddUser, tables

\* Where a patchset came from stays on record.
LEMMA TraceStays ==
  ASSUME RequestInv, [Next]_vars, NEW ps, NEW pr, NEW target
  PROVE  /\ (\E e \in events : IsOrigin(e) /\ e.ps = ps /\ e.pr = pr)
              => \E e \in events' : IsOrigin(e) /\ e.ps = ps /\ e.pr = pr
         /\ (\E r \in prs : r.id = pr /\ r.target = target)
              => \E r \in prs' : r.id = pr /\ r.target = target
         /\ \A key : (\E e \in events : IsOrigin(e) /\ e.ps = ps /\ e.user = key)
              => \E e \in events' : IsOrigin(e) /\ e.ps = ps /\ e.user = key
  BY TablesGrow DEF Stays

LEMMA PendingStep == ReferenceInv /\ PendingInv /\ [Next]_vars => PendingInv'
  <1> SUFFICES ASSUME ReferenceInv, PendingInv, [Next]_vars,
                      NEW t \in Sessions, tx'.owner = t
               PROVE  /\ cmd'[t].op \in {"push", "issue"} =>
                           /\ pst'[t] = seq'.ps + 1 /\ prq'[t] # 0
                           /\ \E e \in tx'.events :
                                IsOrigin(e) /\ e.ps = pst'[t] /\ e.pr = prq'[t]
                                /\ e.user = cmd'[t].key
                           /\ {<<p.pos, p.sha>> : p \in tx'.patches} = Submitted(cmd[t])'
                           /\ tx'.seq.ps = pst'[t]
                      /\ cmd'[t].op = "rm" => tx'.del = {pst'[t]}
    BY DEF PendingInv, IsOrigin
  <1>0. /\ LogInv /\ TypeOK /\ SessionInv /\ IdInv /\ NoTx.owner # t
        /\ seq.ps \in Nat /\ seq.pr \in Nat
    BY NoTxType, SessionAssumption DEF ReferenceInv, RequestInv, LogInv, TypeOK
  <1>1. CASE tx' = tx
    <2>1. tx.owner = t
      BY <1>1
    <2>2. ~Commit(t)
      BY <1>0, <1>1, <2>1 DEF Commit
    <2>3. UNCHANGED seq /\ Keeps(t)
      BY <1>0, <1>1, <2>1, <2>2, HolderAlone DEF tables
    <2>4. QED
      BY <1>1, <2>1, <2>3 DEF PendingInv, Keeps, Submitted
  <1>2. CASE WriteNew(t)
    <2>1. /\ pst'[t] = NextPs /\ prq'[t] = seq.pr + 1 /\ cmd' = cmd /\ seq' = seq
          /\ tx'.events = Event(t, "pr_created", seq.pr + 1, NextPs)
          /\ tx'.patches = NewPatches(NextPs, cmd[t].patches)
          /\ tx'.seq = Ids(seq.pr + 1, NextPs)
          /\ cmd[t].op # "rm" /\ cmd[t] \in Commands
      BY <1>0, <1>2 DEF WriteNew, Begin, At, SessionInv, TypeOK, tables
    <2>2. {<<p.pos, p.sha>> : p \in tx'.patches} = Submitted(cmd[t])
      BY <1>0, <2>1, NewContent
    <2>3. QED
      BY <1>0, <2>1, <2>2 DEF NextPs, Event, Ids, IsOrigin, Submitted
  <1>3. CASE WriteAppend(t)
    <2>1. cmd[t].op = "push" /\ cmd[t] \in Commands
      BY <1>0, <1>3 DEF WriteAppend, Begin, At, SessionInv
    <2>2. NewPatches(NextPs, cmd[t].patches) # {}
      BY <1>0, <2>1, AllSaved
    <2>3. /\ pst'[t] = NextPs /\ prq' = prq /\ prq[t] # 0 /\ cmd' = cmd /\ seq' = seq
          /\ tx'.events = Event(t, "pr_patchset_added", prq[t], NextPs)
          /\ tx'.patches = NewPatches(NextPs, cmd[t].patches)
          /\ tx'.seq = Ids(seq.pr, NextPs)
      BY <1>0, <1>3, <2>2 DEF WriteAppend, Begin, TypeOK, tables
    <2>4. {<<p.pos, p.sha>> : p \in tx'.patches} = Submitted(cmd[t])
      BY <1>0, <2>1, <2>3, NewContent
    <2>5. QED
      BY <1>0, <2>1, <2>3, <2>4 DEF NextPs, Event, Ids, IsOrigin, Submitted
  <1>4. CASE WriteComment(t) \/ WriteName(t) \/ WriteRm(t)
    <2>1. /\ cmd' = cmd /\ pst' = pst /\ cmd[t].op \in {"comment", "edit", "rm"}
          /\ cmd[t].op = "rm" => tx'.del = {pst[t]}
      BY <1>4 DEF WriteComment, WriteName, WriteRm, Begin, Change
    <2>2. QED
      BY <2>1
  <1>5. ASSUME NEW s \in Sessions,
               \/ WriteNew(s) \/ WriteAppend(s) \/ WriteComment(s) \/ WriteName(s) \/ WriteRm(s)
        PROVE  s = t
    BY <1>5 DEF WriteNew, WriteAppend, WriteComment, WriteName, WriteRm, Begin, Change
  <1>6. QED
    BY <1>0, <1>1, <1>2, <1>3, <1>4, <1>5, Openers

\* What a session holds stays true while it waits.
LEMMA HeldStays ==
  ASSUME ReferenceInv, HeldInv, [Next]_vars, NEW t \in Sessions,
         cmd'[t] = cmd[t], prq'[t] = prq[t], pst'[t] = pst[t]
  PROVE  /\ cmd[t].op \in {"push", "issue"} /\ pc[t] \in {"bump", "touch", "summary"} =>
              /\ pst[t] \in 1 .. seq'.ps
              /\ Traced(pst[t], prq[t], cmd[t].target)' /\ From(pst[t], cmd[t].key)'
              /\ Content(pst[t])' = Submitted(cmd[t])
         /\ pc[t] = "read" => pst[t] \in 1 .. seq'.ps /\ Traced(pst[t], prq[t], cmd[t].target)'
         /\ cmd[t].op = "rm" /\ pc[t] \in {"bump", "touch"} => Gone(pst[t])'
  <1>0. RequestInv /\ LogInv /\ SessionInv
    BY DEF ReferenceInv, RequestInv, LogInv
  <1>1. ASSUME pst[t] \in 1 .. seq.ps
        PROVE  /\ pst[t] \in 1 .. seq'.ps /\ Content(pst[t])' = Content(pst[t])
               /\ Gone(pst[t]) => Gone(pst[t])'
    BY <1>0, <1>1, GivenOutStays DEF Content, Gone
  <1>2. /\ Traced(pst[t], prq[t], cmd[t].target) => Traced(pst[t], prq[t], cmd[t].target)'
        /\ From(pst[t], cmd[t].key) => From(pst[t], cmd[t].key)'
    BY <1>0, TraceStays DEF Traced, From, IsOrigin
  <1>3. QED
    BY <1>0, <1>1, <1>2 DEF HeldInv, SessionInv

\* A commit makes true what its session is going to tell.
LEMMA HeldCommit ==
  ASSUME ReferenceInv, PendingInv, [Next]_vars, NEW t \in Sessions, Commit(t)
  PROVE  /\ cmd[t].op \in {"push", "issue"} =>
              /\ pst[t] \in 1 .. seq'.ps
              /\ Traced(pst[t], prq[t], cmd[t].target)' /\ From(pst[t], cmd[t].key)'
              /\ Content(pst[t])' = Submitted(cmd[t])
         /\ cmd[t].op = "rm" => Gone(pst[t])'
  <1>0. /\ RequestInv /\ LogInv /\ TypeOK /\ IdInv /\ seq.ps \in Nat /\ tx.owner = t
        /\ seq' = tx.seq /\ patches' = patches \cup tx.patches
        /\ patchsets' = {r \in patchsets : r.id \notin tx.del} \cup tx.patchsets
        /\ events' = events \cup tx.events /\ tx.prs \subseteq prs'
        /\ cmd' = cmd /\ prq' = prq /\ pst' = pst
    BY DEF ReferenceInv, RequestInv, LogInv, SessionInv, TypeOK, Commit, At, local
  <1>1. TxAdds \/ TxRemoves \/ TxSpares
    BY <1>0, SessionAssumption DEF LogInv, TxInv
  <1>2. ASSUME cmd[t].op \in {"push", "issue"}
        PROVE  /\ pst[t] \in 1 .. seq'.ps
               /\ Traced(pst[t], prq[t], cmd[t].target)' /\ From(pst[t], cmd[t].key)'
               /\ Content(pst[t])' = Submitted(cmd[t])
    <2>1. /\ pst[t] = seq.ps + 1 /\ tx.seq.ps = pst[t] /\ prq[t] # 0
          /\ \E e \in tx.events :
               IsOrigin(e) /\ e.ps = pst[t] /\ e.pr = prq[t] /\ e.user = cmd[t].key
          /\ {<<p.pos, p.sha>> : p \in tx.patches} = Submitted(cmd[t])
      BY <1>0, <1>2 DEF PendingInv
    <2>2. \A p \in tx.patches : p.ps = pst[t]
      BY <1>0, <1>1, <2>1 DEF TxAdds, TxRemoves, TxSpares
    <2>3. \A p \in patches : p.ps # pst[t]
      BY <1>0, <2>1 DEF IdInv
    <2>4. {q \in patches' : q.ps = pst[t]} = tx.patches
      BY <1>0, <2>2, <2>3
    <2>5. Content(pst[t])' = Submitted(cmd[t])
      BY <1>0, <2>1, <2>4 DEF Content
    <2>6. \E r \in prs' : r.id = prq[t] /\ r.target = cmd[t].target
      <3>1. PICK r \in prs \cup tx.prs : r.id = prq[t] /\ r.target = cmd[t].target
        BY <2>1 DEF ReferenceInv, LookupInv
      <3>2. QED
        BY <1>0, <3>1, TablesGrow DEF Stays
    <2>7. QED
      BY <1>0, <2>1, <2>5, <2>6 DEF Traced, From, IsOrigin
  <1>3. ASSUME cmd[t].op = "rm"
        PROVE  Gone(pst[t])'
    <2>1. tx.del = {pst[t]}
      BY <1>0, <1>3 DEF PendingInv
    <2>2. tx.patchsets = {}
      BY <1>1, <2>1 DEF TxAdds, TxRemoves, TxSpares
    <2>3. QED
      BY <1>0, <2>1, <2>2 DEF Gone
  <1>4. QED
    BY <1>2, <1>3

LEMMA HeldStep == ReferenceInv /\ HeldInv /\ PendingInv /\ [Next]_vars => HeldInv'
  <1> SUFFICES ASSUME ReferenceInv, HeldInv, PendingInv, [Next]_vars, NEW t \in Sessions
               PROVE  /\ cmd'[t].op \in {"push", "issue"}
                         /\ pc'[t] \in {"bump", "touch", "summary"} =>
                           /\ pst'[t] \in 1 .. seq'.ps
                           /\ Traced(pst[t], prq[t], cmd[t].target)' /\ From(pst[t], cmd[t].key)'
                           /\ Content(pst[t])' = Submitted(cmd[t])'
                      /\ pc'[t] = "read" =>
                           pst'[t] \in 1 .. seq'.ps /\ Traced(pst[t], prq[t], cmd[t].target)'
                      /\ cmd'[t].op = "rm" /\ pc'[t] \in {"bump", "touch"} => Gone(pst[t])'
    BY DEF HeldInv
  <1>0. /\ RequestInv /\ LogInv /\ TypeOK /\ SessionInv /\ IdInv /\ OriginLogged
        /\ Routed(cmd[t].op, pc[t])
    BY DEF ReferenceInv, RequestInv, LogInv, RouteInv
  <1>1. CASE Keeps(t)
    BY <1>1, HeldStays DEF Keeps, Submitted, Traced, From, Content, Gone
  <1>2. CASE Ends(t)
    BY <1>2 DEF Ends
  <1>3. CASE Start(t)
    <2>1. \E c \in Commands : pc'[t] = FirstStep(c.op)
      BY <1>0, <1>3 DEF Start, Goto, TypeOK
    <2>2. QED
      BY <2>1 DEF FirstStep
  <1>4. CASE FindUser(t) \/ AddUser(t) \/ Lookup(t)
    <2>1. /\ cmd' = cmd
          /\ \/ pc'[t] \in {"adduser", AfterUpsert(cmd[t].op)}
             \/ cmd[t].op # "issue" /\ pc'[t] = AfterLookup(cmd[t].op)
      BY <1>0, <1>4 DEF FindUser, AddUser, Lookup, At, Goto, TypeOK, local, Routed
    <2>2. QED
      BY <2>1 DEF AfterUpsert, AfterLookup
  <1>5. CASE \/ LookupMisses(t) \/ ReadClock(t) \/ WriteNew(t) \/ WriteAppend(t)
             \/ WriteComment(t) \/ WriteName(t) \/ WriteRm(t)
    BY <1>0, <1>5 DEF LookupMisses, ReadClock, WriteNew, WriteAppend, WriteComment, WriteName,
                      WriteRm, Begin, Goto, TypeOK
  <1>6. CASE Resolve(t)
    <2>1. PICK r \in prs, d \in patchsets :
            /\ d.pr = r.id /\ r.target = cmd[t].target
            /\ prq' = [prq EXCEPT ![t] = r.id] /\ pst' = [pst EXCEPT ![t] = d.id]
      BY <1>6 DEF Resolve, PatchsetsOf
    <2>2. /\ cmd' = cmd /\ events' = events /\ prs' = prs /\ seq' = seq
          /\ pc'[t] \in {"write", "read"} /\ prq'[t] = r.id /\ pst'[t] = d.id
      BY <1>0, <1>6, <2>1 DEF Resolve, Goto, TypeOK, tables
    <2>3. d.id \in 1 .. seq.ps /\ \E e \in events : IsOrigin(e) /\ e.ps = d.id /\ e.pr = r.id
      BY <1>0, <2>1 DEF IdInv, OriginLogged
    <2>4. QED
      BY <2>1, <2>2, <2>3 DEF Traced, IsOrigin
  <1>7. CASE Commit(t)
    <2>1. cmd' = cmd /\ prq' = prq /\ pst' = pst /\ pc'[t] \in {"summary", "bump"}
      BY <1>0, <1>7, StepsType DEF Commit, Goto, TypeOK, local
    <2>2. QED
      BY <1>7, <2>1, HeldCommit DEF Submitted, Traced, From, Content, Gone
  <1>8. CASE Bump(t) \/ TouchFails(t) \/ (Touch(t) /\ cmd[t].op = "push")
    <2>1. /\ cmd' = cmd /\ prq' = prq /\ pst' = pst
          /\ pc[t] \in {"bump", "touch"} /\ pc'[t] \in {"touch", "summary"}
      BY <1>0, <1>8 DEF Bump, TouchFails, Touch, At, Goto, TypeOK, local
    <2>2. QED
      BY <2>1, HeldStays DEF Submitted, Traced, From, Content, Gone
  <1>9. CASE (Touch(t) /\ cmd[t].op # "push") \/ Summary(t) \/ Read(t) \/ Fail(t)
    <2>1. Ends(t)
      BY <1>0, <1>9, CloseEnds DEF Touch, Summary, Read, Fail, Reply
    <2>2. QED
      BY <1>2, <2>1
  <1>10. QED
    BY <1>0, <1>1, <1>2, <1>3, <1>4, <1>5, <1>6, <1>7, <1>8, <1>9, Moves DEF Step

LEMMA ToldStep == ReferenceInv /\ HeldInv /\ ToldInv /\ [Next]_vars => ToldInv'
  <1> SUFFICES ASSUME ReferenceInv, HeldInv, ToldInv, [Next]_vars,
                      NEW a \in acked'
               PROVE  /\ a.op \in {"push", "issue", "pull"} =>
                           /\ a.ps \in 1 .. seq'.ps
                           /\ Traced(a.ps, a.pr, a.target)'
                           /\ Content(a.ps)' = a.patches
                      /\ a.op \in {"push", "issue"} => From(a.ps, a.key)'
                      /\ a.op = "rm" => a.ps \in 1 .. seq'.ps /\ Gone(a.ps)'
    BY DEF ToldInv
  <1>0. RequestInv /\ LogInv /\ TypeOK /\ SessionInv /\ RouteInv
    BY DEF ReferenceInv, RequestInv, LogInv
  <1>1. CASE /\ a.op \in {"push", "issue", "pull"} =>
                  /\ a.ps \in 1 .. seq.ps
                  /\ Traced(a.ps, a.pr, a.target)
                  /\ Content(a.ps) = a.patches
             /\ a.op \in {"push", "issue"} => From(a.ps, a.key)
             /\ a.op = "rm" => a.ps \in 1 .. seq.ps /\ Gone(a.ps)
    <2>1. ASSUME a.ps \in 1 .. seq.ps
          PROVE  /\ a.ps \in 1 .. seq'.ps /\ Content(a.ps)' = Content(a.ps)
                 /\ Gone(a.ps) => Gone(a.ps)'
      BY <1>0, <2>1, GivenOutStays DEF Content, Gone
    <2>2. /\ Traced(a.ps, a.pr, a.target) => Traced(a.ps, a.pr, a.target)'
          /\ From(a.ps, a.key) => From(a.ps, a.key)'
      BY <1>0, TraceStays DEF Traced, From, IsOrigin
    <2>3. QED
      BY <1>1, <2>1, <2>2
  <1>2. CASE a \in acked
    BY <1>1, <1>2 DEF ToldInv
  <1>3. ASSUME NEW s \in Sessions, NEW content, Reply(s, content),
               cmd[s].op \in {"push", "issue", "pull"} =>
                 /\ pst[s] \in 1 .. seq.ps
                 /\ Traced(pst[s], prq[s], cmd[s].target)
                 /\ Content(pst[s]) = content,
               cmd[s].op \in {"push", "issue"} => From(pst[s], cmd[s].key),
               cmd[s].op = "rm" => pst[s] \in 1 .. seq.ps /\ Gone(pst[s]),
               a \notin acked
        PROVE  /\ a.op \in {"push", "issue", "pull"} =>
                    /\ a.ps \in 1 .. seq.ps
                    /\ Traced(a.ps, a.pr, a.target)
                    /\ Content(a.ps) = a.patches
               /\ a.op \in {"push", "issue"} => From(a.ps, a.key)
               /\ a.op = "rm" => a.ps \in 1 .. seq.ps /\ Gone(a.ps)
    <2>1. /\ a.op = cmd[s].op /\ a.key = cmd[s].key /\ a.target = cmd[s].target
          /\ a.pr = prq[s] /\ a.ps = pst[s] /\ a.patches = content
      BY <1>3 DEF Reply
    <2>2. QED
      BY <1>3, <2>1
  <1>4. ASSUME NEW s \in Sessions, Touch(s), cmd[s].op # "push"
        PROVE  \E content : /\ Reply(s, content) /\ cmd[s].op \notin {"push", "issue", "pull"}
                            /\ cmd[s].op = "rm" => pst[s] \in 1 .. seq.ps /\ Gone(pst[s])
    <2>1. Reply(s, {}) /\ pc[s] = "touch"
      BY <1>4 DEF Touch, At
    <2>2. cmd[s].op \in {"comment", "edit", "rm"}
      BY <1>0, <1>4, <2>1 DEF RouteInv, Routed
    <2>3. QED
      BY <1>0, <2>1, <2>2 DEF SessionInv, HeldInv
  <1>5. ASSUME NEW s \in Sessions, Summary(s)
        PROVE  /\ Reply(s, Submitted(cmd[s])) /\ cmd[s].op \in {"push", "issue", "show"}
               /\ cmd[s].op \in {"push", "issue"} =>
                    /\ pst[s] \in 1 .. seq.ps
                    /\ Traced(pst[s], prq[s], cmd[s].target)
                    /\ Content(pst[s]) = Submitted(cmd[s])
                    /\ From(pst[s], cmd[s].key)
    BY <1>0, <1>5 DEF Summary, At, HeldInv, RouteInv, Routed
  <1>6. ASSUME NEW s \in Sessions, Read(s)
        PROVE  /\ Reply(s, Content(pst[s])) /\ cmd[s].op = "pull"
               /\ pst[s] \in 1 .. seq.ps /\ Traced(pst[s], prq[s], cmd[s].target)
    BY <1>0, <1>6 DEF Read, At, HeldInv, RouteInv, Routed
  <1>7. CASE \E s \in Sessions : Touch(s) /\ cmd[s].op # "push"
    BY <1>1, <1>2, <1>3, <1>4, <1>7
  <1>8. CASE \E s \in Sessions : Summary(s)
    BY <1>1, <1>2, <1>3, <1>5, <1>8
  <1>9. CASE \E s \in Sessions : Read(s)
    BY <1>1, <1>2, <1>3, <1>6, <1>9
  <1>10. \/ acked' = acked
         \/ \E s \in Sessions : \/ Touch(s) /\ cmd[s].op # "push"
                                \/ Summary(s) \/ Read(s)
    BY DEF Next, Step, Tick, Crash, Start, FindUser, AddUser, Lookup, LookupMisses, Resolve,
           ReadClock, WriteNew, WriteAppend, WriteComment, WriteName, WriteRm, Begin, Commit,
           Bump, Touch, TouchFails, Fail, vars
  <1>11. QED
    BY <1>2, <1>7, <1>8, <1>9, <1>10

LEMMA ClaimInit == Init => ClaimInv
  <1> SUFFICES ASSUME Init
               PROVE  ClaimInv
    OBVIOUS
  <1>1. NoCommand.op = "none" /\ NoTx.owner = NoSession
    BY DEF NoCommand, NoTx
  <1>2. HeldInv /\ PendingInv /\ ToldInv
    BY <1>1, SessionAssumption DEF Init, HeldInv, PendingInv, ToldInv
  <1>3. QED
    BY <1>2, ReferenceInit DEF ClaimInv

LEMMA ClaimStep == ClaimInv /\ [Next]_vars => ClaimInv'
  BY ReferenceStep, HeldStep, PendingStep, ToldStep DEF ClaimInv

\* Whatever runs later, fails or crashes, what a user was told remains so: what
\* was pushed is there as it was sent, under its target, or its removal is on
\* record, and what was removed stays away.
THEOREM ClaimsStand == Spec => []AckedIntact
  <1>1. ASSUME ClaimInv
        PROVE  AckedIntact
    <2> SUFFICES ASSUME NEW a \in acked
                 PROVE  /\ a.op \in {"push", "issue"} =>
                             /\ \E r \in prs : r.id = a.pr /\ r.target = a.target
                             /\ Content(a.ps) = a.patches
                             /\ \/ \E d \in patchsets : d.id = a.ps /\ d.pr = a.pr /\ d.user = a.key
                                \/ \E e \in events : IsRemoval(e) /\ e.ps = a.ps
                        /\ a.op = "rm" => \A d \in patchsets : d.id # a.ps
      BY DEF AckedIntact
    <2>1. OriginLogged /\ RemovalLogged
      BY <1>1 DEF ClaimInv, ReferenceInv, RequestInv, LogInv
    <2>2. ASSUME a.op \in {"push", "issue"}
          PROVE  /\ a.ps \in 1 .. seq.ps /\ Traced(a.ps, a.pr, a.target) /\ From(a.ps, a.key)
                 /\ Content(a.ps) = a.patches
      BY <1>1, <2>2 DEF ClaimInv, ToldInv
    <2>3. ASSUME a.op \in {"push", "issue"}, NEW d \in patchsets, d.id = a.ps
          PROVE  d.pr = a.pr /\ d.user = a.key
      BY <2>1, <2>2, <2>3 DEF OriginLogged, Traced, From
    <2>4. a.op = "rm" => Gone(a.ps)
      BY <1>1 DEF ClaimInv, ToldInv
    <2>5. QED
      BY <2>1, <2>2, <2>3, <2>4 DEF RemovalLogged, Traced, Gone
  <1>2. QED
    BY ClaimInit, ClaimStep, <1>1, PTL DEF Spec

\* The row of a patchset and its patches are two queries, and a removal may come
\* between: `pull` prints all the same what was pushed, whole.
THEOREM PullsAreWhole == Spec => []PullIsWhole
  <1>1. ASSUME ClaimInv
        PROVE  PullIsWhole
    <2> SUFFICES ASSUME NEW a \in acked, NEW b \in acked,
                        a.op = "pull", b.op \in {"push", "issue"}, a.ps = b.ps
                 PROVE  a.patches = b.patches /\ a.target = b.target
      BY DEF PullIsWhole
    <2>1. /\ a.ps \in 1 .. seq.ps /\ Content(a.ps) = a.patches /\ Content(b.ps) = b.patches
          /\ Traced(a.ps, a.pr, a.target) /\ Traced(b.ps, b.pr, b.target)
      BY <1>1 DEF ClaimInv, ToldInv
    <2>2. OriginLogged /\ PrIdInv
      BY <1>1 DEF ClaimInv, ReferenceInv, RequestInv, LogInv
    <2>3. a.pr = b.pr
      BY <2>1, <2>2 DEF OriginLogged, Traced
    <2>4. QED
      BY <2>1, <2>2, <2>3 DEF PrIdInv, Traced
  <1>2. QED
    BY ClaimInit, ClaimStep, <1>1, PTL DEF Spec
-----------------------------------------------------------------------------
(***************************************************************************)
(* Revisions only shift down.                                              *)
(***************************************************************************)

\* Revisions count rows: there are finitely many, in one order of ids and times.
RevisionInv ==
  /\ OrderInv
  /\ RemovalInv
  /\ IsFiniteSet(patchsets)

\* A step leaves all patchsets alone, or adds rows that come after all of them.
LEMMA LaterOnly ==
  ASSUME RevisionInv, [Next]_vars
  PROVE  \/ patchsets' \subseteq patchsets
         \/ \E n : /\ patchsets' \subseteq patchsets \cup {n}
                   /\ \A d \in patchsets : ~Before(n, d)
  <1>1. ASSUME NEW s \in Sessions, Commit(s)
        PROVE  \/ patchsets' \subseteq patchsets
               \/ \E n : /\ patchsets' \subseteq patchsets \cup {n}
                         /\ \A d \in patchsets : ~Before(n, d)
    <2>1. /\ tx.owner = s /\ s # NoSession /\ patchsets' \subseteq patchsets \cup tx.patchsets
          /\ LogInv /\ seq.ps \in Nat
      BY <1>1, SessionAssumption
      DEF Commit, At, RevisionInv, OrderInv, LogInv, SessionInv, TypeOK
    <2>2. TxAdds \/ TxRemoves \/ TxSpares
      BY <2>1 DEF LogInv, TxInv
    <2>3. CASE TxAdds
      <3>1. PICK n \in tx.patchsets : tx.patchsets = {n} /\ n.id = seq.ps + 1
        BY <2>3 DEF TxAdds
      <3>2. ASSUME NEW d \in patchsets
            PROVE  ~Before(n, d)
        <4>1. d.id \in Nat /\ n.id \in Nat /\ d.id < n.id
          BY <2>1, <3>1 DEF LogInv, IdInv
        <4>2. d.at \in Nat /\ n.at \in Nat /\ d.at <= n.at
          BY <2>1, <3>1, <4>1 DEF RevisionInv, OrderInv, LogInv, TypeOK, Delta, PsRow
        <4>3. QED
          BY <4>1, <4>2 DEF Before
      <3>3. QED
        BY <2>1, <3>1, <3>2
    <2>4. CASE TxRemoves \/ TxSpares
      BY <2>1, <2>4 DEF TxRemoves, TxSpares
    <2>5. QED
      BY <2>2, <2>3, <2>4
  <1>2. QED
    BY <1>1, Writers DEF Touch, AddUser, tables

LEMMA RevisionStep == RevisionInv /\ [Next]_vars => RevisionInv'
  <1> SUFFICES ASSUME RevisionInv, [Next]_vars
               PROVE  IsFiniteSet(patchsets')
    BY OrderStep, RemovalStep DEF RevisionInv
  <1>1. CASE patchsets' \subseteq patchsets
    BY <1>1, FS_Subset DEF RevisionInv
  <1>2. ASSUME NEW n, patchsets' \subseteq patchsets \cup {n}
        PROVE  IsFiniteSet(patchsets')
    <2>1. IsFiniteSet(patchsets \cup {n})
      BY FS_AddElement DEF RevisionInv
    <2>2. QED
      BY <1>2, <2>1, FS_Subset
  <1>3. QED
    BY <1>1, <1>2, LaterOnly

\* The patchsets listed before d.
Earlier(rows, d) == {q \in rows : q.pr = d.pr /\ Before(q, d)}

LEMMA ShiftsDown ==
  ASSUME RevisionInv, [Next]_vars, NEW d \in patchsets \cap patchsets'
  PROVE  /\ Rev(d)' <= Rev(d)
         /\ Rev(d)' < Rev(d) => \E e \in patchsets \ patchsets' : e.pr = d.pr /\ e.id < d.id
  <1>1. /\ Rev(d) = Cardinality(Earlier(patchsets, d)) + 1
        /\ Rev(d)' = Cardinality(Earlier(patchsets', d)) + 1
    <2>1. /\ {q \in {r \in patchsets : r.pr = d.pr} : Before(q, d)} = Earlier(patchsets, d)
          /\ {q \in {r \in patchsets' : r.pr = d.pr} : Before(q, d)} = Earlier(patchsets', d)
      BY DEF Earlier
    <2>2. QED
      BY <2>1 DEF Rev, PatchsetsOf, Before
  <1>2. Earlier(patchsets', d) \subseteq Earlier(patchsets, d)
    BY LaterOnly DEF Earlier
  <1>3. IsFiniteSet(Earlier(patchsets, d))
    BY FS_Subset DEF RevisionInv, Earlier
  <1>4. /\ Cardinality(Earlier(patchsets, d)) \in Nat
        /\ Cardinality(Earlier(patchsets', d)) \in Nat
        /\ Cardinality(Earlier(patchsets', d)) <= Cardinality(Earlier(patchsets, d))
    BY <1>2, <1>3, FS_Subset, FS_CardinalityType
  <1>5. ASSUME Rev(d)' < Rev(d)
        PROVE  \E e \in patchsets \ patchsets' : e.pr = d.pr /\ e.id < d.id
    <2>1. PICK e \in Earlier(patchsets, d) : e \notin Earlier(patchsets', d)
      <3>1. Cardinality(Earlier(patchsets', d)) # Cardinality(Earlier(patchsets, d))
        BY <1>1, <1>4, <1>5
      <3>2. Earlier(patchsets', d) # Earlier(patchsets, d)
        BY <3>1
      <3>3. QED
        BY <1>2, <3>2
    <2>2. e \in patchsets \ patchsets' /\ e.pr = d.pr /\ Before(e, d)
      BY <2>1 DEF Earlier
    <2>3. /\ e.id \in Nat /\ d.id \in Nat /\ e.at \in Nat /\ d.at \in Nat
          /\ d.id < e.id => d.at <= e.at
          /\ e.id = d.id => e = d
      BY <2>2 DEF RevisionInv, OrderInv, RemovalInv, PatchsetIdInv, LogInv, TypeOK, PsRow
    <2>4. e.id < d.id
      BY <2>2, <2>3 DEF Before
    <2>5. QED
      BY <2>2, <2>4
  <1>6. QED
    BY <1>1, <1>4, <1>5

\* A revision names a place in a list: all the same the revision of a patchset
\* that stays never grows, and shrinks only by the removal of an earlier one.
THEOREM RevisionsShiftDown == Spec => RevisionsOnlyShiftDown
  <1> DEFINE Down == \A d \in patchsets \cap patchsets' :
                       /\ Rev(d)' <= Rev(d)
                       /\ Rev(d)' < Rev(d) => \E e \in patchsets \ patchsets' :
                                                e.pr = d.pr /\ e.id < d.id
  <1>1. Init => RevisionInv
    BY OrderInit, LogInit, NoTxType, SessionAssumption, FS_EmptySet
    DEF Init, RevisionInv, RemovalInv, PatchsetIdInv, RmInv, TxRmInv
  <1>2. RevisionInv /\ [Next]_vars => [Down]_vars
    BY ShiftsDown
  <1>3. QED
    BY <1>1, <1>2, RevisionStep, PTL DEF Spec, RevisionsOnlyShiftDown
=============================================================================

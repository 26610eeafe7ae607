------------------------------ MODULE SemDiff ------------------------------
(***************************************************************************)
(* The semantic summary of a file on the page of a patch: the entities     *)
(* (functions, types, ...) that each hunk adds, removes or changes, merged *)
(* into one line per entity, and their totals.                             *)
(*                                                                         *)
(* A hunk is what the parser (external) finds complete in its old and its  *)
(* new text, and the entity that git names in its header.  The diff parser *)
(* lets no hunk through that has no edits.  Hunks count from 1.            *)
(***************************************************************************)
EXTENDS Naturals, SequencesExt

CONSTANTS
  Files,       \* the files: sequences of hunks
  NoEntity     \* the header names no entity

IsSequence(s) == s \in Seq(Range(s))

ASSUME HunksAssumption ==
  \A f \in Files : /\ IsSequence(f)
                   /\ \A h \in DOMAIN f : IsSequence(f[h].old) /\ IsSequence(f[h].new)

NoSig == ""

VARIABLES
  hunks,      \* the file; an entity is [kind, name, sig, body]
  at,         \* the hunk to look at next, 0 when the summary is made
  changes,    \* what was found, hunk by hunk
  summary     \* the lines shown

semVars == <<hunks, at, changes, summary>>

SemInit ==
  /\ hunks \in Files
  /\ at = 1 /\ changes = <<>> /\ summary = <<>>
-----------------------------------------------------------------------------
Change(kind, entityKind, name, old, new, h) ==
  [kind |-> kind, entity |-> <<entityKind, name>>, old |-> old, new |-> new, hunk |-> h]

\* A map by name: the last entity of each name.
ByName(entities, name) ==
  entities[CHOOSE i \in DOMAIN entities :
             /\ entities[i].name = name
             /\ \A j \in DOMAIN entities : entities[j].name = name => j <= i]
NamesIn(entities) == {e.name : e \in Range(entities)}

\* diffEntities, by names in the new text...
Appeared(hunk, h) ==
  {Change("added", e.kind, e.name, NoSig, e.sig, h) :
     e \in {ByName(hunk.new, n) : n \in NamesIn(hunk.new) \ NamesIn(hunk.old)}}

Altered(hunk, h) ==
  LET differ == {n \in NamesIn(hunk.new) \cap NamesIn(hunk.old) :
                   ByName(hunk.old, n).body # ByName(hunk.new, n).body}
      kind(n) == IF ByName(hunk.old, n).sig # ByName(hunk.new, n).sig
                 THEN "signature_changed" ELSE "modified"
  IN {Change(kind(n), ByName(hunk.new, n).kind, n,
             ByName(hunk.old, n).sig, ByName(hunk.new, n).sig, h) : n \in differ}

\* ... and then by the others in the old text.
Vanished(hunk, h) ==
  {Change("removed", e.kind, e.name, e.sig, NoSig, h) :
     e \in {ByName(hunk.old, n) : n \in NamesIn(hunk.old) \ NamesIn(hunk.new)}}

\* enclosingChangeFromComment, then genericChunkChange: the entity in the hunk's
\* header, else the hunk itself, by its lines.
Fallback(hunk, h) ==
  IF hunk.header # NoEntity
  THEN Change("modified", hunk.header.kind, hunk.header.name, NoSig, NoSig, h)
  ELSE Change("modified", "chunk", ToString(h), NoSig, NoSig, h)

\* Go iterates over maps in any order.
Analyze ==
  /\ at \in DOMAIN hunks
  /\ \E new \in SetToSeqs(Appeared(hunks[at], at) \cup Altered(hunks[at], at)),
        old \in SetToSeqs(Vanished(hunks[at], at)) :
       changes' = changes \o (IF new \o old = <<>> THEN <<Fallback(hunks[at], at)>> ELSE new \o old)
  /\ at' = at + 1
  /\ UNCHANGED <<hunks, summary>>
-----------------------------------------------------------------------------
Rank(kind) ==
  CASE kind = "signature_changed" -> 0
    [] kind \in {"added", "removed"} -> 2
    [] kind = "modified" -> 3

\* (fault: the link goes to the last hunk)
MergedAtLast(lines, c) ==
  LET same == {i \in DOMAIN lines : lines[i].entity = c.entity} IN
  IF same = {} THEN Append(lines, c)
  ELSE [i \in DOMAIN lines |->
          IF i \in same THEN [lines[i] EXCEPT !.hunk = c.hunk] ELSE lines[i]]

\* mergeChangesByEntity, one change more: a more specific kind replaces kind and
\* signatures and keeps the place in the list and the hunk.
Merged(lines, c) ==
  LET same == {i \in DOMAIN lines : lines[i].entity = c.entity} IN
  IF same = {} THEN Append(lines, c)
  ELSE [i \in DOMAIN lines |->
          IF i \in same /\ Rank(c.kind) < Rank(lines[i].kind)
          THEN [c EXCEPT !.hunk = lines[i].hunk] ELSE lines[i]]

Merge ==
  /\ at = Len(hunks) + 1 /\ at' = 0
  /\ summary' = FoldLeft(Merged, <<>>, changes)
  /\ UNCHANGED <<hunks, changes>>

SemNext == Analyze \/ Merge

SemSpec == SemInit /\ [][SemNext]_semVars
-----------------------------------------------------------------------------
NoNameTwice(side) == \A i, j \in DOMAIN side : side[i].name = side[j].name => i = j

\* What one side has and the other has not, or not with this text.
Unlike(side, other) ==
  {e \in Range(side) : \A f \in Range(other) : f.name = e.name => f.body # e.body}

\* The summary has one line per entity, in the order of the hunks, whatever the
\* order of the maps.  A line links to the first hunk that touches its entity
\* and tells its most specific change, with the signatures of that very change.
\* Every hunk is told of, and every entity that a hunk adds, removes or alters
\* (of two with one name in a hunk, a method and a function, only the last is).
SummaryTells ==
  at = 0 =>
    /\ \A i, j \in DOMAIN summary : i < j =>
         summary[i].entity # summary[j].entity /\ summary[i].hunk <= summary[j].hunk
    /\ \A c \in Range(changes) : \E line \in Range(summary) :
         LET told == {d \in Range(changes) : d.entity = c.entity} IN
         /\ line.entity = c.entity
         /\ line.hunk <= c.hunk /\ \E d \in told : d.hunk = line.hunk
         /\ Rank(line.kind) <= Rank(c.kind)
         /\ \E d \in told : line = [d EXCEPT !.hunk = line.hunk]
    /\ \A h \in DOMAIN hunks :
         LET old == hunks[h].old
             new == hunks[h].new
         IN
         /\ \E c \in Range(changes) : c.hunk = h
         /\ NoNameTwice(old) /\ NoNameTwice(new) =>
              \A e \in Unlike(old, new) \cup Unlike(new, old) :
                \E line \in Range(summary) : line.entity[2] = e.name /\ line.hunk <= h
=============================================================================

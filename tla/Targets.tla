------------------------------ MODULE Targets ------------------------------
(***************************************************************************)
(* How a command line names a patchset: ParseTarget, ResolveTarget and the *)
(* commands that use one or the other, over the patch requests of one      *)
(* repository.                                                             *)
(*                                                                         *)
(* A name is the text after `<repo>:`, cut at its dots: a nonempty         *)
(* sequence of parts, <<"">> being the empty text.  Nothing but its last   *)
(* dot tells a slug with dots from a slug with a revision.                 *)
(***************************************************************************)
EXTENDS Naturals, SequencesExt

CONSTANTS
  Parts,        \* texts without a dot
  Empty,        \* the part that is the empty text
  Patch,        \* the part that is "patch"
  RevOf,        \* the revision a part spells ("2", "v2"), 0 if none does
  Spell,        \* the part that spells a revision as the listings do ("2")
  Names,        \* the names users type
  MaxPatchsets  \* bound: patchsets ever submitted

ASSUME PartAssumption ==
  /\ Empty \in Parts /\ Patch \in Parts
  /\ RevOf \in [Parts -> Nat] /\ RevOf[Empty] = 0 /\ RevOf[Patch] = 0
  /\ \A r \in 1 .. MaxPatchsets : Spell[r] \in Parts /\ RevOf[Spell[r]] = r
ASSUME NameAssumption == Names \subseteq Seq(Parts) \ {<<>>}
ASSUME BoundAssumption == MaxPatchsets \in Nat

VARIABLES
  slugs,    \* the slugs of patch requests
  book,     \* per slug: the ids of its patchsets, in order
  issued    \* patchset ids given out

vars == <<slugs, book, issued>>

NoId == 0

TypeOK ==
  /\ slugs \subseteq Seq(Parts) \ {<<>>, <<Empty>>}   \* a slug is never empty
  /\ book \in [slugs -> Seq(1 .. issued)]
  /\ issued \in 0 .. MaxPatchsets

Init == slugs = {} /\ book = <<>> /\ issued = 0
-----------------------------------------------------------------------------
\* strings.TrimSuffix(raw, ".patch").
Trim(name) == IF Len(name) > 1 /\ Last(name) = Patch THEN Front(name) ELSE name

\* (fault: a part that is no positive number is cut off as well)
ParseAnyPart(name) ==
  LET text == Trim(name) IN
  IF Len(text) > 1
  THEN [slug |-> Front(text), rev |-> RevOf[Last(text)]]
  ELSE [slug |-> text, rev |-> 0]

\* The last part is the revision if it spells one.
Parse(name) ==
  LET text == Trim(name) IN
  IF Len(text) > 1 /\ RevOf[Last(text)] > 0
  THEN [slug |-> Front(text), rev |-> RevOf[Last(text)]]
  ELSE [slug |-> text, rev |-> 0]

\* (fault: the slug is not checked again when the revision is cut off)
ParsesBareRevision(name) == Trim(name) # <<Empty>>

\* ParseTarget returns no error.
Parses(name) == Trim(name) # <<Empty>> /\ Parse(name).slug # <<Empty>>

\* GetPatchsetsByPrID and the revision of it, an error if there is none.
Pick(slug, rev) ==
  LET ids == book[slug] IN
  IF rev \in 1 .. Len(ids) THEN ids[rev]
  ELSE IF rev = 0 /\ ids # <<>> THEN Last(ids) ELSE NoId

\* (fault: the slug without the revision is looked up first)
ResolveBaseFirst(name) ==
  LET t == Parse(name) IN
  IF ~Parses(name) THEN NoId
  ELSE IF t.slug \in slugs THEN Pick(t.slug, t.rev)
  ELSE IF Trim(name) \in slugs THEN Pick(Trim(name), 0) ELSE NoId

\* (fault: revisions counted from 0)
ResolveFromZero(name) ==
  LET t == Parse(name) IN
  IF ~Parses(name) THEN NoId
  ELSE IF Trim(name) \in slugs THEN Pick(Trim(name), 0)
  ELSE IF t.slug \in slugs THEN Pick(t.slug, IF t.rev = 0 THEN 0 ELSE t.rev - 1)
  ELSE NoId

\* ResolveTarget: the full text is tried as a slug first, and names the latest.
Resolve(name) ==
  LET t == Parse(name) IN
  IF ~Parses(name) THEN NoId
  ELSE IF Trim(name) \in slugs THEN Pick(Trim(name), 0)
  ELSE IF t.slug \in slugs THEN Pick(t.slug, t.rev) ELSE NoId

\* The same when the first lookup fails: any error is "no such slug".
ResolveOnError(name) ==
  LET t == Parse(name) IN
  IF Parses(name) /\ t.slug \in slugs THEN Pick(t.slug, t.rev) ELSE NoId
-----------------------------------------------------------------------------
\* push and issue take the slug of ParseTarget and drop its revision.  `issue`
\* fails if there is one, `push` appends to it.
Submit(name) ==
  LET slug == Parse(name).slug
      id == issued + 1
  IN
  /\ Parses(name) /\ issued < MaxPatchsets
  /\ slugs' = slugs \cup {slug}
  /\ book' = [s \in slugs' |->
                CASE s = slug /\ s \in slugs -> Append(book[s], id)
                  [] s = slug /\ s \notin slugs -> <<id>>
                  [] OTHER -> book[s]]
  /\ issued' = id

\* (fault: the patch request's row goes with its last patchset)
RmLast(name) ==
  \E id \in {Resolve(name), ResolveOnError(name)} \ {NoId} :
  LET left == [s \in slugs |-> RemoveFirst(book[s], id)] IN
  /\ slugs' = {s \in slugs : left[s] # <<>>}
  /\ book' = [s \in slugs' |-> left[s]]
  /\ UNCHANGED issued

\* `rm`: the patchsets after the removed one move up.
Rm(name) ==
  /\ \E id \in {Resolve(name), ResolveOnError(name)} \ {NoId} :
       book' = [s \in slugs |-> RemoveFirst(book[s], id)]
  /\ UNCHANGED <<slugs, issued>>

\* `pull` prints what Resolve names and writes nothing.
Pull(name) ==
  /\ Parses(name)
  /\ UNCHANGED vars

\* A revision as a second argument is appended to the name; `pull` drops a
\* ".patch" before, `rm` does not.
Next ==
  \E name \in Names :
    \/ Submit(name)
    \/ Rm(name)
    \/ Pull(name)
    \/ \E r \in 1 .. MaxPatchsets :
         Rm(Append(name, Spell[r])) \/ Pull(Append(Trim(name), Spell[r]))

Spec == Init /\ [][Next]_vars
-----------------------------------------------------------------------------
\* The listings print `<slug>.<rev>` for every patchset: typed back, it names
\* that patchset, unless it is itself the slug of a patch request (one pushed as
\* `<slug>.<rev>.<n>`), which ResolveTarget prefers.
ListedNamesResolve ==
  \A s \in slugs : \A r \in 1 .. Len(book[s]) :
    Append(s, Spell[r]) \in slugs \/ Resolve(Append(s, Spell[r])) = book[s][r]

\* A slug with dots, even one that ends like a revision, names the latest
\* patchset of its own patch request, unless it ends in ".patch" or is nothing
\* but a dot and a revision.
SlugsNameThemselves ==
  \A s \in slugs : Trim(s) = s /\ Parses(s) => Resolve(s) = Pick(s, 0)

\* The patch request that name finds a patchset of.
Home(name) == {s \in slugs : \E r \in 1 .. Len(book[s]) : book[s][r] = Resolve(name)}

\* A name moves from one patch request to another only when one is created
\* under the very name: after `rm` took the last patchset of "login.2" the name
\* stays with it and finds nothing, and does not go on to revision 2 of "login".
NamesKeepTheirHome ==
  [][\A name \in Names : Home(name) # {} /\ Home(name)' # {} /\ Home(name)' # Home(name) =>
       Trim(name) \in slugs' \ slugs]_vars
-----------------------------------------------------------------------------
\* util.go says the exact slug is tried first to handle "branch names with dots,
\* e.g. release-1.0", and `push` prints the line that pulls what was pushed.  A
\* name whose last part is a positive number is cut by push and not by pull.
PushedThenPulled ==
  [][\A name \in Names : Submit(name) => Resolve(name)' = issued']_vars
=============================================================================

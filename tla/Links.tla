------------------------------- MODULE Links -------------------------------
(***************************************************************************)
(* The paths of the web server that name a patch request, for the patch    *)
(* requests of one repository: which handler a path reaches, what it takes *)
(* for the name, and what the handler shows; the links that pages print,   *)
(* and the links of the time when patch requests went by their number.     *)
(*                                                                         *)
(* A path is the text after `/<repo>/` (or after `/prs/`), cut at its dots *)
(* like a name of Targets.  A part may carry one of the tails that the     *)
(* handlers look for, "/rss" or "/patches/<id>".                           *)
(***************************************************************************)
EXTENDS Targets, FiniteSetsExt

CONSTANTS
  Rss,      \* the part that is "rss"
  Bare      \* per tail: the parts that end in it, and what is before it

Tails == {"/rss", "/patches/"}

ASSUME LinkAssumption ==
  /\ Rss \in Parts \ {Empty, Patch}
  /\ DOMAIN Bare = Tails
  /\ \A t \in Tails : \A p \in DOMAIN Bare[t] :
       /\ p \in Parts \ {Rss, Patch} /\ RevOf[p] = 0
       /\ Bare[t][p] \in Parts \ {p}
  /\ DOMAIN Bare["/rss"] \cap DOMAIN Bare["/patches/"] = {}

VARIABLE order     \* the slugs of patch requests, by their number

linkVars == <<vars, order>>

LinkInit == Init /\ order = <<>>

\* patch_requests.id AUTOINCREMENT.
LinkNext ==
  /\ Next
  /\ order' = order \o SetToSeq(slugs' \ slugs)

LinkSpec == LinkInit /\ [][LinkNext]_linkVars
-----------------------------------------------------------------------------
HasTail(t, part) == part \in DOMAIN Bare[t]

\* The paths that are `path` with a tail.
Hung(t, path) == {Append(Front(path), p) : p \in {q \in DOMAIN Bare[t] : Bare[t][q] = Last(path)}}

\* The path up to its first "/patches/".
Cut(path) ==
  LET at == {i \in DOMAIN path : HasTail("/patches/", path[i])} IN
  IF at = {} THEN path
  ELSE Append(SubSeq(path, 1, Min(at) - 1), Bare["/patches/"][path[Min(at)]])

Shows(kind, id) == [kind |-> kind, id |-> id]
NotFound == Shows("404", NoId)
RepoFeed == Shows("repofeed", NoId)

\* What a handler shows of the patchset that ResolveTarget finds.
Show(kind, name) == IF Resolve(name) = NoId THEN NotFound ELSE Shows(kind, Resolve(name))

\* createPrDetail looks for the suffixes in this order.
Detail(path) ==
  IF path = <<Rss>> THEN RepoFeed
  ELSE IF Len(path) > 1 /\ Last(path) = Patch THEN Show("mbox", Front(path))
  ELSE IF HasTail("/rss", Last(path))
       THEN Show("feed", Append(Front(path), Bare["/rss"][Last(path)]))
  ELSE Show("page", Cut(path))

\* (fault: the redirect drops the revision)
RedirectsToLatest(path) ==
  LET tails == {t \in Tails : HasTail(t, Last(path))}
      bare == IF tails = {} THEN path
              ELSE Append(Front(path), Bare[CHOOSE t \in tails : TRUE][Last(path)])
      number == IF Len(bare) > 1 THEN Front(bare) ELSE bare
      named == {n \in DOMAIN order : number = <<Spell[n]>>}
      to == {order[n] : n \in named}
  IN  IF tails = {} THEN to ELSE UNION {Hung(CHOOSE t \in tails : TRUE, p) : p \in to}

\* redirectLegacyPr: the path is <number>, <number>.<revision> or
\* <number>.patch, maybe with a tail; all that follows the number is kept.  The
\* paths (none, or one) to which it redirects.
Redirects(path) ==
  LET tails == {t \in Tails : HasTail(t, Last(path))}
      bare == IF tails = {} THEN path
              ELSE Append(Front(path), Bare[CHOOSE t \in tails : TRUE][Last(path)])
      number == IF Len(bare) > 1 THEN Front(bare) ELSE bare
      rest == IF Len(bare) > 1 THEN <<Last(bare)>> ELSE <<>>
      to == {order[n] \o rest : n \in {m \in DOMAIN order : number = <<Spell[m]>>}}
  IN  IF tails = {} THEN to ELSE UNION {Hung(CHOOSE t \in tails : TRUE, p) : p \in to}

\* What a visitor of an old link sees in the end.
Old(path) == IF Redirects(path) = {} THEN {NotFound} ELSE {Detail(p) : p \in Redirects(path)}
-----------------------------------------------------------------------------
\* Slugs (or names with a revision) that read as something else in a path.
Plain(path) ==
  /\ path # <<Rss>> /\ Trim(path) = path
  /\ ~HasTail("/rss", Last(path)) /\ Cut(path) = path

\* Every link a page prints leads to what it is printed for, whatever other
\* slugs there are: the patch request, each of its patchsets, the page of a
\* patch, the mailbox, the feed; and so does every link by number.  Links of a
\* slug that reads as a suffix do not, nor does `<slug>.<rev>` when that is a
\* slug itself, nor anything once all patchsets are removed.
LinksLead ==
  \A n \in DOMAIN order :
    LET s == order[n]
        ids == book[s]
        latest == Last(ids)
    IN
    /\ Plain(s) /\ Parses(s) /\ ids # <<>> =>
         /\ Detail(s) = Shows("page", latest)
         /\ Detail(Append(s, Patch)) = Shows("mbox", latest)
         /\ \A p \in Hung("/rss", s) : Detail(p) = Shows("feed", latest)
         /\ Old(<<Spell[n]>>) = {Shows("page", latest)}
         /\ Old(<<Spell[n], Patch>>) = {Shows("mbox", latest)}
         /\ \A p \in Hung("/rss", <<Spell[n]>>) : Hung("/rss", s) # {} =>
              Old(p) = {Shows("feed", latest)}
    /\ \A r \in DOMAIN ids :
         LET named == Append(s, Spell[r]) IN
         Cut(s) = s /\ named \notin slugs =>
           /\ Detail(named) = Shows("page", ids[r])
           /\ Detail(Append(named, Patch)) = Shows("mbox", ids[r])
           /\ \A p \in Hung("/patches/", named) : Detail(p) = Shows("page", ids[r])
           /\ Old(<<Spell[n], Spell[r]>>) = {Shows("page", ids[r])}
           /\ \A p \in Hung("/patches/", <<Spell[n], Spell[r]>>) :
                Old(p) = {Shows("page", ids[r])}
=============================================================================

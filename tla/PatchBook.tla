------------------------------ MODULE PatchBook ------------------------------
(***************************************************************************)
(* What the store of patches promises, whatever sessions, tables and       *)
(* failures it is made of: a book of patch requests and a book of          *)
(* patchsets.  Entries are only ever added, one at a time, and keep their  *)
(* number and contents.  Two things alone are written on an entry later,   *)
(* both by the one who made it: a new title on a patch request, and that   *)
(* a patchset is withdrawn.                                                *)
(***************************************************************************)
EXTENDS Sequences, Naturals

CONSTANTS
  Keys,      \* public keys of users
  Nobody,    \* none of them
  Targets,   \* names of patch requests, <repo>:<slug>
  Names,     \* titles
  Shas       \* patches

VARIABLES
  requests,    \* patch requests, by number
  submitted    \* patchsets, by number

book == <<requests, submitted>>

Patches == SUBSET (Nat \X Shas)

Request == [target : Targets, by : Keys, name : Names, namedBy : Keys]
Submission == [pr : Nat, by : Keys, patches : Patches, withdrawnBy : Keys \cup {Nobody}]

BookTypeOK ==
  /\ requests \in Seq(Request)
  /\ submitted \in Seq(Submission)

Init == requests = <<>> /\ submitted = <<>>

\* One patchset more, by user k for patch request p, with any content.
Entered(k, p) ==
  /\ Len(submitted') = Len(submitted) + 1
  /\ \A i \in DOMAIN submitted : submitted'[i] = submitted[i]
  /\ LET entry == submitted'[Len(submitted')]
     IN  entry.pr = p /\ entry.by = k /\ entry.withdrawnBy = Nobody

\* A patch request comes with its first patchset, under a name that is free.
Create(k, t, n) ==
  /\ \A p \in DOMAIN requests : requests[p].target # t
  /\ requests' = Append(requests, [target |-> t, by |-> k, name |-> n, namedBy |-> k])
  /\ Entered(k, Len(requests) + 1)

\* Anyone adds a patchset to a patch request.
Add(k, p) == Entered(k, p) /\ UNCHANGED requests

\* Its creator withdraws a patchset; what it contained stays on record.
Withdraw(i) ==
  /\ submitted[i].withdrawnBy = Nobody
  /\ submitted' = [submitted EXCEPT ![i].withdrawnBy = submitted[i].by]
  /\ UNCHANGED requests

\* Its creator gives a patch request another title.
Rename(p, n) ==
  /\ requests' = [requests EXCEPT ![p].name = n, ![p].namedBy = requests[p].by]
  /\ UNCHANGED submitted

Next ==
  \/ \E k \in Keys, t \in Targets, n \in Names : Create(k, t, n)
  \/ \E k \in Keys, p \in DOMAIN requests : Add(k, p)
  \/ \E i \in DOMAIN submitted : Withdraw(i)
  \/ \E p \in DOMAIN requests, n \in Names : Rename(p, n)

Spec == Init /\ [][Next]_book
=============================================================================

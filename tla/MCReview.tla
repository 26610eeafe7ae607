------------------------------ MODULE MCReview ------------------------------
(***************************************************************************)
(* The comparisons a page shows: the range diff of two patchsets, or the   *)
(* summary of a file of up to three hunks.  Its entities are two functions *)
(* and a method with the name of one of them.                              *)
(***************************************************************************)
EXTENDS MCRangeDiff, SemDiff

CONSTANT none

Entity(kind, name, sig, body) == [kind |-> kind, name |-> name, sig |-> sig, body |-> <<sig, body>>]
Get  == Entity("function", "Get", "Get()", "x")
Get2 == Entity("function", "Get", "Get()", "y")
Get3 == Entity("function", "Get", "Get(k)", "y")
Set  == Entity("function", "Set", "Set()", "x")
Set2 == Entity("function", "Set", "Set(v)", "x")
Meth  == Entity("method", "Get", "Box.Get()", "x")
Meth2 == Entity("method", "Get", "Box.Get()", "y")

Hunk(old, new, header) == [old |-> old, new |-> new, header |-> header]
InGet == [kind |-> "function", name |-> "Get"]

MCHunks ==
  {Hunk(<<>>, <<>>, none), Hunk(<<>>, <<>>, InGet), Hunk(<<>>, <<Get>>, none),
   Hunk(<<Get>>, <<>>, InGet), Hunk(<<Get>>, <<Get2>>, none), Hunk(<<Get>>, <<Get3>>, none),
   Hunk(<<Meth>>, <<Meth2>>, none), Hunk(<<Get, Meth>>, <<Get2, Meth>>, none),
   Hunk(<<Meth, Get>>, <<Get3>>, none), Hunk(<<Get, Set>>, <<Set2, Get2>>, none),
   Hunk(<<Set>>, <<Get>>, none), Hunk(<<Set>>, <<Set>>, InGet)}

MCFiles == UNION {[1 .. n -> MCHunks] : n \in 1 .. 3}

RangeDiffIdle == a = <<>> /\ b = <<>> /\ ma = <<>> /\ mb = <<>> /\ out = {} /\ step = "shown"
SemDiffIdle == hunks = <<>> /\ at = 0 /\ changes = <<>> /\ summary = <<>>

ReviewInit == (Init /\ SemDiffIdle) \/ (SemInit /\ RangeDiffIdle)
ReviewNext == (Next /\ UNCHANGED semVars) \/ (SemNext /\ UNCHANGED vars)
ReviewSpec == ReviewInit /\ [][ReviewNext]_<<vars, semVars>>
=============================================================================

---------------------------- MODULE MCRangeDiff ----------------------------
(***************************************************************************)
(* Series of up to three commits: one that is rebased (same content, other *)
(* length), some close to it in size, a tiny one, some long ones.           *)
(***************************************************************************)
EXTENDS RangeDiff

File(o, n, body) == [old |-> o, new |-> n, body |-> body]
Commit(sha, size, files) == [sha |-> sha, size |-> size, files |-> files]

Fix     == Commit("fix", 1000, <<File("f", "f", "x")>>)
Rebased == Commit("fix", 1100, <<File("f", "f", "x")>>)
Redone  == Commit("redone", 1300, <<File("f", "f", "y"), File("g", "g", "y")>>)
Moved   == Commit("moved", 900, <<File("f", "g", "x"), File("h", "", "x")>>)
Reworded == Commit("reworded", 1000, <<File("f", "f", "x")>>)
Huge    == Commit("huge", 300000, <<File("", "new", "y")>>)
Long    == Commit("long", 65536, <<File("", "new", "x")>>)
Tiny    == Commit("tiny", 10, <<File("", "new", "x"), File("f", "", "y")>>)

Series(commits, n) == UNION {[1 .. k -> commits] : k \in 1 .. n}

MCOlds == Series({Fix, Redone, Moved, Tiny, Long}, 3)
MCNews == Series({Rebased, Redone, Reworded, Long, Huge}, 3)
=============================================================================

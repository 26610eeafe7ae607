---------------------------- MODULE MCMigrations ----------------------------
(***************************************************************************)
(* Two server processes on files of every kind of older version: three     *)
(* patch requests in two repos, with gaps in their ids, empty titles, a    *)
(* deleted repo, missing log entries and a change of status.               *)
(***************************************************************************)
EXTENDS Migrations

MCLegacy ==
  {[ids |-> 1 .. 3, repo |-> <<1, 2, 1>>, removed |-> r, blank |-> b, gone |-> g,
    logged |-> e, changed |-> e \cap {3}] :
     r \in {{}, {1}, {2}, {3}}, b \in {{}, {1}, {2}, {3}}, g \in {{}, {1}, {2}},
     e \in {{1, 2, 3}, {1}}}

MCPushes == {[repo |-> 1, slug |-> 2, blank |-> FALSE], [repo |-> 2, slug |-> 7, blank |-> TRUE]}
=============================================================================

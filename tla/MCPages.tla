------------------------------ MODULE MCPages ------------------------------
(***************************************************************************)
(* A patch request with pushes, comments and removals, an issue in the     *)
(* same repo, and one request for a page, a .patch file, a feed or the log *)
(* that starts at any time.                                                *)
(***************************************************************************)
EXTENDS Pages, MCPatchStore

PageCommands ==
  {Push("ann", "pico:login", <<"a", "b">>), Push("ben", "pico:login", <<"c">>),
   Run("issue", "ben", "pico:bug", 0), Run("rm", "ann", "pico:login", 1),
   Run("comment", "ben", "pico:login", 0)}

MCRepos == {"pico"}
MCRepoOf == [t \in MCTargets |-> "pico"]

Ask(kind, rev) == [kind |-> kind, target |-> "pico:login", rev |-> rev, key |-> "ann"]
MCRequests ==
  {Ask("page", 0), Ask("page", 1), Ask("mbox", 1),
   [Ask("page", 0) EXCEPT !.target = "pico:bug"]}
    \cup {Ask(kind, 0) : kind \in {"prfeed", "logs", "repofeed", "userfeed", "feed", "list", "ls"}}
=============================================================================

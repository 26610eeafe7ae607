---------------------------- MODULE MCPatchStore ----------------------------
(***************************************************************************)
(* Small instances of PatchStore: which commands the users may run.        *)
(***************************************************************************)
EXTENDS PatchStore, TLC

MCKeys == {"ann", "ben"}
MCTargets == {"pico:login", "pico:bug"}
MCNames == {"old", "new"}
MCShas == {"a", "b", "c"}

Push(k, t, shas) == [op |-> "push", key |-> k, target |-> t, rev |-> 0,
                     patches |-> shas, name |-> "old"]
Run(o, k, t, r) == [op |-> o, key |-> k, target |-> t, rev |-> r,
                    patches |-> << >>, name |-> "new"]

\* Everything a user can do, on one target.
AllCommands ==
  {Push("ann", "pico:login", <<"a", "b">>), Push("ben", "pico:login", <<"b">>),
   Run("issue", "ben", "pico:login", 0), Run("comment", "ben", "pico:login", 0),
   Run("edit", "ann", "pico:login", 0), Run("rm", "ann", "pico:login", 1),
   Run("rm", "ann", "pico:login", 0), Run("pull", "ben", "pico:login", 1),
   Run("show", "ann", "pico:login", 0)}

\* The same, and a second target that an issue and a push race to create.
EveryCommand ==
  AllCommands \cup {Run("issue", "ben", "pico:bug", 0), Push("ann", "pico:bug", <<"a">>)}

ResubmitCommands == {Push("ann", "pico:login", <<"a">>)}

SessionSymmetry == Permutations(Sessions)
=============================================================================

----------------------------- MODULE MCTargets -----------------------------
(***************************************************************************)
(* Names of up to three parts: plain ones, with revisions, with ".patch",  *)
(* with dots that are none of them; slugs that read as parts of paths.     *)
(***************************************************************************)
EXTENDS Links, TLC

MCBare ==
  ("/rss" :> [p \in {"login/rss", "rss/rss", "1/rss", "2/rss", "v2/rss"} |->
                CASE p = "login/rss" -> "login" [] p = "rss/rss" -> "rss" [] p = "1/rss" -> "1"
                  [] p = "2/rss" -> "2" [] OTHER -> "v2"])
  @@ ("/patches/" :> [p \in {"login/patches/7", "1/patches/7", "2/patches/7"} |->
                CASE p = "login/patches/7" -> "login" [] p = "1/patches/7" -> "1" [] OTHER -> "2"])
MCParts == {"login", "", "patch", "0", "1", "v2", "2", "3", "rss"}
             \cup UNION {DOMAIN MCBare[t] : t \in {"/rss", "/patches/"}}
MCRevOf == [p \in MCParts |-> CASE p = "1" -> 1 [] p \in {"2", "v2"} -> 2 [] p = "3" -> 3
                                [] OTHER -> 0]
MCSpell == <<"1", "2", "3">>

Endings == {<<>>} \cup {<<p>> : p \in {"0", "1", "v2", "patch"}}
             \cup {<<p, q>> : p \in {"1", "v2", "patch"}, q \in {"1", "patch"}}
MCNames == {<<"login">> \o e : e \in Endings} \cup {<<"">>, <<"", "1">>, <<"", "2", "1">>,
             <<"rss">>, <<"login/rss">>, <<"login", "2/rss">>, <<"login/patches/7">>}
=============================================================================

------------------------------ MODULE MCServices ------------------------------
(* Two plugins that share a namespace and contend for one agent, and a reload *)
(* of the configuration.                                                      *)
EXTENDS Services

MCProviders == <<"a", "b">>
MCShown == {{"a", "b"}}
MCOffers == [p \in {"a", "b", "builtin"} |->
                CASE p = "a" -> {{"x"}, {"x", "y"}} [] p = "b" -> {{"x"}} [] OTHER -> {{"root"}}]
=============================================================================

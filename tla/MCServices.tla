----------------------------- MODULE MCServices -----------------------------
(***************************************************************************)
(* Services with small sets of everything.                                 *)
(***************************************************************************)
EXTENDS Services, TLC

CONSTANTS t1, t2

-----------------------------------------------------------------------------
(* Sessions, OperationalData and Schedulers.                               *)

MCBase == [usage |-> "users"]

MCStart == <<"rotation", "credit", "proxy">>
MCStop == <<"proxy", "rotation", "credit">>

-----------------------------------------------------------------------------
(* KeyDelivery: a user whose address another one shares or contains; a key *)
(* on another platform and one in no group.                                *)

MCUsers == {"admin", "u1", "u2", "twin"}
MCAddress == [admin |-> "admin@x", u1 |-> "u1@x", u2 |-> "u11@x", twin |-> "u1@x"]
MCSimilar ==
    [e \in {MCAddress[u] : u \in MCUsers} |-> IF e = "u1@x" THEN {"u11@x"} ELSE {}]
MCPlatform == [g1 |-> "openai", g2 |-> "openai", g3 |-> "grok"]
MCGrants ==
    {[admin |-> {"g1", "g3"}, u1 |-> S, u2 |-> {"g1"}, twin |-> {"g2"}]
        : S \in {{"g2"}, {"g2", "g3"}}}

MCKey(group) == [named |-> "u1@x", owner |-> "admin", group |-> group, resets |-> 0]
MCKeys == {<<MCKey("g3"), MCKey("no group")>>}

-----------------------------------------------------------------------------
(* Provisioning: two platforms, of which one has a landing group; the      *)
(* accounts that bear an address already.                                  *)

MCGroups == <<[name |-> "landing", platform |-> "openai"],
              [name |-> "other", platform |-> "grok"]>>
MCAccount(type) ==
    [name |-> "e1", platform |-> "grok", type |-> type, groups |-> {2}, code |-> 0]
MCAccounts ==
    {<<>>, <<MCAccount("apikey")>>, <<MCAccount("oauth")>>,
     <<MCAccount("oauth"), MCAccount("apikey")>>}

Symmetry == Permutations(Threads)
=============================================================================

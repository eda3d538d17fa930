----------------------------- MODULE MCRebalance -----------------------------
(***************************************************************************)
(* Two proxies, two accounts, every interleaving of rebalances, pins,      *)
(* operator edits, failures and crashes.                                   *)
(***************************************************************************)
EXTENDS ProxyRebalance

CONSTANTS p1, p2, a1, a2

MCProxyOrder == <<p1, p2>>
MCAccountOrder == <<a1, a2>>
=============================================================================

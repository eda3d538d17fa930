--------------------------- MODULE MCProxyHealth ---------------------------
(***************************************************************************)
(* Two proxies; one account for the liveness runs, so that the graphs stay *)
(* small enough.                                                           *)
(***************************************************************************)
EXTENDS ProxyHealth

CONSTANTS p1, p2, a1, a2

MCProxyOrder == <<p1, p2>>
MCAccountOrder == <<a1, a2>>
MCOneAccount == <<a1>>
=============================================================================

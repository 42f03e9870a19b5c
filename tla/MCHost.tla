------------------------------- MODULE MCHost -------------------------------
(* Small instances of Host: two hubs, with VPN addresses of their own.       *)
EXTENDS Host, TLC

CONSTANTS p1, p2, a, b, u, v

\* a saved configuration without the URL is what a torn write leaves
given == {[user |-> u, api |-> TRUE], [user |-> v, api |-> TRUE], NoConfig}

network == (a :> u) @@ (b :> v)
=============================================================================

------------------------------ MODULE MCTunnel ------------------------------
(* Small instances of Tunnel: one id for all connections, so that it is      *)
(* reused, and channels with room for one chunk.                             *)
EXTENDS Tunnel, TLC

CONSTANTS c1, c2, c3

Everyone == Conn \cup {Ping}
OneAndPing == {c1, Ping}

Sym == Permutations(Conn)
=============================================================================

----------------------------- MODULE MCProvision -----------------------------
(* Provision with two libraries.  In a release's archive there is a library  *)
(* on either side of the servers; one of them is a symlink.                  *)
EXTENDS Provision
CONSTANTS l1, l2
MCLib == {l1, l2}
MCLinks == {l1}
MCLibOrder == <<l2, l1>>
MCArchive == <<l1, "llama", "rpc", l2>>
=============================================================================

----------------------------- MODULE TunnelPipe -----------------------------
(* What the tunnel promises about the bytes of the server: every connection  *)
(* is a pipe of its own.  Its local end gets the chunks sent to it, in their  *)
(* order and without a gap; the end of a pipe may cut off what is under way.  *)
EXTENDS Naturals, Sequences

CONSTANT Conn \* connections

VARIABLES
  sent, \* sent[c]: number of chunks the server sent on c
  got   \* got[c]: chunks the local end of c received

Chunk(c, n) == [conn |-> c, n |-> n]

Init == sent = [c \in Conn |-> 0] /\ got = [c \in Conn |-> <<>>]

Send(c) ==
  /\ sent' = [sent EXCEPT ![c] = @ + 1]
  /\ UNCHANGED got

Receive(c) ==
  /\ Len(got[c]) < sent[c]
  /\ got' = [got EXCEPT ![c] = Append(@, Chunk(c, Len(@) + 1))]
  /\ UNCHANGED sent

Next == \E c \in Conn : Send(c) \/ Receive(c)

Spec == Init /\ [][Next]_<<sent, got>>
=============================================================================

---------------------------- MODULE LayerService ----------------------------
(* What a worker promises about the layers of the model it holds, without    *)
(* setup tasks, flags and locks: it loads ranges of layers, it claims        *)
(* towards the hub only ranges it has loaded, and the range it serves is the *)
(* one whose server got the port first, for as long as the process lives; or *)
(* none ever does, as when another process has the port.                     *)
CONSTANT None \* no range

VARIABLES
  loaded, \* ranges loaded so far
  served, \* the range of the server of this process that has the port, or None
  claim   \* the range in the last message, if that was a heartbeat

svars == <<loaded, served, claim>>

Init == loaded = {} /\ served = None /\ claim = None

Load ==
  /\ loaded \subseteq loaded'
  /\ UNCHANGED <<served, claim>>

Serve ==
  /\ served = None
  /\ served' \in loaded
  /\ UNCHANGED <<loaded, claim>>

Claim ==
  /\ claim' \in loaded
  /\ UNCHANGED <<loaded, served>>

\* a message of another kind
Talk ==
  /\ claim' = None
  /\ UNCHANGED <<loaded, served>>

Next == Load \/ Serve \/ Claim \/ Talk

Spec == Init /\ [][Next]_svars
=============================================================================

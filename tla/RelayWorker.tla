---------------------------- MODULE RelayWorker ----------------------------
(* One worker as its neighbours and the hub see it, and as Pipeline takes it *)
(* from HubWorker: where it is in the pipeline, whether it takes requests,   *)
(* what its hub loop is at and what it sends.  No setups, locks or servers.  *)
CONSTANTS
  None,       \* no next hop
  Unassigned  \* the layers of a worker nobody assigned

VARIABLES
  layers, next, \* its place
  ready,        \* it lets requests in
  at, hop,      \* the message under way in its hub loop, and the hop that one goes by
  out           \* kind of the last message sent

rvars == <<layers, next, ready, at, hop, out>>

Init ==
  /\ layers = Unassigned /\ next = None
  /\ ready = FALSE /\ at = "idle" /\ hop = None /\ out = "none"

Moves(from, to) == at = from /\ at' = to

\* to the hop, if there is one, or lost
Sends(to, kind) == out' = out \/ (to # None /\ out' = kind)

\* other layers take the readiness back
Assign ==
  /\ at = "idle"
  /\ layers' # Unassigned
  /\ ready' = (ready /\ layers' = layers)
  /\ UNCHANGED <<at, hop, out>>

SetupEnds ==
  /\ layers # Unassigned
  /\ ready' = TRUE
  /\ UNCHANGED <<layers, next, at, hop, out>>

\* a request: turned away, or let in with the hop of this moment
TurnAway ==
  /\ at = "idle" /\ ~ready
  /\ out' = "NOT_READY"
  /\ UNCHANGED <<layers, next, ready, at, hop>>

Admit ==
  /\ ready
  /\ Moves("idle", "post") /\ hop' = next
  /\ UNCHANGED <<layers, next, ready, out>>

\* its end: an answer or a failure to the hub, hidden states to the hop, or nothing
Posted ==
  /\ Moves("post", "idle")
  /\ \/ hop = None /\ out' \in {"InferenceResponse", "HTTP_ERROR"}
     \/ Sends(hop, "InferenceForward")
  /\ UNCHANGED <<layers, next, ready, hop>>

\* hidden states go through
PassOn ==
  /\ at = "idle"
  /\ Sends(next, "InferenceForward")
  /\ UNCHANGED <<layers, next, ready, at, hop>>

\* the circulating heartbeat: the place it names is taken over, whatever is loaded; a
\* ready worker may say that it is active; and the heartbeat goes by the hop it names
Adopt ==
  /\ Moves("idle", "lap")
  /\ layers' # Unassigned /\ hop' = next'
  /\ UNCHANGED <<ready, out>>

Beat ==
  /\ Moves("lap", "relay")
  /\ out' = out \/ (ready /\ out' = "Heartbeat")
  /\ UNCHANGED <<layers, next, ready, hop>>

Relay ==
  /\ Moves("relay", "idle")
  /\ Sends(hop, "HeartbeatForward")
  /\ UNCHANGED <<layers, next, ready, hop>>

Next == Assign \/ SetupEnds \/ TurnAway \/ Admit \/ Posted \/ PassOn \/ Adopt \/ Beat \/ Relay

Spec == Init /\ [][Next]_rvars
=============================================================================

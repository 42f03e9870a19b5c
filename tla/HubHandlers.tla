---------------------------- MODULE HubHandlers ----------------------------
(* handle_hub_message (hub_worker.rs, 162 to 805): what the worker does with *)
(* each message of the hub connection.  The read loop awaits a handler       *)
(* before it takes the next line, so that one message is handled at a time;  *)
(* a handler that awaits inside is several actions, with setup tasks running *)
(* between them.                                                             *)
EXTENDS WorkerState

Idle == hub.at = "recv"

Await(from, to) == hub.at = from /\ hub' = [hub EXCEPT !.at = to]

----------------------------------------------------------------------------
(* HeartbeatResponse: one critical section of the write lock.               *)

LayersChanged(resp) == resp.reassign /\ resp.layers # place.layers

\* a reassignment, or the first assignment
Assigned(resp) ==
  IF resp.reassign \/ place.layers.num = 0 THEN [place EXCEPT !.layers = resp.layers]
  ELSE place

\* the own entry of a pipeline in the message overrides the assignment; the
\* position is the one the hub states
NewPlace(resp) ==
  IF resp.pipeline # None /\ resp.pipeline.own THEN resp.pipeline.entry ELSE Assigned(resp)

\* mutant: the flags of the services are left up
ResetForgets(resp) ==
  IF LayersChanged(resp) THEN [flags EXCEPT !.setup_started = FALSE, !.loaded = None]
  ELSE flags

\* a changed assignment asks for a new setup.  The services the spawned task means
\* to kill are in rpc_child and llama_child, which nothing ever fills, so that it
\* does nothing; ready_for_inference stays
Reset(resp) ==
  IF LayersChanged(resp)
  THEN [flags EXCEPT !.setup_started = FALSE, !.llama_server_started = FALSE,
                     !.rpc_server_started = FALSE, !.loaded = None]
  ELSE flags

ModelChanged(resp) ==
  \/ resp.model_name # None /\ resp.model_name # model.name
  \/ resp.model_url # None /\ resp.model_url # model.url
  \/ resp.model_hash # None /\ resp.model_hash # model.hash

\* any change takes over name and URL as they are, empty ones too
NewModel(resp) ==
  [name |-> IF ModelChanged(resp) THEN resp.model_name ELSE model.name,
   url |-> IF ModelChanged(resp) THEN resp.model_url ELSE model.url,
   hash |-> IF resp.model_hash # None THEN resp.model_hash ELSE model.hash]

\* mutant: set up although no URL is known
SetsUpWithoutUrl(resp) ==
  /\ resp.pipeline # None
  /\ NewPlace(resp).layers.num > 0
  /\ ~Reset(resp).setup_started

StartsSetup(resp) ==
  /\ resp.pipeline # None
  /\ NewPlace(resp).layers.num > 0
  /\ NewModel(resp).url # None
  /\ ~Reset(resp).setup_started

\* the setup captures what is assigned as it is spawned
SpawnSetup(t, resp) ==
  /\ pc[t] = "idle"
  /\ pc' = [pc EXCEPT ![t] = "hash"]
  /\ job' = [job EXCEPT ![t] = [layers |-> NewPlace(resp).layers,
                                url |-> NewModel(resp).url, hash |-> NewModel(resp).hash]]
  /\ flags' = [Reset(resp) EXCEPT !.setup_started = TRUE]

HeartbeatResponse(resp) ==
  /\ Idle /\ Unlocked
  /\ place' = NewPlace(resp)
  /\ model' = NewModel(resp)
  /\ IF StartsSetup(resp)
     THEN \E t \in Task : SpawnSetup(t, resp)
     ELSE flags' = Reset(resp) /\ UNCHANGED <<pc, job>>
  /\ UNCHANGED <<wlock, hub, sent, seen, fd, file, candle>>

----------------------------------------------------------------------------
(* HeartbeatForward: the hub's circulating heartbeat.  A message without an  *)
(* entry of this worker is dropped and changes nothing.                      *)

\* position derived from the hops, and the assignment overwritten
ForwardAdopt(e) ==
  /\ Idle /\ Unlocked
  /\ place' = [e EXCEPT !.is_first = (e.last_hop = None), !.is_last = (e.next_hop = None)]
  /\ hub' = [at |-> "flags", last_hop |-> e.last_hop, next_hop |-> e.next_hop]
  /\ UNCHANGED <<model, flags, wlock, sent, pc, locals, file, candle>>

\* mutant: a setup under way is good enough
StartedIsReady == flags.setup_started

IsReady == flags.llama_server_started /\ flags.ready_for_inference

\* a second critical section: only a ready worker at an end of the pipeline
\* answers, everyone passes the heartbeat on
ForwardReadFlags ==
  /\ Unlocked
  /\ LET answers == IsReady /\ (hub.last_hop = None \/ hub.next_hop = None)
     IN  Await("flags", IF answers THEN "report" ELSE "relay")
  /\ UNCHANGED <<pipeline, wlock, sent, pc, locals, file, candle>>

\* mutant: the assignment is reported
ReportsAssignment == place.layers

\* what a heartbeat says of the layers: those loaded, if known
ReportedLayers == IF flags.loaded # None THEN flags.loaded ELSE place.layers

\* a third one: build the Heartbeat and write it to the hub.  The first worker
\* does not look at its next hop
ForwardReport ==
  /\ Unlocked
  /\ Await("report", "relay")
  /\ sent' = [kind |-> "Heartbeat", layers |-> ReportedLayers,
              last_hop_connected |-> hub.last_hop # None,
              next_hop_connected |-> hub.last_hop = None]
  /\ UNCHANGED <<pipeline, wlock, pc, locals, file, candle>>

\* open a connection to the next hop and write; a failure is only logged
SendToHop(hop, kind) ==
  \/ hop # None /\ sent' = [kind |-> kind]
  \/ (hop = None \/ "hop" \in Faults) /\ UNCHANGED sent

ForwardRelay ==
  /\ Await("relay", "recv")
  /\ SendToHop(hub.next_hop, "HeartbeatForward")
  /\ UNCHANGED <<pipeline, wlock, pc, locals, file, candle>>

----------------------------------------------------------------------------
(* InferenceRequest and InferenceForward.                                   *)

\* mutant: a setup under way is good enough
AcceptsDuringSetup == flags.setup_started

Accepts == flags.rpc_server_started

\* next hop and rpc_server_started are read in one critical section; the
\* request is turned away at once if the flag is down
InferenceAccept ==
  /\ Idle /\ Unlocked
  /\ IF Accepts
     THEN /\ hub' = [at |-> "post", last_hop |-> None, next_hop |-> place.next_hop]
          /\ UNCHANGED sent
     ELSE /\ sent' = [kind |-> "NOT_READY"]
          /\ UNCHANGED hub
  /\ UNCHANGED <<pipeline, wlock, pc, locals, file, candle>>

\* somebody is bound to the port: a server of this process, or a stranger
Answerable == PortBound \/ "port" \in Faults

\* POST to the llama port: refused while nobody is bound to it.
\* With a next hop a refusal is only logged, the last worker tells the hub
PostRefused ==
  /\ Await("post", "recv")
  /\ ~PortBound \/ "post" \in Faults
  /\ IF hub.next_hop = None THEN sent' = [kind |-> "HTTP_ERROR"] ELSE UNCHANGED sent
  /\ UNCHANGED <<pipeline, wlock, pc, locals, file, candle>>

\* the last worker sends the text back, another one goes on to forward
PostAnswered ==
  /\ Answerable
  /\ \/ hub.next_hop = None /\ Await("post", "recv") /\ sent' = [kind |-> "InferenceResponse"]
     \/ hub.next_hop # None /\ Await("post", "pass") /\ UNCHANGED sent
  /\ UNCHANGED <<pipeline, wlock, pc, locals, file, candle>>

\* an answer that is no JSON is dropped without a reply
PostGarbled ==
  /\ "post" \in Faults
  /\ Answerable
  /\ Await("post", "recv")
  /\ UNCHANGED <<pipeline, wlock, sent, pc, locals, file, candle>>

InferencePass ==
  /\ Await("pass", "recv")
  /\ SendToHop(hub.next_hop, "InferenceForward")
  /\ UNCHANGED <<pipeline, wlock, pc, locals, file, candle>>

\* hidden states for this worker, which passes them on as they are; the read
\* lock is held meanwhile
InferenceForward ==
  /\ Idle /\ Unlocked
  /\ SendToHop(place.next_hop, "InferenceForward")
  /\ UNCHANGED <<pipeline, wlock, hub, pc, locals, file, candle>>

----------------------------------------------------------------------------
\* the messages the hub may send at any time
HubSends ==
  \/ \E resp \in Responses : HeartbeatResponse(resp)
  \/ \E e \in Entries : ForwardAdopt(e)
  \/ InferenceAccept
  \/ InferenceForward

\* the rest of a handler under way
HubContinues ==
  \/ ForwardReadFlags \/ ForwardReport \/ ForwardRelay
  \/ PostRefused \/ PostAnswered \/ PostGarbled \/ InferencePass
============================================================================

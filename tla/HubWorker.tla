----------------------------- MODULE HubWorker -----------------------------
(* One akai-agent worker process: the hub loop with its message handlers,    *)
(* and the setup tasks and Candle servers it spawned, all on one multi-      *)
(* threaded runtime.                                                         *)
EXTENDS HubHandlers, SetupTask

Next ==
  \/ HubSends
  \/ HubContinues
  \/ \E t \in Task : TaskNext(t) \/ Bind(t)

Spec == Init /\ [][Next]_vars

\* the runtime polls every task that can go on: a handler under way and a setup
\* task finish their steps, run_server gets to bind; the hub owes no message.
\* The RwLock queues its waiters.  Only a setup keeps it across steps, and each
\* at most once, so that waiting for it needs no strong fairness
Fairness ==
  /\ WF_vars(HubContinues)
  /\ \A t \in Task : WF_vars(TaskNext(t)) /\ WF_vars(Bind(t))

FairSpec == Spec /\ Fairness
----------------------------------------------------------------------------
\* a server of this process on the llama port, or about to bind it
HasServer == \E t \in Task : candle[t].state \in {"starting", "serving"}

\* servers were started, and each of them found another process at the port
ShutOut ==
  /\ \E t \in Task : Launched(t)
  /\ \A t \in Task : Launched(t) => candle[t].state = "shut_out"

\* The flags of PipelineState never promise more than was done: llama_server_started
\* is only up together with the other two, and the layers recorded as loaded are
\* those of a model that some setup task really loaded - with two setups under
\* way, a reset between them, and the flags read in separate critical sections.
FlagsBacked ==
  /\ flags.llama_server_started => flags.rpc_server_started /\ flags.ready_for_inference
  /\ flags.rpc_server_started => flags.loaded # None
  /\ flags.loaded # None => \E t \in Task : Launched(t) /\ candle[t].layers = flags.loaded

\* A Heartbeat the hub loop answers a HeartbeatForward with names layers that were
\* loaded here; never an assignment that is still being set up, although the flags, the
\* layers and the message are read and built in three steps.  Only the loop's: the
\* inbound listener of the same process sends one with the layers of the message it got,
\* whatever is loaded (inbound.rs, 195 to 211), and is not part of this module.
LoopHeartbeatsNameLoadedLayers ==
  sent.kind = "Heartbeat" =>
    \E t \in Task : Launched(t) /\ candle[t].layers = sent.layers

\* While rpc_server_started is up there is a server of this worker, bound or about to be,
\* whoever of several setups won the port: those that lost it to one another are not
\* the last ones.  The exception is a port that another process had for every one of
\* them: run_server then only logs, and the flag stays up with no server behind it.
ReadyHasServer == flags.rpc_server_started => HasServer \/ ShutOut

\* A request let past the NOT_READY gate is posted when there is such a server,
\* whatever setup tasks did since the gate was passed; with the same exception, in which
\* the request is refused or answered by a stranger.
PostsHaveServer == hub.at = "post" => HasServer \/ ShutOut

PublishesAssignment ==
  \A t \in Task : pc[t] = "announce" /\ pc'[t] # "announce"
    => flags'.loaded = place'.layers /\ candle'[t].layers = place'.layers

\* The download path publishes, as loaded, the assignment in force at that moment, however
\* often the hub changed it during the download: the assignment is read, the load awaited
\* and the flags set in three steps, and whoever else changes the assignment or publishes
\* meanwhile has to wait.  (The path without a download reads the assignment once, when
\* it is spawned, and may publish one that was replaced.)
DownloadPublishesAssignment == [][PublishesAssignment]_vars

\* no setup is under way and no server is about to bind
Settled == \A t \in Task : ~Live(t) /\ candle[t].state # "starting"

\* While the hub stays with one model and nothing fails, the worker is ready once the
\* setups have run out, though they removed, truncated and read one another's
\* model.gguf and found each other's ready flag: they never all leave the start of
\* the server to someone else.
SettledReady == Settled /\ flags.setup_started => flags.ready_for_inference

\* The same as progress, and with models that do not load: a setup that was triggered is
\* followed by readiness, unless none of the setups could load its model.  One that
\* fails takes no other one with it.
NothingLoads == Settled /\ \A t \in Task : ~Launched(t)
SetupLeadsToReady == flags.setup_started ~> flags.ready_for_inference \/ NothingLoads

\* Every setup comes to its end, whatever fails in it: none is left waiting for the
\* write lock by a task that failed while it had it.
EverySetupEnds == \A t \in Task : Live(t) ~> pc[t] = "done"

\* Nor is the hub loop, whose handlers take the same lock, message by message.
LoopReturns == ~Idle ~> Idle

\* What the comment in the reset of a changed assignment says: running services are
\* killed "so they restart with new layer params".  Once the setups have run out
\* without a fault, the services are up.  (They are not: ready_for_inference
\* survives the reset, and the next setup takes it for a reason to start nothing.)
RestartsWithNewLayers == Settled /\ flags.setup_started => flags.llama_server_started
----------------------------------------------------------------------------
(* The inductive invariant behind the safety properties above.               *)

\* a task starts one server at most, as the last thing before it publishes and ends
StartsOnce == \A t \in Task : Launched(t) => pc[t] \in {"publish", "announce", "done"}

\* what a task is about to publish is loaded
PublishBacked ==
  \A t \in Task : pc[t] \in {"publish", "announce"}
    => Launched(t) /\ candle[t].layers = job[t].layers

\* one server has the port, and a server that lost it to another of this process gave way
\* to one that still has it
PortHeld ==
  /\ \A t, u \in Task : Serving(t) /\ Serving(u) => t = u
  /\ \A t \in Task : candle[t].state = "dead" => PortBound

\* what a handler read before it awaited still holds: only a HeartbeatResponse, which
\* has to wait for the handler, takes it back
HandlerBacked ==
  /\ hub.at = "report" => flags.loaded # None
  /\ hub.at = "post" => flags.rpc_server_started

\* the lock is with the task that starts its server under it, and so is the assignment
LockHeld ==
  \A t \in Task : pc[t] \in {"start", "announce"}
    => wlock = t /\ job[t].layers = place.layers

SetupInv ==
  /\ FlagsBacked
  /\ LoopHeartbeatsNameLoadedLayers
  /\ StartsOnce
  /\ PublishBacked
  /\ PortHeld
  /\ HandlerBacked
  /\ LockHeld
----------------------------------------------------------------------------
(* The inductive invariant behind SettledReady.                              *)

\* what can go wrong in a setup does not; what can fail besides does not matter to it
SetupsWork == Faults \subseteq {"hop", "post", "port"}

\* the hub stays with one model, and names its hash with it
StaysWith(f) ==
  \A resp \in Responses : resp.model_url # None => resp.model_url = f /\ resp.model_hash = f

\* and so do the setups and what they write, whatever file the process found
OnlyModel(f) ==
  /\ model.url # None => model.url = f /\ model.hash = f
  /\ \A t \in Task : pc[t] # "idle" => job[t].url = f /\ job[t].hash = f
  /\ file # NoFile => IF file.last = None THEN \A t \in Task : pc[t] # "write"
                                           ELSE file.from = {f}

\* t has a whole file of its model in front of it
HasModel(t) == file # NoFile /\ file.content = job[t].url

\* t makes the worker ready, unless another task that does so takes the file from it:
\* it will look at the file, replace it, is the last to have truncated it, or has it
MakesReady(t) ==
  \/ pc[t] \in {"hash", "stop", "remove", "get", "create", "publish", "announce"}
  \/ pc[t] = "decide" /\ (NeedDownload(t) \/ HasModel(t))
  \/ pc[t] = "write" /\ file # NoFile /\ file.inode = fd[t] /\ file.last = t
  \/ pc[t] \in {"ready", "load", "check", "lock", "start"} /\ HasModel(t)

\* the start of the server is never left to nobody
ReadyOrOnTheWay ==
  /\ flags.setup_started => \E t \in Task : pc[t] # "idle"
  /\ (\E t \in Task : pc[t] # "idle")
       => flags.ready_for_inference \/ \E t \in Task : MakesReady(t)
----------------------------------------------------------------------------
(* What the worker promises the hub about layers, see LayerService.          *)

LoadedRanges == {candle[t].layers : t \in {u \in Task : Launched(u)}}

ServedRange == IF PortBound THEN candle[CHOOSE t \in Task : Serving(t)].layers ELSE None

Claimed == IF sent.kind = "Heartbeat" THEN sent.layers ELSE None

Service == INSTANCE LayerService
             WITH loaded <- LoadedRanges, served <- ServedRange, claim <- Claimed

\* The worker implements LayerService: claims follow loads, and the range behind the
\* llama port is fixed by the first server that binds it.
ImplementsService == Service!Spec
----------------------------------------------------------------------------
(* What the other workers rely on, see RelayWorker and Pipeline.             *)

\* layers are assigned, and an own entry in the message agrees with its assignment
HubAgrees ==
  /\ \A resp \in Responses :
       /\ resp.layers.num > 0
       /\ resp.pipeline # None /\ resp.pipeline.own
            => resp.reassign /\ resp.pipeline.entry.layers = resp.layers
  /\ \A e \in Entries : e.layers.num > 0

\* the message under way, as a neighbour could tell
UnderWay ==
  CASE hub.at = "recv" -> "idle"
    [] hub.at \in {"post", "pass"} -> "post"
    [] hub.at \in {"flags", "report"} -> "lap"
    [] hub.at = "relay" -> "relay"

Relay == INSTANCE RelayWorker
           WITH Unassigned <- NoLayers, layers <- place.layers, next <- place.next_hop,
                ready <- flags.rpc_server_started, at <- UnderWay, hop <- hub.next_hop,
                out <- sent.kind

\* The worker implements RelayWorker, which is what Pipeline has of a worker: requests
\* are let in when a setup has ended for the layers assigned since, and go by the hop of
\* that moment; only such a worker says it is active, though flags, hop and message are
\* handled in several critical sections.
ImplementsRelay == Relay!Spec

\* a setup is only spawned with layers assigned, the handler reports what it has read
RelayInv ==
  /\ place.layers.num = 0 => \A t \in Task : pc[t] = "idle"
  /\ flags.rpc_server_started => \E t \in Task : pc[t] # "idle"
  /\ hub.at = "report" => flags.rpc_server_started
============================================================================

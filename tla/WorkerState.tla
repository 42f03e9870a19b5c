---------------------------- MODULE WorkerState ----------------------------
(* The state one akai-agent process shares between its tasks: the           *)
(* PipelineState behind Arc<RwLock<..>> (types.rs), the model file in the   *)
(* data directory, the setup tasks spawned by the hub loop and the Candle   *)
(* servers those tasks start.  SetupTask.tla and HubHandlers.tla add the    *)
(* actions, HubWorker.tla composes them.                                    *)
EXTENDS Naturals, FiniteSets

CONSTANTS
  Task,      \* setup tasks the process may spawn (bounds the reassignments)
  Hop,       \* neighbouring workers a hop may name
  Name,      \* model names
  File,      \* whole model files; a file stands for its URL and its SHA-256
  Responses, \* HeartbeatResponse messages the hub may send
  Entries,   \* own entries a HeartbeatForward of the hub may carry
  Faults,    \* environment failures that may occur, see FaultKind
  None       \* an absent Option, and the empty string

VARIABLES
  place,  \* PipelineState: assigned layers, position in the pipeline
  model,  \* PipelineState: the model announced by the hub
  flags,  \* PipelineState: progress of the setup, and the layers loaded
  wlock,  \* setup task holding its write lock across an await, or None
  hub,    \* hub loop: where handle_hub_message is, and its locals
  sent,   \* last message the hub loop put on a connection
  pc,     \* pc[t]: where setup task t is
  job,    \* job[t]: what task t captured when it was spawned
  seen,   \* seen[t]: content file_sha256 hashed for task t, or None
  fd,     \* fd[t]: identity of the file task t has open for writing
  file,   \* model.gguf, or NoFile
  candle  \* candle[t]: the Candle server task t started

\* PipelineState, without the fields nothing ever writes, is one struct behind one
\* RwLock
pipeline == <<place, model, flags>>

\* the locals of the setup tasks
locals == <<job, seen, fd>>

vars == <<pipeline, wlock, hub, sent, pc, locals, file, candle>>
----------------------------------------------------------------------------
\* get: request or status fails; create: File::create fails; stream: the body
\* breaks off or a write fails; load: the weights are rejected; hop: a hop is
\* unreachable; post: the local server answers with something unusable; port:
\* another process has the llama port
FaultKind == {"get", "create", "stream", "load", "hop", "post", "port"}

\* layer_offset and num_layers, always assigned together
Range == [offset : Nat, num : Nat]
NoLayers == [offset |-> 0, num |-> 0]

\* the content of a file that is not a whole model: cut short, or mixed
Partial == "partial"
NoFile == [at |-> "nowhere"]

\* where a worker is: an entry of PipelineInfo, and what PipelineState keeps of it
Place == [layers : Range, last_hop : Hop \cup {None}, next_hop : Hop \cup {None},
          is_first : BOOLEAN, is_last : BOOLEAN]

\* pipeline: not in the message, there without an entry of this worker, or
\* there with one
Response ==
  [layers : Range, reassign : BOOLEAN, model_name : Name \cup {None},
   model_url : File \cup {None}, model_hash : File \cup {None},
   pipeline : [own : BOOLEAN, entry : Place] \cup {None}]

ASSUME MessageAssumption == /\ Responses \subseteq Response
                            /\ Entries \subseteq Place

ASSUME FaultAssumption == Faults \subseteq FaultKind

\* None is no element of the sets it is added to
ASSUME NoneAssumption == None \notin Hop \cup Name \cup File \cup Task \cup {Partial} \cup Range

\* nor is a file that is cut short one of the whole ones
ASSUME PartialAssumption == Partial \notin File

----------------------------------------------------------------------------
Model == [name : Name \cup {None}, url : File \cup {None}, hash : File \cup {None}]

Flags == [setup_started : BOOLEAN, llama_server_started : BOOLEAN,
          rpc_server_started : BOOLEAN, ready_for_inference : BOOLEAN,
          loaded : Range \cup {None}]

HubState == [at : {"recv", "flags", "report", "relay", "post", "pass"},
             last_hop : Hop \cup {None}, next_hop : Hop \cup {None}]

Message ==
  [kind : {"none", "NOT_READY", "HTTP_ERROR", "InferenceResponse",
           "InferenceForward", "HeartbeatForward"}]
  \cup [kind : {"Heartbeat"}, layers : Range, last_hop_connected : BOOLEAN,
        next_hop_connected : BOOLEAN]

\* idle: not spawned yet; done: returned
TaskStep == {"idle", "hash", "decide", "ready", "load", "publish", "stop",
             "remove", "get", "create", "write", "check", "lock", "start",
             "announce", "done"}

Job == [layers : Range, url : File \cup {None}, hash : File \cup {None}]

\* inode: task that created the file, None for one found at start-up; last: task
\* that truncated it last; from: URLs written into it since
FileState == [at : {"disk"}, inode : Task \cup {None}, content : File \cup {Partial},
              last : Task \cup {None}, from : SUBSET (File \cup {None})]
             \cup {NoFile}

\* none: not started; starting: the model is loaded and run_server spawned, not
\* bound yet; serving: bound to llama_port; dead: another server of this process
\* had the port; shut_out: another process had it
Candle == [state : {"none", "starting", "serving", "dead", "shut_out"},
           layers : Range, content : File \cup {Partial}]

TypeOK ==
  /\ place \in Place
  /\ model \in Model
  /\ flags \in Flags
  /\ wlock \in Task \cup {None}
  /\ hub \in HubState
  /\ sent \in Message
  /\ pc \in [Task -> TaskStep]
  /\ job \in [Task -> Job]
  /\ seen \in [Task -> File \cup {Partial, None}]
  /\ fd \in [Task -> Task \cup {None}]
  /\ file \in FileState
  /\ candle \in [Task -> Candle]
  /\ \A t \in Task : pc[t] # "idle" => job[t].url \in File
----------------------------------------------------------------------------
\* model.gguf survives restarts of the process: absent, whole, or cut short by
\* a download of an earlier run
LeftoverFile ==
  {NoFile} \cup
  {[at |-> "disk", inode |-> None, content |-> c, last |-> None, from |-> {}] :
     c \in File \cup {Partial}}

\* PipelineState::new
Init ==
  /\ place = [layers |-> NoLayers, last_hop |-> None, next_hop |-> None,
              is_first |-> FALSE, is_last |-> TRUE]
  /\ model = [name |-> None, url |-> None, hash |-> None]
  /\ flags = [setup_started |-> FALSE, llama_server_started |-> FALSE,
              rpc_server_started |-> FALSE, ready_for_inference |-> FALSE, loaded |-> None]
  /\ wlock = None
  /\ hub = [at |-> "recv", last_hop |-> None, next_hop |-> None]
  /\ sent = [kind |-> "none"]
  /\ pc = [t \in Task |-> "idle"]
  /\ job = [t \in Task |-> [layers |-> NoLayers, url |-> None, hash |-> None]]
  /\ seen = [t \in Task |-> None]
  /\ fd = [t \in Task |-> None]
  /\ file \in LeftoverFile
  /\ candle = [t \in Task |-> [state |-> "none", layers |-> NoLayers, content |-> Partial]]

\* the write lock of PipelineState is free, so that a task can take it or read
Unlocked == wlock = None

Launched(t) == candle[t].state # "none"
Serving(t) == candle[t].state = "serving"
PortBound == \E t \in Task : Serving(t)
Live(t) == pc[t] \notin {"idle", "done"}
============================================================================

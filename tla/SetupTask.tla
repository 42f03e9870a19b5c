----------------------------- MODULE SetupTask -----------------------------
(* The task the HeartbeatResponse handler spawns to bring the model up:     *)
(* compare model.gguf with the announced hash, download it if needed, load  *)
(* the assigned layers into a Candle server and publish that the worker is  *)
(* ready (hub_worker.rs, 397 to 642; candle_worker.rs; candle_server.rs).   *)
(* The process runs several such tasks when layers are reassigned: they     *)
(* share model.gguf, the llama port and PipelineState.                      *)
EXTENDS WorkerState

Goto(t, step) == pc' = [pc EXCEPT ![t] = step]

Step(t, from, to) == pc[t] = from /\ Goto(t, to)

----------------------------------------------------------------------------
(* Is there a usable file already?                                          *)

\* file_sha256: None when the file cannot be opened
HashFile(t) ==
  /\ Step(t, "hash", "decide")
  /\ seen' = [seen EXCEPT ![t] = IF file = NoFile THEN None ELSE file.content]
  /\ UNCHANGED <<pipeline, wlock, hub, sent, job, fd, file, candle>>

\* mutant: no file, nothing to compare
MissingIsFine(t) == file # NoFile /\ job[t].hash # None /\ seen[t] # job[t].hash

\* an announced hash must match; without one any existing file will do
NeedDownload(t) ==
  \/ file = NoFile
  \/ job[t].hash # None /\ seen[t] # job[t].hash

Decide(t) ==
  /\ Step(t, "decide", IF NeedDownload(t) THEN "stop" ELSE "ready")
  /\ UNCHANGED <<pipeline, wlock, hub, sent, locals, file, candle>>

----------------------------------------------------------------------------
(* CandleWorker::start: load the model, then spawn the server.              *)

\* a missing file is an error; of a cut or mixed one the layers asked for may
\* still be readable
LoadResults ==
  IF file = NoFile THEN {FALSE}
  ELSE IF file.content = Partial \/ "load" \in Faults THEN BOOLEAN ELSE {TRUE}

\* init_model and the spawn of run_server; what was loaded stays in candle[t]
StartCandle(t, range, ok) ==
  /\ ok \in LoadResults
  /\ candle' = IF ok
               THEN [candle EXCEPT ![t] = [state |-> "starting", layers |-> range,
                                           content |-> file.content]]
               ELSE candle

\* mutant: the port is taken over from the server that had it
TakesOver(t) ==
  {[u \in Task |-> IF u = t THEN [candle[u] EXCEPT !.state = "serving"]
                   ELSE IF Serving(u) THEN [candle[u] EXCEPT !.state = "dead"] ELSE candle[u]]}

\* a free port is bound; whoever else has it, a server of this process or a stranger
BindResults ==
  IF PortBound THEN {"dead"}
  ELSE {"serving"} \cup (IF "port" \in Faults THEN {"shut_out"} ELSE {})

\* run_server binds the port; when it is taken, the task that spawned it only logs
Bound(t) == {[candle EXCEPT ![t].state = s] : s \in BindResults}

Bind(t) ==
  /\ candle[t].state = "starting"
  /\ candle' \in Bound(t)
  /\ UNCHANGED <<pipeline, wlock, hub, sent, pc, locals, file>>

----------------------------------------------------------------------------
(* No download: start with the layers captured at spawn, lock not held.     *)

ReadReady(t) ==
  /\ Unlocked
  /\ Step(t, "ready", IF flags.ready_for_inference THEN "done" ELSE "load")
  /\ UNCHANGED <<pipeline, wlock, hub, sent, locals, file, candle>>

\* mutant: the error of start is not looked at
IgnoresError(ok) == "publish"

AfterLoad(ok) == IF ok THEN "publish" ELSE "done"

LoadCaptured(t) ==
  /\ \E ok \in BOOLEAN :
       /\ StartCandle(t, job[t].layers, ok)
       /\ Step(t, "load", AfterLoad(ok))
  /\ UNCHANGED <<pipeline, wlock, hub, sent, locals, file>>

\* mutant: ready_for_inference forgotten
PublishUnready(range) ==
  flags' = [flags EXCEPT !.rpc_server_started = TRUE, !.llama_server_started = TRUE,
                         !.loaded = range]

\* the flags both ways of starting set
Publish(range) ==
  flags' = [flags EXCEPT !.rpc_server_started = TRUE, !.llama_server_started = TRUE,
                         !.ready_for_inference = TRUE, !.loaded = range]

PublishCaptured(t) ==
  /\ Unlocked
  /\ Step(t, "publish", "done")
  /\ Publish(job[t].layers)
  /\ UNCHANGED <<place, model, wlock, hub, sent, locals, file, candle>>

----------------------------------------------------------------------------
(* Download.                                                                *)

\* llama_child is always None, so that stopping the old server only clears
\* the flag
StopOld(t) ==
  /\ Unlocked
  /\ Step(t, "stop", "remove")
  /\ flags' = [flags EXCEPT !.llama_server_started = FALSE]
  /\ UNCHANGED <<place, model, wlock, hub, sent, locals, file, candle>>

RemoveFile(t) ==
  /\ Step(t, "remove", "get")
  /\ file' = NoFile
  /\ UNCHANGED <<pipeline, wlock, hub, sent, locals, candle>>

\* request, status: every failure is logged and falls through to the check
Get(t) ==
  /\ \/ Step(t, "get", "create")
     \/ "get" \in Faults /\ Step(t, "get", "check")
  /\ UNCHANGED <<pipeline, wlock, hub, sent, locals, file, candle>>

Inode(t) == IF file = NoFile THEN t ELSE file.inode

\* File::create: a new file, or the one another task created since, truncated;
\* whoever still has that one open goes on writing into it
CreateFile(t) ==
  /\ Step(t, "create", "write")
  /\ LET sharers == {u \in Task : pc[u] = "write" /\ fd[u] = Inode(t) /\ file # NoFile}
     IN  file' = [at |-> "disk", inode |-> Inode(t), content |-> Partial, last |-> t,
                  from |-> {job[u].url : u \in sharers \cup {t}}]
  /\ fd' = [fd EXCEPT ![t] = Inode(t)]
  /\ UNCHANGED <<pipeline, wlock, hub, sent, job, seen, candle>>

CreateFails(t) ==
  /\ "create" \in Faults
  /\ Step(t, "create", "done")
  /\ UNCHANGED <<pipeline, wlock, hub, sent, locals, file, candle>>

\* what the file may hold once t has written its last chunk: whole if only
\* copies of one model went in and t is the one that truncated it
Written(t) ==
  IF file.from # {job[t].url} THEN {job[t].url, Partial}
  ELSE IF file.last = t THEN {job[t].url} ELSE {file.content}

\* the stream ends, or breaks off and leaves what was written; a file removed
\* or replaced meanwhile is out of reach
WriteFile(t) ==
  /\ Step(t, "write", "check")
  /\ IF file # NoFile /\ file.inode = fd[t]
     THEN \E c \in Written(t) \cup (IF "stream" \in Faults THEN {file.content} ELSE {}) :
            file' = [file EXCEPT !.content = c]
     ELSE UNCHANGED file
  /\ UNCHANGED <<pipeline, wlock, hub, sent, locals, candle>>

\* whatever happened: is there a file, and is the worker not ready yet?
CheckFile(t) ==
  /\ file # NoFile => Unlocked
  /\ Step(t, "check", IF file # NoFile /\ ~flags.ready_for_inference THEN "lock" ELSE "done")
  /\ UNCHANGED <<pipeline, wlock, hub, sent, locals, file, candle>>

\* mutant: the layers captured when the task was spawned
CapturedLayers(t) == job[t].layers

\* the layers assigned now
CurrentLayers(t) == place.layers

\* the lock is held from here until the outcome is known; the layers read under it
\* shadow those captured
LockState(t) ==
  /\ Unlocked
  /\ Step(t, "lock", "start")
  /\ wlock' = t
  /\ job' = [job EXCEPT ![t].layers = CurrentLayers(t)]
  /\ UNCHANGED <<pipeline, hub, sent, seen, fd, file, candle>>

\* mutant: ready_for_inference is read again, under the lock
RereadsReady(t) == wlock = t /\ Unlocked

HoldsLock(t) == wlock = t

\* the load is awaited with the lock held; an error gives the lock back
StartLocked(t) ==
  /\ HoldsLock(t)
  /\ \E ok \in BOOLEAN :
       /\ StartCandle(t, job[t].layers, ok)
       /\ Step(t, "start", IF ok THEN "announce" ELSE "done")
       /\ wlock' = IF ok THEN wlock ELSE None
  /\ UNCHANGED <<pipeline, hub, sent, locals, file>>

PublishLocked(t) ==
  /\ HoldsLock(t)
  /\ Step(t, "announce", "done")
  /\ Publish(job[t].layers)
  /\ wlock' = None
  /\ UNCHANGED <<place, model, hub, sent, locals, file, candle>>

----------------------------------------------------------------------------
TaskNext(t) ==
  \/ HashFile(t) \/ Decide(t)
  \/ ReadReady(t) \/ LoadCaptured(t) \/ PublishCaptured(t)
  \/ StopOld(t) \/ RemoveFile(t) \/ Get(t) \/ CreateFile(t) \/ CreateFails(t)
  \/ WriteFile(t) \/ CheckFile(t) \/ LockState(t) \/ StartLocked(t)
  \/ PublishLocked(t)
============================================================================

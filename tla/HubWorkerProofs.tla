-------------------------- MODULE HubWorkerProofs --------------------------
(* Theorems about HubWorker for any tasks, hops, models, messages and faults. *)
EXTENDS HubWorker, TLAPS

USE MessageAssumption, NoneAssumption
USE DEF AfterLoad, HoldsLock, CurrentLayers, Accepts, Answerable

(* ------------------------- type correctness -------------------------- *)

LEMMA InitTypeOK == Init => TypeOK
  BY DEF Init, TypeOK, LeftoverFile, NoLayers, Range, Place, Model, Flags, HubState,
         Message, TaskStep, Job, FileState, NoFile, Partial, Candle

\* what a response makes of PipelineState is a PipelineState
LEMMA UpdateType ==
  ASSUME TypeOK, NEW resp \in Responses
  PROVE  /\ NewPlace(resp) \in Place
         /\ NewModel(resp) \in Model
         /\ Reset(resp) \in Flags
<1> resp \in Response
  OBVIOUS
<1>1. NewPlace(resp) \in Place
  BY DEF TypeOK, NewPlace, Assigned, Place, Response
<1>2. NewModel(resp) \in Model
  BY DEF TypeOK, NewModel, Model, Response
<1>3. Reset(resp) \in Flags
  BY DEF TypeOK, Reset, Flags
<1> QED BY <1>1, <1>2, <1>3

LEMMA HubSendsType == TypeOK /\ HubSends => TypeOK'
<1> SUFFICES ASSUME TypeOK, HubSends PROVE TypeOK'
  OBVIOUS
<1>1. ASSUME NEW resp \in Responses, HeartbeatResponse(resp) PROVE TypeOK'
  <2>1. place' \in Place /\ model' \in Model
    BY <1>1, UpdateType DEF HeartbeatResponse
  <2>2. CASE StartsSetup(resp)
    <3>1. PICK t \in Task : SpawnSetup(t, resp)
      BY <1>1, <2>2 DEF HeartbeatResponse
    <3>2. flags' \in Flags
      BY <3>1, UpdateType DEF SpawnSetup, Flags
    <3>3. job' \in [Task -> Job] /\ job'[t].url \in File
      BY <2>2, <3>1, UpdateType DEF StartsSetup, SpawnSetup, TypeOK, Job, Place, Model
    <3>4. \A u \in Task : u # t => job'[u] = job[u]
      BY <3>1 DEF SpawnSetup, TypeOK
    <3> QED BY <1>1, <2>1, <3>1, <3>2, <3>3, <3>4
            DEF HeartbeatResponse, SpawnSetup, TypeOK, TaskStep
  <2>3. CASE ~StartsSetup(resp)
    BY <1>1, <2>1, <2>3, UpdateType DEF HeartbeatResponse, TypeOK
  <2> QED BY <2>2, <2>3
<1>2. ASSUME NEW e \in Entries, ForwardAdopt(e) PROVE TypeOK'
  <2>1. place' \in Place
    BY <1>2 DEF ForwardAdopt, Place
  <2>2. hub' \in HubState
    BY <1>2 DEF ForwardAdopt, Place, HubState
  <2> QED BY <1>2, <2>1, <2>2 DEF ForwardAdopt, TypeOK, locals
<1>3. CASE InferenceAccept
  BY <1>3 DEF InferenceAccept, TypeOK, HubState, Message, Place, pipeline, locals
<1>4. CASE InferenceForward
  BY <1>4 DEF InferenceForward, SendToHop, TypeOK, Message, pipeline, locals
<1> QED BY <1>1, <1>2, <1>3, <1>4 DEF HubSends

LEMMA HubContinuesType == TypeOK /\ HubContinues => TypeOK'
<1> SUFFICES ASSUME TypeOK, HubContinues PROVE TypeOK'
  OBVIOUS
<1> USE DEF Await, pipeline, locals
<1>1. CASE ForwardReadFlags
  BY <1>1 DEF ForwardReadFlags, TypeOK, HubState
<1>2. CASE ForwardReport
  <2>1. hub' \in HubState
    BY <1>2 DEF ForwardReport, TypeOK, HubState
  <2>2. ReportedLayers \in Range
    BY DEF ReportedLayers, TypeOK, Flags, Place
  <2>3. sent' \in Message
    BY <1>2, <2>2 DEF ForwardReport, Message
  <2> QED BY <1>2, <2>1, <2>3 DEF ForwardReport, TypeOK
<1>3. CASE ForwardRelay
  BY <1>3 DEF ForwardRelay, SendToHop, TypeOK, HubState, Message
<1>4. CASE PostRefused
  BY <1>4 DEF PostRefused, TypeOK, HubState, Message
<1>5. CASE PostAnswered
  BY <1>5 DEF PostAnswered, TypeOK, HubState, Message
<1>6. CASE PostGarbled
  BY <1>6 DEF PostGarbled, TypeOK, HubState
<1>7. CASE InferencePass
  BY <1>7 DEF InferencePass, SendToHop, TypeOK, HubState, Message
<1> QED BY <1>1, <1>2, <1>3, <1>4, <1>5, <1>6, <1>7 DEF HubContinues

\* whoever has the port: a server that binds it was started, and keeps what it loaded
LEMMA BindOutcome ==
  ASSUME TypeOK, NEW t \in Task, Bind(t)
  PROVE  /\ Launched(t) /\ ~Serving(t)
         /\ \E s \in {"serving", "dead", "shut_out"} :
              /\ candle' = [candle EXCEPT ![t].state = s]
              /\ candle'[t].state = s /\ candle'[t].layers = candle[t].layers
              /\ candle'[t].content = candle[t].content
              /\ s = "dead" => PortBound
              /\ s # "dead" => ~PortBound
         /\ \A u \in Task \ {t} : candle'[u] = candle[u]
<1>1. PICK s \in BindResults : candle' = [candle EXCEPT ![t].state = s]
  BY DEF Bind, Bound
<1>2. /\ s \in {"serving", "dead", "shut_out"}
      /\ s = "dead" => PortBound
      /\ s # "dead" => ~PortBound
  BY DEF BindResults
<1>3. candle[t] \in Candle /\ candle[t].state = "starting"
  BY DEF Bind, TypeOK
<1>4. candle'[t] = [candle[t] EXCEPT !.state = s]
  BY <1>1 DEF TypeOK
<1>5. candle'[t].state = s /\ candle'[t].layers = candle[t].layers
      /\ candle'[t].content = candle[t].content
  BY <1>3, <1>4 DEF Candle
<1>6. \A u \in Task \ {t} : candle'[u] = candle[u]
  BY <1>1 DEF TypeOK
<1> QED BY <1>1, <1>2, <1>3, <1>5, <1>6 DEF Launched, Serving

LEMMA TaskType ==
  ASSUME TypeOK, NEW t \in Task, TaskNext(t) \/ Bind(t)
  PROVE  TypeOK'
<1> USE DEF Step, Goto, TaskStep, pipeline, locals
<1>1. CASE HashFile(t)
  BY <1>1 DEF HashFile, TypeOK, FileState, NoFile
<1>2. CASE Decide(t)
  BY <1>2 DEF Decide, TypeOK
<1>3. CASE ReadReady(t)
  BY <1>3 DEF ReadReady, TypeOK
<1>4. ASSUME NEW ok \in BOOLEAN, NEW r \in Range, StartCandle(t, r, ok)
      PROVE  candle' \in [Task -> Candle]
  BY <1>4 DEF StartCandle, LoadResults, TypeOK, Candle, FileState, NoFile
<1>5. CASE LoadCaptured(t)
  <2>1. job[t].layers \in Range
    BY DEF TypeOK, Job
  <2>2. candle' \in [Task -> Candle] /\ pc' \in [Task -> TaskStep]
    BY <1>4, <1>5, <2>1 DEF LoadCaptured, TypeOK
  <2> QED BY <1>5, <2>2 DEF LoadCaptured, TypeOK
<1>6. CASE PublishCaptured(t)
  <2>1. flags' \in Flags
    BY <1>6 DEF PublishCaptured, Publish, TypeOK, Job, Flags
  <2> QED BY <1>6, <2>1 DEF PublishCaptured, TypeOK
<1>7. CASE StopOld(t)
  <2>1. flags' \in Flags
    BY <1>7 DEF StopOld, TypeOK, Flags
  <2> QED BY <1>7, <2>1 DEF StopOld, TypeOK
<1>8. CASE RemoveFile(t)
  BY <1>8 DEF RemoveFile, TypeOK, FileState
<1>9. CASE Get(t)
  BY <1>9 DEF Get, TypeOK
<1>10. CASE CreateFile(t)
  <2>1. Inode(t) \in Task \cup {None}
    BY DEF Inode, TypeOK, FileState
  <2>2. \A S \in SUBSET Task : {job[u].url : u \in S} \in SUBSET (File \cup {None})
    BY DEF TypeOK, Job
  <2> DEFINE S == {u \in Task : pc[u] = "write" /\ fd[u] = Inode(t) /\ file # NoFile}
  <2>3. file' = [at |-> "disk", inode |-> Inode(t), content |-> Partial, last |-> t,
                 from |-> {job[u].url : u \in S \cup {t}}]
    BY <1>10 DEF CreateFile
  <2>4. {job[u].url : u \in S \cup {t}} \in SUBSET (File \cup {None})
    BY <2>2
  <2> HIDE DEF S
  <2>5. file' \in FileState
    BY <2>1, <2>3, <2>4 DEF FileState
  <2> QED BY <1>10, <2>1, <2>5 DEF CreateFile, TypeOK
<1>11. CASE CreateFails(t)
  BY <1>11 DEF CreateFails, TypeOK
<1>12. CASE WriteFile(t)
  <2>1. CASE file # NoFile /\ file.inode = fd[t]
    <3>1. job[t].url \in File
      BY <1>12 DEF WriteFile, TypeOK
    <3>2. file.content \in File \cup {Partial}
      BY <2>1 DEF TypeOK, FileState
    <3>3. Written(t) \subseteq File \cup {Partial}
      BY <3>1, <3>2 DEF Written
    <3>4. PICK c \in File \cup {Partial} : file' = [file EXCEPT !.content = c]
      BY <1>12, <2>1, <3>2, <3>3 DEF WriteFile
    <3>5. file' \in FileState
      BY <2>1, <3>4 DEF TypeOK, FileState
    <3> QED BY <1>12, <3>5 DEF WriteFile, TypeOK
  <2>2. CASE ~(file # NoFile /\ file.inode = fd[t])
    BY <1>12, <2>2 DEF WriteFile, TypeOK
  <2> QED BY <2>1, <2>2
<1>13. CASE CheckFile(t)
  BY <1>13 DEF CheckFile, TypeOK
<1>14. CASE LockState(t)
  <2>1. job' \in [Task -> Job] /\ \A u \in Task : job'[u].url = job[u].url
    BY <1>14 DEF LockState, TypeOK, Job, Place
  <2> QED BY <1>14, <2>1 DEF LockState, TypeOK
<1>15. CASE StartLocked(t)
  <2>1. job[t].layers \in Range
    BY DEF TypeOK, Job
  <2>2. candle' \in [Task -> Candle] /\ pc' \in [Task -> TaskStep]
    BY <1>4, <1>15, <2>1 DEF StartLocked, TypeOK
  <2>3. wlock' \in Task \cup {None}
    BY <1>15 DEF StartLocked, TypeOK
  <2> QED BY <1>15, <2>2, <2>3 DEF StartLocked, TypeOK
<1>16. CASE PublishLocked(t)
  <2>1. flags' \in Flags
    BY <1>16 DEF PublishLocked, Publish, TypeOK, Job, Flags
  <2> QED BY <1>16, <2>1 DEF PublishLocked, TypeOK
<1>17. CASE Bind(t)
  <2>1. candle' \in [Task -> Candle]
    BY <1>17, BindOutcome DEF TypeOK, Candle
  <2> QED BY <1>17, <2>1 DEF Bind, TypeOK
<1> QED
  BY <1>1, <1>2, <1>3, <1>5, <1>6, <1>7, <1>8, <1>9, <1>10, <1>11, <1>12, <1>13, <1>14,
     <1>15, <1>16, <1>17 DEF TaskNext

LEMMA NextType == TypeOK /\ [Next]_vars => TypeOK'
<1> SUFFICES ASSUME TypeOK, [Next]_vars PROVE TypeOK'
  OBVIOUS
<1>1. CASE UNCHANGED vars
  BY <1>1 DEF vars, pipeline, locals, TypeOK
<1> QED BY <1>1, HubSendsType, HubContinuesType, TaskType DEF Next

\* The state of every worker, whatever the hub sends and whatever fails, has the shape
\* WorkerState declares: a file has an identity and a content, a started server the
\* layers and the file it loaded.
THEOREM TypeCorrect == Spec => []TypeOK
<1>1. Init => TypeOK  BY InitTypeOK
<1>2. TypeOK /\ [Next]_vars => TypeOK'  BY NextType
<1> QED BY <1>1, <1>2, PTL DEF Spec

(* ------------------- what a started server leaves behind -------------- *)

\* servers are started and bound, never replaced: every step keeps what was loaded,
\* and whoever has the port
LEMMA ServersStay ==
  ASSUME TypeOK, StartsOnce, [Next]_vars, NEW t \in Task, Launched(t)
  PROVE  /\ Launched(t)'
         /\ candle'[t].layers = candle[t].layers
         /\ Serving(t) => Serving(t)'
<1>1. CASE candle' = candle
  BY <1>1 DEF Launched, Serving
<1>2. ASSUME NEW u \in Task, NEW r, NEW ok, StartCandle(u, r, ok), u # t
      PROVE  candle'[t] = candle[t]
  BY <1>2 DEF StartCandle, TypeOK
<1>3. ASSUME NEW u \in Task, LoadCaptured(u) PROVE candle'[t] = candle[t]
  <2>1. u # t
    BY <1>3 DEF LoadCaptured, Step, StartsOnce
  <2> QED BY <1>2, <1>3, <2>1 DEF LoadCaptured
<1>4. ASSUME NEW u \in Task, StartLocked(u) PROVE candle'[t] = candle[t]
  <2>1. u # t
    BY <1>4 DEF StartLocked, Step, StartsOnce
  <2> QED BY <1>2, <1>4, <2>1 DEF StartLocked
<1>5. ASSUME NEW u \in Task, Bind(u)
      PROVE  candle'[t] = candle[t] \/ u = t
  BY <1>5, BindOutcome
<1>6. ASSUME Bind(t)
      PROVE  /\ candle'[t].state \in {"dead", "serving", "shut_out"}
             /\ candle'[t].layers = candle[t].layers
             /\ ~Serving(t)
  BY <1>6, BindOutcome
<1>7. CASE UNCHANGED vars
  BY <1>1, <1>7 DEF vars
<1>8. CASE HubSends
  BY <1>1, <1>8 DEF HubSends, HeartbeatResponse, ForwardAdopt, InferenceAccept,
                    InferenceForward
<1>9. CASE HubContinues
  BY <1>1, <1>9 DEF HubContinues, ForwardReadFlags, ForwardReport, ForwardRelay, PostRefused,
                    PostAnswered, PostGarbled, InferencePass
<1>10. ASSUME NEW u \in Task, TaskNext(u) PROVE candle'[t] = candle[t]
  BY <1>3, <1>4, <1>10 DEF TaskNext, HashFile, Decide, ReadReady, PublishCaptured, StopOld,
     RemoveFile, Get, CreateFile, CreateFails, WriteFile, CheckFile, LockState, PublishLocked
<1>11. ASSUME NEW u \in Task, Bind(u) PROVE candle'[t] = candle[t] \/ Bind(t)
  BY <1>5, <1>11
<1> QED
  BY <1>6, <1>7, <1>8, <1>9, <1>10, <1>11 DEF Next, Launched, Serving

\* hence a loaded range stays loaded
LEMMA LoadedStays ==
  ASSUME TypeOK, StartsOnce, [Next]_vars, NEW r,
         \E t \in Task : Launched(t) /\ candle[t].layers = r
  PROVE  \E t \in Task : Launched(t)' /\ candle'[t].layers = r
<1> PICK t \in Task : Launched(t) /\ candle[t].layers = r
  OBVIOUS
<1> QED BY ServersStay

(* ------------------------ the inductive invariant --------------------- *)

LEMMA InitSetupInv == Init => SetupInv
  BY DEF Init, SetupInv, FlagsBacked, LoopHeartbeatsNameLoadedLayers, StartsOnce, PublishBacked,
         PortHeld, HandlerBacked, LockHeld, Launched, Serving

\* a step that leaves servers, tasks, flags and lock alone has only the handler and its
\* message to answer for
LEMMA HandlerStep ==
  ASSUME SetupInv, UNCHANGED <<flags, candle, pc, job, wlock>>,
         place' = place \/ Unlocked,
         HandlerBacked', LoopHeartbeatsNameLoadedLayers'
  PROVE  SetupInv'
<1>1. LockHeld'
  BY DEF SetupInv, LockHeld, Unlocked
<1> QED BY <1>1 DEF SetupInv, FlagsBacked, StartsOnce, PublishBacked, PortHeld, PortBound,
                    Launched, Serving

LEMMA HubSendsInv == TypeOK /\ SetupInv /\ HubSends => SetupInv'
<1> SUFFICES ASSUME TypeOK, SetupInv, HubSends PROVE SetupInv'
  OBVIOUS
<1> USE DEF pipeline, locals
<1>1. ASSUME NEW resp \in Responses, HeartbeatResponse(resp) PROVE SetupInv'
  <2>1. UNCHANGED <<candle, wlock, hub, sent>> /\ Idle
    BY <1>1 DEF HeartbeatResponse
  <2>2. \A t \in Task : \/ pc'[t] = pc[t] /\ job'[t] = job[t]
                        \/ pc[t] = "idle" /\ pc'[t] = "hash"
    <3>1. CASE StartsSetup(resp)
      <4>1. PICK u \in Task : SpawnSetup(u, resp)
        BY <1>1, <3>1 DEF HeartbeatResponse
      <4> QED BY <4>1 DEF SpawnSetup, TypeOK
    <3>2. CASE ~StartsSetup(resp)
      BY <1>1, <3>2 DEF HeartbeatResponse
    <3> QED BY <3>1, <3>2
  <2>3. \/ /\ flags'.loaded = flags.loaded
           /\ flags'.rpc_server_started = flags.rpc_server_started
           /\ flags'.llama_server_started = flags.llama_server_started
        \/ ~flags'.rpc_server_started /\ ~flags'.llama_server_started /\ flags'.loaded = None
    BY <1>1 DEF HeartbeatResponse, SpawnSetup, Reset, TypeOK, Flags
  <2>4. flags'.ready_for_inference = flags.ready_for_inference
    BY <1>1 DEF HeartbeatResponse, SpawnSetup, Reset, TypeOK, Flags
  <2>5. FlagsBacked'
    BY <2>1, <2>3, <2>4 DEF SetupInv, FlagsBacked, Launched
  <2>6. StartsOnce' /\ PublishBacked' /\ LockHeld'
    <3>1. StartsOnce'
      BY <2>1, <2>2 DEF SetupInv, StartsOnce, Launched
    <3>2. PublishBacked'
      BY <2>1, <2>2 DEF SetupInv, PublishBacked, Launched
    <3>3. LockHeld'
      BY <1>1, <2>1, <2>2 DEF HeartbeatResponse, Unlocked, SetupInv, LockHeld
    <3> QED BY <3>1, <3>2, <3>3
  <2>7. LoopHeartbeatsNameLoadedLayers' /\ PortHeld'
    BY <2>1 DEF SetupInv, LoopHeartbeatsNameLoadedLayers, PortHeld, PortBound, Launched, Serving
  <2>8. HandlerBacked'
    BY <2>1 DEF HandlerBacked, Idle
  <2> QED BY <2>5, <2>6, <2>7, <2>8 DEF SetupInv
<1>2. ASSUME NEW e \in Entries, ForwardAdopt(e) PROVE SetupInv'
  <2>1. HandlerBacked' /\ LoopHeartbeatsNameLoadedLayers'
    BY <1>2 DEF ForwardAdopt, HandlerBacked, SetupInv, LoopHeartbeatsNameLoadedLayers, Launched
  <2> QED BY <1>2, <2>1, HandlerStep DEF ForwardAdopt
<1>3. CASE InferenceAccept
  <2>1. HandlerBacked' /\ LoopHeartbeatsNameLoadedLayers'
    BY <1>3 DEF InferenceAccept, Idle, HandlerBacked, SetupInv, LoopHeartbeatsNameLoadedLayers,
                Launched
  <2> QED BY <1>3, <2>1, HandlerStep DEF InferenceAccept
<1>4. CASE InferenceForward
  <2>1. HandlerBacked' /\ LoopHeartbeatsNameLoadedLayers'
    BY <1>4 DEF InferenceForward, SendToHop, HandlerBacked, SetupInv,
                LoopHeartbeatsNameLoadedLayers, Launched
  <2> QED BY <1>4, <2>1, HandlerStep DEF InferenceForward
<1> QED BY <1>1, <1>2, <1>3, <1>4 DEF HubSends

LEMMA HubContinuesInv == TypeOK /\ SetupInv /\ HubContinues => SetupInv'
<1> SUFFICES ASSUME TypeOK, SetupInv, HubContinues PROVE SetupInv'
  OBVIOUS
<1> USE DEF Await, pipeline, locals
<1>1. UNCHANGED <<flags, candle, pc, job, wlock, place>>
  BY DEF HubContinues, ForwardReadFlags, ForwardReport, ForwardRelay, PostRefused,
         PostAnswered, PostGarbled, InferencePass
<1>2. HandlerBacked'
  <2>1. hub'.at \in {"recv", "relay", "pass"} \/ ForwardReadFlags
    BY DEF HubContinues, ForwardReport, ForwardRelay, PostRefused, PostAnswered, PostGarbled,
           InferencePass, TypeOK, HubState
  <2>2. CASE ForwardReadFlags
    BY <1>1, <2>2 DEF ForwardReadFlags, IsReady, HandlerBacked, SetupInv, FlagsBacked, TypeOK,
                      HubState
  <2> QED BY <2>1, <2>2 DEF HandlerBacked
<1>3. LoopHeartbeatsNameLoadedLayers'
  <2>1. CASE ForwardReport
    <3>1. sent'.layers = flags.loaded /\ flags.loaded # None
      BY <2>1 DEF ForwardReport, ReportedLayers, SetupInv, HandlerBacked
    <3> QED BY <1>1, <3>1 DEF LoopHeartbeatsNameLoadedLayers, SetupInv, FlagsBacked, Launched
  <2>2. sent' = sent \/ sent'.kind # "Heartbeat" \/ ForwardReport
    BY DEF HubContinues, ForwardReadFlags, ForwardRelay, PostRefused, PostAnswered,
           PostGarbled, InferencePass, SendToHop
  <2> QED BY <1>1, <2>1, <2>2 DEF SetupInv, LoopHeartbeatsNameLoadedLayers, Launched
<1> QED BY <1>1, <1>2, <1>3, HandlerStep

\* tasks that touch neither servers nor flags, and neither start nor publish
LEMMA QuietTaskStep ==
  ASSUME TypeOK, SetupInv, NEW t \in Task, NEW s \in TaskStep,
         pc' = [pc EXCEPT ![t] = s], s \notin {"publish", "start", "announce"},
         pc[t] \notin {"publish", "announce", "done"},
         UNCHANGED <<place, flags, candle, job, hub, sent, wlock>>
  PROVE  SetupInv'
<1>1. StartsOnce' /\ PublishBacked'
  BY DEF SetupInv, StartsOnce, PublishBacked, TypeOK, Launched
<1>2. LockHeld'
  BY DEF SetupInv, LockHeld, TypeOK
<1>3. PortHeld' /\ FlagsBacked'
  BY DEF SetupInv, PortHeld, PortBound, FlagsBacked, Launched, Serving
<1>4. HandlerBacked' /\ LoopHeartbeatsNameLoadedLayers'
  BY DEF SetupInv, HandlerBacked, LoopHeartbeatsNameLoadedLayers, Launched
<1> QED BY <1>1, <1>2, <1>3, <1>4 DEF SetupInv

\* a task that starts a server, at the step after which it only publishes or ends
LEMMA StartStep ==
  ASSUME TypeOK, SetupInv, NEW t \in Task, NEW r \in Range,
         pc[t] \in {"load", "start"}, StartCandle(t, r, TRUE)
  PROVE  /\ ~Launched(t)
         /\ Launched(t)' /\ candle'[t].layers = r
         /\ candle'[t].state = "starting"
         /\ \A u \in Task \ {t} : candle'[u] = candle[u]
         /\ PortHeld'
<1>1. ~Launched(t)
  BY DEF SetupInv, StartsOnce
<1>2. candle'[t].state = "starting" /\ candle'[t].layers = r
  BY DEF StartCandle, TypeOK
<1>3. \A u \in Task \ {t} : candle'[u] = candle[u]
  BY DEF StartCandle, TypeOK
<1>4. PortHeld'
  BY <1>1, <1>2, <1>3 DEF SetupInv, PortHeld, PortBound, Launched, Serving
<1> QED BY <1>1, <1>2, <1>3, <1>4 DEF Launched

LEMMA TaskInv ==
  ASSUME TypeOK, SetupInv, [Next]_vars, NEW t \in Task, TaskNext(t) \/ Bind(t)
  PROVE  SetupInv'
<1> USE DEF Step, Goto, pipeline, locals
<1>1. LoopHeartbeatsNameLoadedLayers'
  <2>1. UNCHANGED sent
    BY DEF TaskNext, HashFile, Decide, ReadReady, LoadCaptured, PublishCaptured, StopOld,
           RemoveFile, Get, CreateFile, CreateFails, WriteFile, CheckFile, LockState,
           StartLocked, PublishLocked, Bind
  <2> QED BY <2>1, LoadedStays DEF SetupInv, LoopHeartbeatsNameLoadedLayers
<1>2. CASE \/ HashFile(t) \/ Decide(t) \/ ReadReady(t) \/ RemoveFile(t) \/ Get(t)
           \/ CreateFile(t) \/ CreateFails(t) \/ WriteFile(t)
  <2>1. PICK s \in TaskStep \ {"publish", "start", "announce"} : pc' = [pc EXCEPT ![t] = s]
    BY <1>2 DEF HashFile, Decide, ReadReady, RemoveFile, Get, CreateFile, CreateFails,
                WriteFile, TaskStep
  <2>2. /\ pc[t] \notin {"publish", "announce", "done"}
        /\ UNCHANGED <<place, flags, candle, job, hub, sent, wlock>>
    BY <1>2 DEF HashFile, Decide, ReadReady, RemoveFile, Get, CreateFile, CreateFails,
                WriteFile
  <2> QED BY <2>1, <2>2, QuietTaskStep
<1>3. CASE CheckFile(t)
  BY <1>3, QuietTaskStep DEF CheckFile, TaskStep
<1>4. CASE LoadCaptured(t)
  <2>1. PICK ok \in BOOLEAN : /\ StartCandle(t, job[t].layers, ok)
                              /\ Step(t, "load", AfterLoad(ok))
    BY <1>4 DEF LoadCaptured
  <2>2. UNCHANGED <<place, flags, wlock, hub, sent, job>>
    BY <1>4 DEF LoadCaptured
  <2>3. CASE ~ok
    BY <2>1, <2>2, <2>3, QuietTaskStep DEF StartCandle, TaskStep
  <2>4. CASE ok
    <3>1. job[t].layers \in Range
      BY DEF TypeOK, Job
    <3>2. /\ Launched(t)' /\ candle'[t].layers = job[t].layers
          /\ \A u \in Task \ {t} : candle'[u] = candle[u]
          /\ PortHeld'
      BY <2>1, <2>4, <3>1, StartStep
    <3>3. pc' = [pc EXCEPT ![t] = "publish"]
      BY <2>1, <2>4
    <3>4. StartsOnce' /\ PublishBacked'
      BY <2>2, <3>2, <3>3 DEF SetupInv, StartsOnce, PublishBacked, Launched, TypeOK
    <3>5. LockHeld'
      BY <2>2, <3>3 DEF SetupInv, LockHeld, TypeOK
    <3>6. FlagsBacked' /\ HandlerBacked'
      BY <2>2, LoadedStays DEF SetupInv, FlagsBacked, HandlerBacked
    <3> QED BY <1>1, <3>2, <3>4, <3>5, <3>6 DEF SetupInv
  <2> QED BY <2>3, <2>4
<1>5. CASE PublishCaptured(t)
  <2>1. pc' = [pc EXCEPT ![t] = "done"] /\ pc[t] = "publish"
    BY <1>5 DEF PublishCaptured
  <2>2. UNCHANGED <<place, candle, job, hub, wlock>>
    BY <1>5 DEF PublishCaptured
  <2>3. /\ flags'.rpc_server_started /\ flags'.ready_for_inference
        /\ flags'.loaded = job[t].layers
    BY <1>5 DEF PublishCaptured, Publish, TypeOK, Flags
  <2>4. job[t].layers # None
    BY DEF TypeOK, Job
  <2>5. FlagsBacked'
    BY <2>1, <2>2, <2>3, <2>4 DEF SetupInv, PublishBacked, FlagsBacked, Launched
  <2>6. StartsOnce' /\ PublishBacked' /\ LockHeld'
    BY <2>1, <2>2 DEF SetupInv, StartsOnce, PublishBacked, LockHeld, TypeOK, Launched
  <2>7. PortHeld' /\ HandlerBacked'
    BY <2>2, <2>3, <2>4 DEF SetupInv, PortHeld, PortBound, HandlerBacked, Launched, Serving
  <2> QED BY <1>1, <2>5, <2>6, <2>7 DEF SetupInv
<1>6. CASE StopOld(t)
  <2>1. pc' = [pc EXCEPT ![t] = "remove"] /\ pc[t] = "stop"
    BY <1>6 DEF StopOld
  <2>2. UNCHANGED <<place, candle, job, hub, wlock>>
    BY <1>6 DEF StopOld
  <2>3. /\ flags'.loaded = flags.loaded
        /\ flags'.rpc_server_started = flags.rpc_server_started
        /\ ~flags'.llama_server_started
    BY <1>6 DEF StopOld, TypeOK, Flags
  <2>4. StartsOnce' /\ PublishBacked' /\ LockHeld'
    BY <2>1, <2>2 DEF SetupInv, StartsOnce, PublishBacked, LockHeld, TypeOK, Launched
  <2>5. FlagsBacked' /\ PortHeld' /\ HandlerBacked'
    BY <2>2, <2>3 DEF SetupInv, FlagsBacked, PortHeld, PortBound, HandlerBacked, Launched,
                      Serving
  <2> QED BY <1>1, <2>4, <2>5 DEF SetupInv
<1>7. CASE LockState(t)
  <2>1. pc' = [pc EXCEPT ![t] = "start"] /\ pc[t] = "lock" /\ wlock = None /\ wlock' = t
    BY <1>7 DEF LockState, Unlocked
  <2>2. /\ UNCHANGED <<place, candle, hub, flags>>
        /\ job'[t].layers = place.layers /\ \A u \in Task \ {t} : job'[u] = job[u]
    BY <1>7 DEF LockState, TypeOK, Job
  <2>3. LockHeld'
    BY <2>1, <2>2 DEF SetupInv, LockHeld, TypeOK
  <2>4. StartsOnce' /\ PublishBacked'
    BY <2>1, <2>2 DEF SetupInv, StartsOnce, PublishBacked, TypeOK, Launched
  <2>5. FlagsBacked' /\ PortHeld' /\ HandlerBacked'
    BY <2>2 DEF SetupInv, FlagsBacked, PortHeld, PortBound, HandlerBacked, Launched, Serving
  <2> QED BY <1>1, <2>3, <2>4, <2>5 DEF SetupInv
<1>8. CASE StartLocked(t)
  <2>1. PICK ok \in BOOLEAN : /\ StartCandle(t, job[t].layers, ok)
                              /\ pc' = [pc EXCEPT ![t] = IF ok THEN "announce" ELSE "done"]
                              /\ wlock' = IF ok THEN wlock ELSE None
    BY <1>8 DEF StartLocked
  <2>2. pc[t] = "start" /\ wlock = t /\ UNCHANGED <<place, flags, job, hub>>
    BY <1>8 DEF StartLocked
  <2>3. LockHeld'
    BY <2>1, <2>2 DEF SetupInv, LockHeld, TypeOK
  <2>4. CASE ~ok
    <3>1. UNCHANGED candle
      BY <2>1, <2>4 DEF StartCandle
    <3>2. StartsOnce' /\ PublishBacked'
      BY <2>1, <2>2, <2>4, <3>1 DEF SetupInv, StartsOnce, PublishBacked, TypeOK, Launched
    <3>3. FlagsBacked' /\ PortHeld' /\ HandlerBacked'
      BY <2>2, <3>1 DEF SetupInv, FlagsBacked, PortHeld, PortBound, HandlerBacked, Launched,
                        Serving
    <3> QED BY <1>1, <2>3, <3>2, <3>3 DEF SetupInv
  <2>5. CASE ok
    <3>1. job[t].layers \in Range
      BY DEF TypeOK, Job
    <3>2. /\ Launched(t)' /\ candle'[t].layers = job[t].layers
          /\ \A u \in Task \ {t} : candle'[u] = candle[u]
          /\ PortHeld'
      BY <2>1, <2>2, <2>5, <3>1, StartStep
    <3>3. StartsOnce' /\ PublishBacked'
      BY <2>1, <2>2, <2>5, <3>2 DEF SetupInv, StartsOnce, PublishBacked, TypeOK, Launched
    <3>4. FlagsBacked' /\ HandlerBacked'
      BY <2>2, LoadedStays DEF SetupInv, FlagsBacked, HandlerBacked
    <3> QED BY <1>1, <2>3, <3>2, <3>3, <3>4 DEF SetupInv
  <2> QED BY <2>4, <2>5
<1>9. CASE PublishLocked(t)
  <2>1. pc' = [pc EXCEPT ![t] = "done"] /\ pc[t] = "announce" /\ wlock = t
    BY <1>9 DEF PublishLocked
  <2>2. UNCHANGED <<place, candle, job, hub>>
    BY <1>9 DEF PublishLocked
  <2>3. /\ flags'.rpc_server_started /\ flags'.ready_for_inference
        /\ flags'.loaded = job[t].layers
    BY <1>9 DEF PublishLocked, Publish, TypeOK, Flags
  <2>4. job[t].layers # None
    BY DEF TypeOK, Job
  <2>5. FlagsBacked'
    BY <2>1, <2>2, <2>3, <2>4 DEF SetupInv, PublishBacked, FlagsBacked, Launched
  <2>6. StartsOnce' /\ PublishBacked' /\ LockHeld'
    BY <2>1, <2>2 DEF SetupInv, StartsOnce, PublishBacked, LockHeld, TypeOK, Launched
  <2>7. PortHeld' /\ HandlerBacked'
    BY <2>2, <2>3, <2>4 DEF SetupInv, PortHeld, PortBound, HandlerBacked, Launched, Serving
  <2> QED BY <1>1, <2>5, <2>6, <2>7 DEF SetupInv
<1>10. CASE Bind(t)
  <2>1. UNCHANGED <<place, flags, pc, job, wlock, hub>>
    BY <1>10 DEF Bind
  <2>2. /\ Launched(t) /\ ~Serving(t)
        /\ candle'[t].layers = candle[t].layers
        /\ candle'[t].state \in {"serving", "dead", "shut_out"}
        /\ candle'[t].state = "dead" => PortBound
        /\ candle'[t].state # "dead" => ~PortBound
        /\ \A u \in Task \ {t} : candle'[u] = candle[u]
    BY <1>10, BindOutcome
  <2>3. PortHeld'
    BY <2>2 DEF SetupInv, PortHeld, PortBound, Serving
  <2>4. StartsOnce' /\ PublishBacked' /\ LockHeld'
    BY <2>1, <2>2 DEF SetupInv, StartsOnce, PublishBacked, LockHeld, Launched
  <2>5. FlagsBacked' /\ HandlerBacked'
    BY <2>1, LoadedStays DEF SetupInv, FlagsBacked, HandlerBacked
  <2> QED BY <1>1, <2>3, <2>4, <2>5 DEF SetupInv
<1> QED BY <1>2, <1>3, <1>4, <1>5, <1>6, <1>7, <1>8, <1>9, <1>10 DEF TaskNext

LEMMA SetupInvariant == Spec => []SetupInv
<1>1. Init => SetupInv
  BY InitSetupInv
<1>2. TypeOK /\ SetupInv /\ [Next]_vars => SetupInv'
  <2> SUFFICES ASSUME TypeOK, SetupInv, [Next]_vars PROVE SetupInv'
    OBVIOUS
  <2>1. CASE UNCHANGED vars
    BY <2>1 DEF vars, pipeline, locals, SetupInv, FlagsBacked, LoopHeartbeatsNameLoadedLayers,
       StartsOnce, PublishBacked, PortHeld, PortBound, HandlerBacked, LockHeld, Launched,
       Serving
  <2> QED BY <2>1, HubSendsInv, HubContinuesInv, TaskInv DEF Next
<1> QED BY <1>1, <1>2, TypeCorrect, PTL DEF Spec

(* --------------------- what a setup task leaves alone ------------------ *)

\* a setup task moves on by itself, touches neither place nor handler, and takes no flag
\* back but llama_server_started
LEMMA TaskMoves ==
  ASSUME TypeOK, NEW t \in Task, TaskNext(t)
  PROVE  /\ UNCHANGED <<place, hub, sent>>
         /\ pc[t] # "idle" /\ pc'[t] # "idle" /\ pc' = [pc EXCEPT ![t] = pc'[t]]
         /\ \/ flags'.rpc_server_started = flags.rpc_server_started
            \/ flags'.rpc_server_started = TRUE
         /\ flags.ready_for_inference => flags'.ready_for_inference
<1> USE DEF pipeline, TaskNext, HashFile, Decide, ReadReady, LoadCaptured, PublishCaptured, StopOld,
    RemoveFile, Get, CreateFile, CreateFails, WriteFile, CheckFile, LockState, StartLocked,
     PublishLocked
<1>1. UNCHANGED <<place, hub, sent>>
  OBVIOUS
<1>2. pc[t] # "idle" /\ pc'[t] # "idle" /\ pc' = [pc EXCEPT ![t] = pc'[t]]
  BY DEF Step, Goto, TypeOK
<1>3. UNCHANGED flags \/ StopOld(t) \/ \E r : Publish(r)
  OBVIOUS
<1>4. /\ \/ flags'.rpc_server_started = flags.rpc_server_started
         \/ flags'.rpc_server_started = TRUE
      /\ flags.ready_for_inference => flags'.ready_for_inference
  BY <1>3 DEF Publish, TypeOK, Flags
<1> QED BY <1>1, <1>2, <1>4

\* and no setup changes the model another one is for, nor its own
LEMMA TaskJobs ==
  ASSUME TypeOK, NEW t \in Task, TaskNext(t)
  PROVE  \A u \in Task : job'[u].url = job[u].url /\ job'[u].hash = job[u].hash
<1>1. CASE LockState(t)
  BY <1>1 DEF LockState, TypeOK, Job
<1>2. CASE ~LockState(t)
  BY <1>2 DEF TaskNext, HashFile, Decide, ReadReady, LoadCaptured, PublishCaptured, StopOld,
     RemoveFile, Get, CreateFile, CreateFails, WriteFile, CheckFile, StartLocked,
     PublishLocked, locals
<1> QED BY <1>1, <1>2

(* ----------------------------- the theorems --------------------------- *)

\* llama_server_started, rpc_server_started and the loaded layers never promise more than
\* a setup task did, however many setups the hub triggers on top of each other.
THEOREM FlagsAreBacked == Spec => []FlagsBacked
<1>1. SetupInv => FlagsBacked
  BY DEF SetupInv
<1> QED BY <1>1, SetupInvariant, PTL

\* Every Heartbeat the hub loop answers with names layers this worker loaded.  (Those of
\* the inbound listener are not covered, see the property.)
THEOREM LoopHeartbeatsAreTrue == Spec => []LoopHeartbeatsNameLoadedLayers
<1>1. SetupInv => LoopHeartbeatsNameLoadedLayers
  BY DEF SetupInv
<1> QED BY <1>1, SetupInvariant, PTL

LEMMA FlagHasServer ==
  ASSUME TypeOK, SetupInv, flags.rpc_server_started
  PROVE  HasServer \/ ShutOut
<1>1. \E t \in Task : Launched(t)
  BY DEF SetupInv, FlagsBacked
<1>2. CASE \E t \in Task : candle[t].state \in {"starting", "serving", "dead"}
  BY <1>2 DEF SetupInv, PortHeld, PortBound, Serving, HasServer
<1>3. CASE \A t \in Task : candle[t].state \in {"none", "shut_out"}
  BY <1>1, <1>3 DEF ShutOut, Launched
<1> QED BY <1>2, <1>3 DEF TypeOK, Candle

\* rpc_server_started is never up without a server that is bound or about to be, unless
\* another process had the port when each of the servers came to bind it: two setups
\* never lose it to one another.
THEOREM ReadyWorkerHasServer == Spec => []ReadyHasServer
<1>1. TypeOK /\ SetupInv => ReadyHasServer
  BY FlagHasServer DEF ReadyHasServer
<1> QED BY <1>1, TypeCorrect, SetupInvariant, PTL

\* Nor is a request posted without one, setup tasks running since the flag was read; with
\* the same exception.
THEOREM PostsFindServer == Spec => []PostsHaveServer
<1>1. TypeOK /\ SetupInv => PostsHaveServer
  BY FlagHasServer DEF PostsHaveServer, SetupInv, HandlerBacked
<1> QED BY <1>1, TypeCorrect, SetupInvariant, PTL

\* Between reading the assignment under the write lock and publishing it as loaded, the
\* model is loaded; whatever hub loop, servers and other setups do then, what is published
\* is still assigned, and is what was loaded.
THEOREM DownloadsPublishAssignment == Spec => DownloadPublishesAssignment
<1>1. TypeOK /\ SetupInv /\ [Next]_vars => [PublishesAssignment]_vars
  <2> SUFFICES ASSUME TypeOK, SetupInv, [Next]_vars, NEW t \in Task,
                      pc[t] = "announce", pc'[t] # "announce"
               PROVE  flags'.loaded = place'.layers /\ candle'[t].layers = place'.layers
    BY DEF PublishesAssignment
  <2>1. /\ wlock = t /\ ~Unlocked /\ job[t].layers = place.layers
        /\ candle[t].layers = job[t].layers
    BY DEF SetupInv, LockHeld, PublishBacked, Unlocked
  <2>2. ASSUME NEW u \in Task, TaskNext(u) PROVE u = t
    <3>1. pc' = [pc EXCEPT ![u] = pc'[u]]
      BY <2>2, TaskMoves
    <3> QED BY <3>1 DEF TypeOK
  <2>3. ~UNCHANGED pc
    OBVIOUS
  <2>4. \E u \in Task : TaskNext(u)
    <3>1. ~HubSends
      BY <2>1, <2>3 DEF HubSends, HeartbeatResponse, ForwardAdopt, InferenceAccept,
                        InferenceForward
    <3>2. ~HubContinues
      BY <2>3 DEF HubContinues, ForwardReadFlags, ForwardReport, ForwardRelay, PostRefused,
                  PostAnswered, PostGarbled, InferencePass
    <3> QED BY <2>3, <3>1, <3>2 DEF Next, vars, Bind
  <2>5. PublishLocked(t)
    BY <2>2, <2>4 DEF TaskNext, HashFile, Decide, ReadReady, LoadCaptured, PublishCaptured,
       StopOld, RemoveFile, Get, CreateFile, CreateFails, WriteFile, CheckFile, LockState,
       StartLocked, Step
  <2> QED BY <2>1, <2>5 DEF PublishLocked, Publish, TypeOK, Flags
<1> QED BY <1>1, TypeCorrect, SetupInvariant, PTL DEF Spec, DownloadPublishesAssignment

(* ------------------- the worker is ready in the end ------------------- *)

\* the setups of one model write nothing else
LEMMA OneModelStep ==
  ASSUME TypeOK, NEW f \in File, StaysWith(f), OnlyModel(f), [Next]_vars
  PROVE  OnlyModel(f)'
<1> USE DEF pipeline, locals, Step, Goto
<1>1. CASE UNCHANGED <<model, pc, job, file>>
  BY <1>1 DEF OnlyModel
<1>2. ASSUME NEW resp \in Responses, HeartbeatResponse(resp) PROVE OnlyModel(f)'
  <2>1. /\ model' = NewModel(resp) /\ file' = file
        /\ NewModel(resp).url # None => NewModel(resp).url = f /\ NewModel(resp).hash = f
    <3>1. resp \in Response /\ (resp.model_url # None => resp.model_url = f /\ resp.model_hash = f)
      BY DEF StaysWith
    <3>2. CASE ModelChanged(resp)
      BY <1>2, <3>1, <3>2 DEF HeartbeatResponse, NewModel
    <3>3. CASE ~ModelChanged(resp)
      BY <1>2, <3>1, <3>3 DEF HeartbeatResponse, NewModel, ModelChanged, OnlyModel
    <3> QED BY <3>2, <3>3
  <2>2. CASE StartsSetup(resp)
    <3>1. PICK t \in Task : SpawnSetup(t, resp)
      BY <1>2, <2>2 DEF HeartbeatResponse
    <3>2. /\ pc' = [pc EXCEPT ![t] = "hash"]
          /\ job'[t].url = f /\ job'[t].hash = f
          /\ \A u \in Task \ {t} : job'[u] = job[u]
      BY <2>1, <2>2, <3>1 DEF SpawnSetup, StartsSetup, TypeOK
    <3> QED BY <2>1, <3>2 DEF OnlyModel, TypeOK
  <2>3. CASE ~StartsSetup(resp)
    BY <1>2, <2>1, <2>3 DEF HeartbeatResponse, OnlyModel
  <2> QED BY <2>2, <2>3
<1>3. ASSUME NEW t \in Task, NEW s \in TaskStep \ {"write"}, Step(t, pc[t], s), pc[t] # "idle",
             \A u \in Task : job'[u].url = job[u].url /\ job'[u].hash = job[u].hash,
             model' = model, file' = file \/ file' = NoFile
      PROVE  OnlyModel(f)'
  BY <1>3 DEF OnlyModel, TypeOK
<1>4. ASSUME NEW t \in Task, CreateFile(t) PROVE OnlyModel(f)'
  <2> DEFINE S == {u \in Task : pc[u] = "write" /\ fd[u] = Inode(t) /\ file # NoFile}
  <2>1. /\ file' = [at |-> "disk", inode |-> Inode(t), content |-> Partial, last |-> t,
                    from |-> {job[u].url : u \in S \cup {t}}]
        /\ pc' = [pc EXCEPT ![t] = "write"] /\ pc[t] = "create"
        /\ UNCHANGED <<model, job>>
    BY <1>4 DEF CreateFile
  <2>2. \A u \in S \cup {t} : job[u].url = f
    BY <2>1 DEF OnlyModel
  <2> HIDE DEF S
  <2>3. {job[u].url : u \in S \cup {t}} = {f}
    BY <2>2
  <2>4. file'.last # None /\ file'.from = {f}
    BY <2>1, <2>3
  <2> QED BY <2>1, <2>4 DEF OnlyModel, TypeOK
<1>5. ASSUME NEW t \in Task, WriteFile(t) PROVE OnlyModel(f)'
  <2>1. /\ pc' = [pc EXCEPT ![t] = "check"] /\ pc[t] = "write"
        /\ UNCHANGED <<model, job>>
    BY <1>5 DEF WriteFile
  <2>2. CASE file # NoFile /\ file.inode = fd[t]
    <3>1. PICK c : file' = [file EXCEPT !.content = c]
      BY <1>5, <2>2 DEF WriteFile
    <3>2. file'.last = file.last /\ file'.from = file.from
      BY <2>2, <3>1 DEF TypeOK, FileState
    <3> QED BY <2>1, <2>2, <3>2 DEF OnlyModel, TypeOK
  <2>3. CASE ~(file # NoFile /\ file.inode = fd[t])
    <3>1. UNCHANGED file
      BY <1>5, <2>3 DEF WriteFile
    <3> QED BY <2>1, <3>1 DEF OnlyModel, TypeOK
  <2> QED BY <2>2, <2>3
<1>6. CASE UNCHANGED vars
  BY <1>1, <1>6 DEF vars
<1>7. CASE HubSends
  BY <1>1, <1>2, <1>7 DEF HubSends, ForwardAdopt, InferenceAccept, InferenceForward
<1>8. CASE HubContinues
  BY <1>1, <1>8 DEF HubContinues, ForwardReadFlags, ForwardReport, ForwardRelay, PostRefused,
                    PostAnswered, PostGarbled, InferencePass
<1>9. ASSUME NEW t \in Task, TaskNext(t) PROVE OnlyModel(f)'
  <2>1. CASE CreateFile(t) \/ WriteFile(t)
    BY <1>4, <1>5, <2>1
  <2>2. CASE ~(CreateFile(t) \/ WriteFile(t))
    <3>1. /\ model' = model /\ (file' = file \/ file' = NoFile)
          /\ \E s \in TaskStep \ {"write"} : pc[t] # "idle" /\ Step(t, pc[t], s)
      BY <1>9, <2>2 DEF TaskNext, TaskStep, HashFile, Decide, ReadReady, LoadCaptured,
         PublishCaptured, StopOld, RemoveFile, Get, CreateFails, CheckFile, LockState,
         StartLocked, PublishLocked
    <3> QED BY <1>3, <1>9, <3>1, TaskJobs
  <2> QED BY <2>1, <2>2
<1>10. ASSUME NEW t \in Task, Bind(t) PROVE OnlyModel(f)'
  BY <1>1, <1>10 DEF Bind
<1> QED BY <1>6, <1>7, <1>8, <1>9, <1>10 DEF Next

\* whoever takes the model from one setup has it before it, or gets it
LEMMA OthersPassOn ==
  ASSUME TypeOK, NEW f \in File, OnlyModel(f), NEW t \in Task, MakesReady(t),
         NEW u \in Task \ {t}, TaskNext(u)
  PROVE  MakesReady(t)' \/ MakesReady(u)'
<1> USE DEF pipeline, locals, Step, Goto
<1>1. /\ pc'[t] = pc[t] /\ job'[t] = job[t]
      /\ (fd'[t] = fd[t] \/ CreateFile(u)) /\ seen'[t] = seen[t]
  BY DEF TypeOK, TaskNext, HashFile, Decide, ReadReady, LoadCaptured, PublishCaptured, StopOld,
     RemoveFile, Get, CreateFile, CreateFails, WriteFile, CheckFile, LockState, StartLocked,
     PublishLocked
<1>2. CASE RemoveFile(u)
  <2>1. pc'[u] = "get"
    BY <1>2 DEF RemoveFile, TypeOK
  <2> QED BY <2>1 DEF MakesReady
<1>3. CASE CreateFile(u)
  <2>1. /\ pc'[u] = "write" /\ fd'[u] = Inode(u)
        /\ file'.inode = Inode(u) /\ file'.last = u /\ file'.at = "disk"
    BY <1>3 DEF CreateFile, TypeOK
  <2> QED BY <2>1 DEF MakesReady, NoFile
<1>4. CASE WriteFile(u) /\ file' # file
  <2>1. file # NoFile /\ file.inode = fd[u] /\ pc[u] = "write"
    BY <1>4 DEF WriteFile
  <2>2. file.from = {f} /\ job[u].url = f /\ job[t].url = f
    BY <2>1, <1>1 DEF OnlyModel, MakesReady
  <2>3. PICK c \in {f, file.content} : file' = [file EXCEPT !.content = c]
    BY <1>4, <2>1, <2>2 DEF WriteFile, Written
  <2>4. /\ file'.content = c /\ file'.inode = file.inode /\ file'.last = file.last
        /\ file' # NoFile
    BY <2>1, <2>3 DEF TypeOK, FileState, NoFile
  <2>5. HasModel(t) => HasModel(t)'
    BY <1>1, <2>2, <2>4 DEF HasModel
  <2>6. NeedDownload(t) => NeedDownload(t)'
    BY <1>1, <2>1 DEF NeedDownload
  <2> QED BY <1>1, <1>4, <2>1, <2>4, <2>5, <2>6 DEF MakesReady, WriteFile
<1>5. CASE file' = file /\ ~CreateFile(u)
  BY <1>1, <1>5 DEF MakesReady, HasModel, NeedDownload
<1>6. file' = file \/ RemoveFile(u) \/ CreateFile(u) \/ WriteFile(u)
  BY DEF TaskNext, HashFile, Decide, ReadReady, LoadCaptured, PublishCaptured, StopOld, Get,
     CreateFails, CheckFile, LockState, StartLocked,
     PublishLocked
<1> QED BY <1>2, <1>3, <1>4, <1>5, <1>6

\* and it goes on to the end without a fault
LEMMA SetupGoesOn ==
  ASSUME TypeOK, SetupsWork, NEW f \in File, OnlyModel(f), NEW t \in Task, MakesReady(t),
         ~flags.ready_for_inference, TaskNext(t)
  PROVE  MakesReady(t)' \/ flags'.ready_for_inference
<1> USE DEF pipeline, locals, Step, Goto, HasModel
<1>1. pc[t] # "idle" /\ job[t].url = f /\ job[t].hash = f /\ f # None /\ f # Partial
  BY PartialAssumption DEF MakesReady, OnlyModel
<1>2. HasModel(t) => LoadResults = {TRUE}
  BY <1>1 DEF LoadResults, SetupsWork
<1>3. CASE HashFile(t)
  <2>1. /\ pc'[t] = "decide" /\ file' = file /\ job' = job
        /\ seen'[t] = IF file = NoFile THEN None ELSE file.content
    BY <1>3 DEF HashFile, TypeOK
  <2> QED BY <1>1, <2>1 DEF MakesReady, NeedDownload
<1>4. CASE Decide(t)
  <2>1. /\ pc'[t] = IF NeedDownload(t) THEN "stop" ELSE "ready"
        /\ file' = file /\ job' = job /\ (NeedDownload(t) \/ HasModel(t))
    BY <1>4 DEF Decide, TypeOK, MakesReady
  <2> QED BY <2>1 DEF MakesReady
<1>5. CASE ReadReady(t) \/ LockState(t)
  <2>1. pc'[t] \in {"load", "start"} /\ file' = file /\ HasModel(t)
    BY <1>5 DEF ReadReady, LockState, TypeOK, MakesReady
  <2>2. job'[t].url = job[t].url
    BY TaskJobs
  <2> QED BY <2>1, <2>2 DEF MakesReady
<1>6. CASE LoadCaptured(t)
  <2>1. HasModel(t)
    BY <1>6 DEF LoadCaptured, MakesReady
  <2>2. pc'[t] = "publish"
    BY <1>2, <1>6, <2>1 DEF LoadCaptured, StartCandle, TypeOK
  <2> QED BY <2>2 DEF MakesReady
<1>7. CASE PublishCaptured(t)
  BY <1>7 DEF PublishCaptured, Publish, TypeOK, Flags
<1>8. CASE StopOld(t) \/ RemoveFile(t) \/ Get(t)
  <2>1. pc'[t] \in {"remove", "get", "create"}
    BY <1>8 DEF StopOld, RemoveFile, Get, TypeOK, SetupsWork
  <2> QED BY <2>1 DEF MakesReady
<1>9. CASE CreateFile(t)
  <2>1. /\ pc'[t] = "write" /\ fd'[t] = Inode(t)
        /\ file'.inode = Inode(t) /\ file'.last = t /\ file'.at = "disk"
    BY <1>9 DEF CreateFile, TypeOK
  <2> QED BY <2>1 DEF MakesReady, NoFile
<1>10. ~CreateFails(t)
  BY DEF CreateFails, SetupsWork
<1>11. CASE WriteFile(t)
  <2>1. /\ pc'[t] = "check" /\ job' = job
        /\ file # NoFile /\ file.inode = fd[t] /\ file.last = t
    BY <1>11 DEF WriteFile, MakesReady, TypeOK
  <2>2. file.from = {f}
    BY <2>1 DEF OnlyModel
  <2>3. file' = [file EXCEPT !.content = f]
    BY <1>1, <1>11, <2>1, <2>2 DEF WriteFile, Written, SetupsWork
  <2>4. file' # NoFile /\ file'.content = f
    BY <2>1, <2>3 DEF TypeOK, FileState, NoFile
  <2> QED BY <1>1, <2>1, <2>4 DEF MakesReady
<1>12. CASE CheckFile(t)
  <2>1. pc'[t] = "lock" /\ file' = file /\ job' = job /\ HasModel(t)
    BY <1>12 DEF CheckFile, MakesReady, TypeOK
  <2> QED BY <2>1 DEF MakesReady
<1>13. CASE StartLocked(t)
  <2>1. HasModel(t)
    BY <1>13 DEF StartLocked, MakesReady
  <2>2. pc'[t] = "announce"
    BY <1>2, <1>13, <2>1 DEF StartLocked, StartCandle, TypeOK
  <2> QED BY <2>2 DEF MakesReady
<1>14. CASE PublishLocked(t)
  BY <1>14 DEF PublishLocked, Publish, TypeOK, Flags
<1> QED BY <1>3, <1>4, <1>5, <1>6, <1>7, <1>8, <1>9, <1>10, <1>11, <1>12, <1>13, <1>14
        DEF TaskNext

LEMMA OnTheWayStep ==
  ASSUME TypeOK, SetupsWork, NEW f \in File, OnlyModel(f), ReadyOrOnTheWay, [Next]_vars
  PROVE  ReadyOrOnTheWay'
<1> USE DEF pipeline, locals
<1>1. CASE UNCHANGED <<flags, pc, job, seen, fd, file>>
  BY <1>1 DEF ReadyOrOnTheWay, MakesReady, HasModel, NeedDownload
<1>2. ASSUME NEW resp \in Responses, HeartbeatResponse(resp) PROVE ReadyOrOnTheWay'
  <2>1. CASE StartsSetup(resp)
    <3>1. PICK t \in Task : SpawnSetup(t, resp)
      BY <1>2, <2>1 DEF HeartbeatResponse
    <3>2. pc'[t] = "hash"
      BY <3>1 DEF SpawnSetup, TypeOK
    <3> QED BY <3>2 DEF ReadyOrOnTheWay, MakesReady
  <2>2. CASE ~StartsSetup(resp)
    <3>1. UNCHANGED <<pc, job, seen, fd, file>> /\ flags' = Reset(resp)
      BY <1>2, <2>2 DEF HeartbeatResponse
    <3>2. /\ flags'.setup_started => flags.setup_started
          /\ flags'.ready_for_inference = flags.ready_for_inference
      BY <3>1 DEF Reset, TypeOK, Flags
    <3>3. \A t \in Task : MakesReady(t)' <=> MakesReady(t)
      BY <3>1 DEF MakesReady, HasModel, NeedDownload
    <3> QED BY <3>1, <3>2, <3>3 DEF ReadyOrOnTheWay
  <2> QED BY <2>1, <2>2
<1>3. ASSUME NEW t \in Task, TaskNext(t) PROVE ReadyOrOnTheWay'
  <2>1. /\ pc[t] # "idle" /\ pc' = [pc EXCEPT ![t] = pc'[t]] /\ pc'[t] # "idle"
        /\ flags.ready_for_inference => flags'.ready_for_inference
    BY <1>3, TaskMoves
  <2>2. CASE flags.ready_for_inference
    BY <2>1, <2>2 DEF ReadyOrOnTheWay
  <2>3. CASE ~flags.ready_for_inference
    <3>1. PICK u \in Task : MakesReady(u)
      BY <2>1, <2>3 DEF ReadyOrOnTheWay
    <3>2. CASE u = t
      BY <1>3, <2>1, <2>3, <3>1, <3>2, SetupGoesOn DEF ReadyOrOnTheWay
    <3>3. CASE u # t
      BY <1>3, <2>1, <3>1, <3>3, OthersPassOn DEF ReadyOrOnTheWay
    <3> QED BY <3>2, <3>3
  <2> QED BY <2>2, <2>3
<1>4. CASE UNCHANGED vars
  BY <1>1, <1>4 DEF vars
<1>5. CASE HubSends
  BY <1>1, <1>2, <1>5 DEF HubSends, ForwardAdopt, InferenceAccept, InferenceForward
<1>6. CASE HubContinues
  BY <1>1, <1>6 DEF HubContinues, ForwardReadFlags, ForwardReport, ForwardRelay, PostRefused,
                    PostAnswered, PostGarbled, InferencePass
<1>7. ASSUME NEW t \in Task, Bind(t) PROVE ReadyOrOnTheWay'
  BY <1>1, <1>7 DEF Bind
<1> QED BY <1>3, <1>4, <1>5, <1>6, <1>7 DEF Next

\* A worker whose hub stays with one model, and none of whose setups fails, is ready when
\* they have run out: any number of them, whatever file the process found, in any order of
\* removing, truncating, writing and reading the one they share.
THEOREM SettledWorkerIsReady ==
  ASSUME SetupsWork, NEW f \in File, StaysWith(f)
  PROVE  Spec => []SettledReady
<1>1. Init => OnlyModel(f) /\ ReadyOrOnTheWay
  BY DEF Init, OnlyModel, ReadyOrOnTheWay, LeftoverFile, NoFile
<1>2. TypeOK /\ OnlyModel(f) /\ ReadyOrOnTheWay /\ [Next]_vars
        => OnlyModel(f)' /\ ReadyOrOnTheWay'
  BY OneModelStep, OnTheWayStep
<1>3. ReadyOrOnTheWay => SettledReady
  BY DEF ReadyOrOnTheWay, SettledReady, Settled, MakesReady, Live
<1> QED BY <1>1, <1>2, <1>3, TypeCorrect, PTL DEF Spec

(* ------------------------- LayerService implemented ------------------- *)

LEMMA ServedIs ==
  ASSUME PortHeld, NEW t \in Task, Serving(t)
  PROVE  ServedRange = candle[t].layers
<1>1. PortBound /\ Serving(CHOOSE u \in Task : Serving(u)) /\ (CHOOSE u \in Task : Serving(u)) \in Task
  BY DEF PortBound
<1>2. (CHOOSE u \in Task : Serving(u)) = t
  BY <1>1 DEF PortHeld
<1> QED BY <1>1, <1>2 DEF ServedRange

\* the same after a step
LEMMA ServedIsNext ==
  ASSUME PortHeld', NEW t \in Task, Serving(t)'
  PROVE  ServedRange' = candle'[t].layers
<1>1. PortBound' /\ \A u \in Task : Serving(u)' => u = t
  BY DEF PortBound, PortHeld
<1>2. (CHOOSE u \in Task : Serving(u)') \in {u \in Task : Serving(u)'}
  OBVIOUS
<1>3. (CHOOSE u \in Task : Serving(u)') = t
  BY <1>1, <1>2
<1> QED BY <1>1, <1>3 DEF ServedRange

LEMMA ServedIsNot == ~PortBound => ServedRange = None
  BY DEF ServedRange

\* an unchanged set of servers: nothing is loaded or served that was not
LEMMA SameServers ==
  ASSUME UNCHANGED candle
  PROVE  UNCHANGED <<LoadedRanges, ServedRange>>
  BY DEF LoadedRanges, ServedRange, PortBound, Serving, Launched

\* one more server, not bound yet
LEMMA MoreServers ==
  ASSUME TypeOK, SetupInv, SetupInv', [Next]_vars, NEW t \in Task,
         ~Launched(t), candle'[t].state = "starting",
         \A u \in Task \ {t} : candle'[u] = candle[u]
  PROVE  LoadedRanges \subseteq LoadedRanges' /\ UNCHANGED ServedRange
<1>1. LoadedRanges \subseteq LoadedRanges'
  BY ServersStay DEF LoadedRanges, Launched, SetupInv
<1>2. \A u \in Task : Serving(u)' = Serving(u)
  BY DEF Serving, Launched
<1>3. CASE PortBound
  <2> PICK u \in Task : Serving(u)
    BY <1>3 DEF PortBound
  <2>1. ServedRange = candle[u].layers
    BY ServedIs DEF SetupInv
  <2>2. PortHeld' /\ Serving(u)'
    BY <1>2 DEF SetupInv
  <2>3. ServedRange' = candle'[u].layers
    BY <2>2, ServedIsNext
  <2>4. candle'[u] = candle[u]
    BY DEF Launched, Serving
  <2> QED BY <1>1, <2>1, <2>3, <2>4
<1>4. CASE ~PortBound
  BY <1>1, <1>2, <1>4 DEF PortBound, ServedRange
<1> QED BY <1>3, <1>4

\* whoever gets the port gets it for what it loaded
LEMMA BindServes ==
  ASSUME TypeOK, SetupInv, SetupInv', [Next]_vars, NEW t \in Task, Bind(t)
  PROVE  /\ UNCHANGED <<LoadedRanges, Claimed>>
         /\ \/ UNCHANGED ServedRange
            \/ ServedRange = None /\ ServedRange' \in LoadedRanges
<1>1. /\ Launched(t) /\ ~Serving(t)
      /\ candle'[t].layers = candle[t].layers
      /\ candle'[t].state \in {"serving", "dead", "shut_out"}
      /\ candle'[t].state = "dead" => PortBound
      /\ candle'[t].state # "dead" => ~PortBound
      /\ \A u \in Task \ {t} : candle'[u] = candle[u]
  BY BindOutcome
<1>2. \A u \in Task : Launched(u)' = Launched(u) /\ candle'[u].layers = candle[u].layers
  BY <1>1 DEF Launched
<1>3. UNCHANGED LoadedRanges
  BY <1>2 DEF LoadedRanges
<1>4. UNCHANGED Claimed
  BY DEF Bind, Claimed
<1>5. CASE PortBound
  <2> PICK u \in Task : Serving(u)
    BY <1>5 DEF PortBound
  <2>1. ServedRange = candle[u].layers
    BY ServedIs DEF SetupInv
  <2>2. u # t /\ Serving(u)'
    BY <1>1 DEF Serving
  <2>3. ServedRange' = candle'[u].layers
    BY <2>2, ServedIsNext DEF SetupInv
  <2> QED BY <1>2, <1>3, <1>4, <2>1, <2>3
<1>6. CASE ~PortBound /\ Serving(t)'
  <2>1. ServedRange' = candle[t].layers
    BY <1>1, <1>6, ServedIsNext DEF SetupInv
  <2>2. candle[t].layers \in LoadedRanges
    BY <1>1 DEF LoadedRanges
  <2> QED BY <1>3, <1>4, <1>6, <2>1, <2>2, ServedIsNot
<1>7. CASE ~PortBound /\ ~Serving(t)'
  <2>1. ~PortBound'
    BY <1>1, <1>7 DEF PortBound, Serving
  <2>2. ServedRange = None /\ ServedRange' = None
    BY <1>7, <2>1 DEF ServedRange
  <2> QED BY <1>3, <1>4, <2>2
<1> QED BY <1>5, <1>6, <1>7

\* messages are claims of loaded layers, or no claims
LEMMA MessageClaims ==
  ASSUME TypeOK, SetupInv, HubSends \/ HubContinues
  PROVE  \/ UNCHANGED Claimed
         \/ Claimed' \in LoadedRanges
         \/ Claimed' = None
<1>1. CASE ForwardReport
  <2>1. flags.loaded # None /\ sent'.kind = "Heartbeat" /\ sent'.layers = flags.loaded
    BY <1>1 DEF ForwardReport, Await, ReportedLayers, SetupInv, HandlerBacked
  <2>2. flags.loaded \in LoadedRanges
    BY <2>1 DEF SetupInv, FlagsBacked, LoadedRanges
  <2> QED BY <2>1, <2>2 DEF Claimed
<1>2. CASE sent' = sent
  BY <1>2 DEF Claimed
<1>3. CASE sent'.kind # "Heartbeat"
  BY <1>3 DEF Claimed
<1>4. ForwardReport \/ sent' = sent \/ sent'.kind # "Heartbeat"
  <2>1. CASE HubSends
    <3>1. ASSUME NEW resp \in Responses, HeartbeatResponse(resp) PROVE sent' = sent
      BY <3>1 DEF HeartbeatResponse
    <3>2. ASSUME NEW e \in Entries, ForwardAdopt(e) PROVE sent' = sent
      BY <3>2 DEF ForwardAdopt
    <3>3. InferenceAccept => sent' = sent \/ sent'.kind # "Heartbeat"
      BY DEF InferenceAccept
    <3>4. InferenceForward => sent' = sent \/ sent'.kind # "Heartbeat"
      BY DEF InferenceForward, SendToHop
    <3> QED BY <2>1, <3>1, <3>2, <3>3, <3>4 DEF HubSends
  <2>2. CASE HubContinues
    BY <2>2 DEF HubContinues, ForwardReadFlags, ForwardRelay, PostRefused, PostAnswered,
                PostGarbled, InferencePass, SendToHop
  <2> QED BY <2>1, <2>2
<1> QED BY <1>1, <1>2, <1>3, <1>4

\* The worker implements LayerService: what it claims it has loaded, and the range behind
\* its port is a loaded one and never changes.
THEOREM WorkerImplementsService == Spec => ImplementsService
<1>1. Init => Service!Init
  BY DEF Init, Service!Init, LoadedRanges, ServedRange, Claimed, PortBound, Serving, Launched
<1>2. TypeOK /\ SetupInv /\ SetupInv' /\ [Next]_vars => [Service!Next]_Service!svars
  <2> SUFFICES ASSUME TypeOK, SetupInv, SetupInv', [Next]_vars
               PROVE  [Service!Next]_Service!svars
    OBVIOUS
  <2> USE DEF Service!Next, Service!svars
  <2>1. CASE UNCHANGED vars
    <3>1. UNCHANGED <<candle, sent>>
      BY <2>1 DEF vars
    <3> QED BY <3>1, SameServers DEF Claimed
  <2>2. CASE HubSends \/ HubContinues
    <3>1. UNCHANGED candle
      BY <2>2 DEF HubSends, HeartbeatResponse, ForwardAdopt, InferenceAccept,
         InferenceForward, HubContinues, ForwardReadFlags, ForwardReport, ForwardRelay,
         PostRefused, PostAnswered, PostGarbled, InferencePass
    <3> QED BY <2>2, <3>1, SameServers, MessageClaims DEF Service!Claim, Service!Talk
  <2>3. ASSUME NEW t \in Task, TaskNext(t) PROVE [Service!Next]_Service!svars
    <3>1. UNCHANGED Claimed
      BY <2>3 DEF Claimed, TaskNext, HashFile, Decide, ReadReady, LoadCaptured,
         PublishCaptured, StopOld, RemoveFile, Get, CreateFile, CreateFails, WriteFile,
         CheckFile, LockState, StartLocked, PublishLocked
    <3>2. \/ UNCHANGED candle
          \/ \E r \in Range : pc[t] \in {"load", "start"} /\ StartCandle(t, r, TRUE)
      BY <2>3 DEF TaskNext, HashFile, Decide, ReadReady, LoadCaptured, PublishCaptured,
         StopOld, RemoveFile, Get, CreateFile, CreateFails, WriteFile, CheckFile, LockState,
         StartLocked, PublishLocked, StartCandle, Step, TypeOK, Job
    <3>3. CASE UNCHANGED candle
      BY <3>1, <3>3, SameServers
    <3>4. CASE \E r \in Range : pc[t] \in {"load", "start"} /\ StartCandle(t, r, TRUE)
      <4>1. LoadedRanges \subseteq LoadedRanges' /\ UNCHANGED ServedRange
        BY <3>4, StartStep, MoreServers
      <4> QED BY <3>1, <4>1 DEF Service!Load
    <3> QED BY <3>2, <3>3, <3>4
  <2>4. ASSUME NEW t \in Task, Bind(t) PROVE [Service!Next]_Service!svars
    BY <2>4, BindServes DEF Service!Serve
  <2> QED BY <2>1, <2>2, <2>3, <2>4 DEF Next
<1> QED BY <1>1, <1>2, TypeCorrect, SetupInvariant, PTL
        DEF Spec, ImplementsService, Service!Spec

(* ------------------------- RelayWorker implemented -------------------- *)

\* whatever the hub names, the worker has layers afterwards
LEMMA PlaceAssigned ==
  ASSUME TypeOK, HubAgrees, NEW resp \in Responses
  PROVE  NewPlace(resp).layers.num > 0
<1>1. resp \in Response /\ place \in Place
  BY DEF TypeOK
<1>2. resp.layers.num > 0
  BY DEF HubAgrees
<1>3. CASE resp.pipeline # None /\ resp.pipeline.own
  BY <1>2, <1>3 DEF NewPlace, HubAgrees
<1>4. CASE ~(resp.pipeline # None /\ resp.pipeline.own)
  BY <1>1, <1>2, <1>4 DEF NewPlace, Assigned, Place, Range
<1> QED BY <1>3, <1>4

LEMMA RelayInvStep ==
  ASSUME TypeOK, SetupInv, HubAgrees, RelayInv, [Next]_vars
  PROVE  RelayInv'
<1> USE DEF pipeline, locals
<1>1. CASE UNCHANGED <<place, flags, pc, hub>>
  BY <1>1 DEF RelayInv
<1>2. ASSUME NEW resp \in Responses, HeartbeatResponse(resp) PROVE RelayInv'
  <2>1. place'.layers.num # 0 /\ hub'.at = "recv"
    BY <1>2, PlaceAssigned DEF HeartbeatResponse, Idle, TypeOK, HubState
  <2>2. flags'.rpc_server_started => flags.rpc_server_started
    BY <1>2 DEF HeartbeatResponse, SpawnSetup, Reset, TypeOK, Flags
  <2>3. \A t \in Task : pc[t] # "idle" => pc'[t] # "idle"
    BY <1>2 DEF HeartbeatResponse, SpawnSetup, TypeOK
  <2> QED BY <2>1, <2>2, <2>3 DEF RelayInv
<1>3. ASSUME NEW e \in Entries, ForwardAdopt(e) PROVE RelayInv'
  <2>1. place'.layers.num # 0
    <3>1. e \in Place /\ e.layers.num > 0
      BY DEF HubAgrees
    <3> QED BY <1>3, <3>1 DEF ForwardAdopt, Place, Range
  <2>2. hub'.at = "flags" /\ UNCHANGED <<flags, pc>>
    BY <1>3 DEF ForwardAdopt
  <2> QED BY <2>1, <2>2 DEF RelayInv
<1>4. CASE InferenceAccept \/ InferenceForward
  <2>1. UNCHANGED <<place, flags, pc>> /\ hub'.at # "report"
    BY <1>4 DEF InferenceAccept, InferenceForward, Idle
  <2> QED BY <2>1 DEF RelayInv
<1>5. CASE HubContinues
  <2>1. UNCHANGED <<place, flags, pc>>
    BY <1>5 DEF HubContinues, ForwardReadFlags, ForwardReport, ForwardRelay, PostRefused,
                PostAnswered, PostGarbled, InferencePass
  <2>2. hub'.at = "report" => IsReady
    BY <1>5 DEF HubContinues, ForwardReadFlags, ForwardReport, ForwardRelay, PostRefused,
                PostAnswered, PostGarbled, InferencePass, Await, TypeOK, HubState
  <2> QED BY <2>1, <2>2 DEF RelayInv, IsReady, SetupInv, FlagsBacked
<1>6. ASSUME NEW t \in Task, TaskNext(t) PROVE RelayInv'
  <2>1. /\ UNCHANGED <<place, hub>>
        /\ pc[t] # "idle" /\ pc'[t] # "idle" /\ pc' = [pc EXCEPT ![t] = pc'[t]]
        /\ flags.rpc_server_started => flags'.rpc_server_started
    BY <1>6, TaskMoves
  <2>2. \A u \in Task : pc[u] # "idle" => pc'[u] # "idle"
    BY <2>1 DEF TypeOK
  <2> QED BY <2>1, <2>2 DEF RelayInv
<1>7. ASSUME NEW t \in Task, Bind(t) PROVE RelayInv'
  BY <1>1, <1>7 DEF Bind
<1>8. CASE UNCHANGED vars
  BY <1>1, <1>8 DEF vars
<1> QED BY <1>2, <1>3, <1>4, <1>5, <1>6, <1>7, <1>8 DEF Next, HubSends

\* an assignment: the flags go down exactly with other layers
LEMMA ResponseAssigns ==
  ASSUME TypeOK, SetupInv, HubAgrees, RelayInv, NEW resp \in Responses, HeartbeatResponse(resp)
  PROVE  Relay!Assign
<1>1. resp \in Response /\ place \in Place /\ flags \in Flags
  BY DEF TypeOK
<1>2. /\ place' = NewPlace(resp) /\ UNCHANGED <<hub, sent>> /\ hub.at = "recv"
      /\ flags'.rpc_server_started = Reset(resp).rpc_server_started
  BY <1>1 DEF HeartbeatResponse, SpawnSetup, Reset, Idle, Flags
<1>3. place'.layers # NoLayers
  BY <1>2, PlaceAssigned DEF NoLayers
<1>4. CASE resp.reassign
  <2>1. place'.layers = resp.layers
    BY <1>1, <1>2, <1>4 DEF NewPlace, Assigned, HubAgrees, Place
  <2>2. flags'.rpc_server_started = (flags.rpc_server_started /\ place'.layers = place.layers)
    BY <1>1, <1>2, <1>4, <2>1 DEF Reset, LayersChanged, Flags
  <2> QED BY <1>2, <1>3, <2>2 DEF Relay!Assign, UnderWay
<1>5. CASE ~resp.reassign
  <2>1. place' = Assigned(resp)
    BY <1>2, <1>5 DEF NewPlace, HubAgrees
  <2>2. flags'.rpc_server_started = flags.rpc_server_started
    BY <1>2, <1>5 DEF Reset, LayersChanged
  <2>3. place.layers.num = 0 => ~flags.rpc_server_started
    BY DEF RelayInv
  <2>4. flags'.rpc_server_started = (flags.rpc_server_started /\ place'.layers = place.layers)
    <3>1. CASE place.layers.num = 0
      <4>1. flags.rpc_server_started = FALSE
        BY <1>1, <2>3, <3>1 DEF Flags
      <4> QED BY <2>2, <4>1
    <3>2. CASE place.layers.num # 0
      <4>1. place' = place
        BY <1>5, <2>1, <3>2 DEF Assigned
      <4> QED BY <1>1, <2>2, <4>1 DEF Flags
    <3> QED BY <3>1, <3>2
  <2> QED BY <1>2, <1>3, <2>4 DEF Relay!Assign, UnderWay
<1> QED BY <1>4, <1>5

LEMMA RelayStep ==
  ASSUME TypeOK, SetupInv, HubAgrees, RelayInv, [Next]_vars
  PROVE  [Relay!Next]_Relay!rvars
<1> USE DEF pipeline, locals, Relay!Next, Relay!rvars, Relay!Moves, Relay!Sends
<1>1. CASE UNCHANGED <<place, flags, hub, sent>>
  BY <1>1 DEF UnderWay
<1>2. ASSUME NEW resp \in Responses, HeartbeatResponse(resp) PROVE Relay!Next
  BY <1>2, ResponseAssigns
<1>3. ASSUME NEW e \in Entries, ForwardAdopt(e) PROVE Relay!Next
  <2>1. e \in Place /\ e.layers.num > 0
    BY DEF HubAgrees
  <2>2. /\ place'.layers = e.layers /\ place'.next_hop = e.next_hop
        /\ hub.at = "recv" /\ hub'.at = "flags" /\ hub'.next_hop = e.next_hop
        /\ UNCHANGED <<flags, sent>>
    BY <1>3, <2>1 DEF ForwardAdopt, Idle, Place
  <2>3. place'.layers # NoLayers
    BY <2>1, <2>2 DEF NoLayers
  <2> QED BY <2>2, <2>3 DEF Relay!Adopt, UnderWay
<1>4. CASE InferenceAccept
  BY <1>4 DEF InferenceAccept, Idle, Relay!Admit, Relay!TurnAway, UnderWay
<1>5. CASE InferenceForward
  BY <1>5 DEF InferenceForward, SendToHop, Idle, Relay!PassOn, UnderWay
<1>6. CASE HubContinues
  <2>1. ASSUME NEW from, NEW to, Await(from, to)
        PROVE  hub.at = from /\ hub'.at = to /\ hub'.next_hop = hub.next_hop
    BY <2>1 DEF Await, TypeOK, HubState
  <2>2. CASE ForwardReadFlags
    BY <2>1, <2>2 DEF ForwardReadFlags, Relay!Beat, UnderWay
  <2>3. CASE ForwardReport
    <3>1. flags.rpc_server_started
      BY <2>1, <2>3 DEF ForwardReport, RelayInv
    <3> QED BY <2>1, <2>3, <3>1 DEF ForwardReport, Relay!Beat, UnderWay
  <2>4. CASE ForwardRelay
    BY <2>1, <2>4 DEF ForwardRelay, SendToHop, Relay!Relay, UnderWay
  <2>5. CASE PostRefused
    BY <2>1, <2>5 DEF PostRefused, Relay!Posted, UnderWay
  <2>6. CASE PostAnswered
    BY <2>1, <2>6 DEF PostAnswered, Relay!Posted, UnderWay
  <2>7. CASE PostGarbled
    BY <2>1, <2>7 DEF PostGarbled, Relay!Posted, UnderWay
  <2>8. CASE InferencePass
    BY <2>1, <2>8 DEF InferencePass, SendToHop, Relay!Posted, UnderWay
  <2> QED BY <1>6, <2>2, <2>3, <2>4, <2>5, <2>6, <2>7, <2>8 DEF HubContinues
<1>7. ASSUME NEW t \in Task, TaskNext(t) PROVE [Relay!Next]_Relay!rvars
  <2>1. /\ UNCHANGED <<place, hub, sent>> /\ pc[t] # "idle"
        /\ \/ flags'.rpc_server_started = flags.rpc_server_started
           \/ flags'.rpc_server_started = TRUE
    BY <1>7, TaskMoves
  <2>2. place.layers # NoLayers
    BY <2>1 DEF RelayInv, NoLayers
  <2> QED BY <2>1, <2>2 DEF Relay!SetupEnds, UnderWay
<1>8. ASSUME NEW t \in Task, Bind(t) PROVE [Relay!Next]_Relay!rvars
  BY <1>1, <1>8 DEF Bind
<1>9. CASE UNCHANGED vars
  BY <1>1, <1>9 DEF vars
<1> QED BY <1>2, <1>3, <1>4, <1>5, <1>6, <1>7, <1>8, <1>9 DEF Next, HubSends

\* A worker whose hub sends assignments that agree with themselves is the worker Pipeline
\* is made of: what happens between its critical sections cannot be told from outside.
THEOREM WorkerImplementsRelay == ASSUME HubAgrees PROVE Spec => ImplementsRelay
<1>1. Init => RelayInv /\ Relay!Init
  BY DEF Init, RelayInv, Relay!Init, UnderWay
<1>2. TypeOK /\ SetupInv /\ RelayInv /\ [Next]_vars => RelayInv'
  BY RelayInvStep
<1>3. TypeOK /\ SetupInv /\ RelayInv /\ [Next]_vars => [Relay!Next]_Relay!rvars
  BY RelayStep
<1> QED BY <1>1, <1>2, <1>3, TypeCorrect, SetupInvariant, PTL
        DEF Spec, ImplementsRelay, Relay!Spec
============================================================================

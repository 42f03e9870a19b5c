------------------------------ MODULE Pipeline ------------------------------
(* Several workers and the hub: how requests, hidden states and heartbeats   *)
(* travel along a pipeline (inbound.rs, and the relaying handlers of         *)
(* hub_worker.rs), while the hub assigns the workers to other pipelines.     *)
(* HubWorker.tla has the inside of one worker; here its setup is a flag,     *)
(* as RelayWorker, which HubWorker implements, has it.                       *)
EXTENDS Naturals, Sequences

CONSTANTS
  Worker,    \* akai-agent processes
  Plan,      \* pipelines the hub may assign: workers in the order of their layers
  Request,   \* inference requests, each sent once
  Lap,       \* circulating heartbeats, each sent once
  MaxAssign, \* bound on the assignments of a run
  Faults,    \* what may fail, see FaultKind
  None

\* hop: a connection to a neighbour fails; post: the local Candle server fails;
\* rpc: the server behind the RPC client fails; hub: a connection to the hub fails;
\* cut: the one read of an inbound message does not get all of it
FaultKind == {"hop", "post", "rpc", "hub", "cut"}

Members(p) == {p[i] : i \in 1..Len(p)}

ASSUME PlanAssumption ==
  /\ Plan \subseteq Seq(Worker) \ {<<>>}
  /\ \A p \in Plan : \A i, j \in 1..Len(p) : p[i] = p[j] => i = j

ASSUME BoundAssumption == MaxAssign \in Nat /\ Faults \subseteq FaultKind

ASSUME NoneAssumption == None \notin Worker

VARIABLES
  plan,     \* hub: the pipeline assigned last, <<>> before the first
  assigned, \* hub: how many assignments it made
  asked,    \* asked[r]: the pipeline when r was sent, <<>> before
  answers,  \* answers[r]: what came back for r
  line,     \* line[w]: what the hub sent to w and the loop of w has not read
  place,    \* place[w]: PipelineState of w, as far as relaying goes
  ready,    \* ready[w]: rpc_server_started of w
  loop,     \* loop[w]: the request w has posted to its own server, and its next hop
  net,      \* messages between workers, each on a connection of its own
  tasks,    \* handle_inbound_connection under way
  trail,    \* history: workers that ran their layers for r, in order
  disturbed, \* history: requests the hub assigned anew around, or sent before the
            \* workers had learnt of its last assignment
  laps      \* history: laps[l], the pipeline it carries, who saw it, whose
            \* heartbeats it caused

hub == <<plan, assigned, asked, answers>>
worker == <<place, ready, loop>>
history == <<trail, disturbed, laps>>
vars == <<hub, line, worker, net, tasks, history>>
----------------------------------------------------------------------------
\* a share of the layers: the i-th of n
Share == [part : Nat, of : Nat]
Place == [layers : Share, next : Worker \cup {None}, is_last : BOOLEAN]
NoPlace == [layers |-> [part |-> 0, of |-> 0], next |-> None, is_last |-> TRUE]

Posting == [id : Request, next : Worker \cup {None}]
HubLine == [kind : {"assign"}, plan : Plan] \cup [kind : {"request"}, id : Request]
           \cup [kind : {"lap"}, id : Lap]
Hop == [kind : {"forward"}, to : Worker, id : Request] \cup [kind : {"lap"}, to : Worker, id : Lap]
Task == [at : {"forward", "generate"}, worker : Worker, id : Request]
Answer == [kind : {"text", "NOT_READY", "HTTP_ERROR"}, from : Worker]

TypeOK ==
  /\ plan \in Plan \cup {<<>>}
  /\ assigned \in 0..MaxAssign
  /\ asked \in [Request -> Plan \cup {<<>>}]
  /\ answers \in [Request -> Seq(Answer)]
  /\ line \in [Worker -> Seq(HubLine)]
  /\ place \in [Worker -> Place]
  /\ ready \in [Worker -> BOOLEAN]
  /\ loop \in [Worker -> Posting \cup {None}]
  /\ net \subseteq Hop
  /\ tasks \subseteq Task
  /\ trail \in [Request -> Seq(Worker)]
  /\ disturbed \subseteq Request
  /\ laps \in [Lap -> [plan : Plan \cup {<<>>}, seen : SUBSET Worker, beats : SUBSET Worker]]
  /\ \A w \in Worker : place[w].is_last <=> place[w].next = None

Init ==
  /\ plan = <<>> /\ assigned = 0
  /\ asked = [r \in Request |-> <<>>]
  /\ answers = [r \in Request |-> <<>>]
  /\ line = [w \in Worker |-> <<>>]
  /\ place = [w \in Worker |-> NoPlace]
  /\ ready = [w \in Worker |-> FALSE]
  /\ loop = [w \in Worker |-> None]
  /\ net = {} /\ tasks = {}
  /\ trail = [r \in Request |-> <<>>] /\ disturbed = {}
  /\ laps = [l \in Lap |-> [plan |-> <<>>, seen |-> {}, beats |-> {}]]
----------------------------------------------------------------------------
\* the places a request can be in: the i-th message to w, posted by w, sent to
\* a neighbour, handled by an inbound task
Queued(r, w, i) == i \in 1..Len(line[w]) /\ line[w][i] = [kind |-> "request", id |-> r]
Posted(r, w) == loop[w] # None /\ loop[w].id = r
Sent(r, m) == m.kind = "forward" /\ m.id = r
Handled(r, t) == t.id = r

InLine(r) == \E w \in Worker : \E i \in 1..Len(line[w]) : Queued(r, w, i)
InLoop(r) == \E w \in Worker : Posted(r, w)
InNet(r) == \E m \in net : Sent(r, m)
InTask(r) == \E t \in tasks : Handled(r, t)

UnderWay(r) == InLine(r) \/ InLoop(r) \/ InNet(r) \/ InTask(r)

\* no worker has yet to learn of an assignment
Settled == \A w \in Worker : \A i \in 1..Len(line[w]) : line[w][i].kind # "assign"

\* the entry of w in a pipeline
Index(p, w) == CHOOSE i \in 1..Len(p) : p[i] = w
NextIn(p, w) == IF Index(p, w) < Len(p) THEN p[Index(p, w) + 1] ELSE None
Entry(p, w) == [layers |-> [part |-> Index(p, w), of |-> Len(p)],
                next |-> NextIn(p, w), is_last |-> Index(p, w) = Len(p)]
----------------------------------------------------------------------------
(* The hub, as the workers see it.                                          *)

\* the members of a pipeline learn of it one by one, the others never
HubAssigns(p) ==
  /\ assigned < MaxAssign
  /\ plan' = p
  /\ assigned' = assigned + 1
  /\ line' = [w \in Worker |-> IF w \in Members(p)
                               THEN Append(line[w], [kind |-> "assign", plan |-> p])
                               ELSE line[w]]
  /\ disturbed' = disturbed \cup {r \in Request : UnderWay(r)}
  /\ UNCHANGED <<asked, answers, worker, net, tasks, trail, laps>>

\* to the first worker
SendFirst(msg) == line' = [line EXCEPT ![plan[1]] = Append(@, msg)]

HubRequests(r) ==
  /\ plan # <<>> /\ asked[r] = <<>>
  /\ disturbed' = IF Settled THEN disturbed ELSE disturbed \cup {r}
  /\ asked' = [asked EXCEPT ![r] = plan]
  /\ SendFirst([kind |-> "request", id |-> r])
  /\ UNCHANGED <<plan, assigned, answers, worker, net, tasks, trail, laps>>

HubLaps(l) ==
  /\ plan # <<>> /\ laps[l].plan = <<>>
  /\ laps' = [laps EXCEPT ![l].plan = plan]
  /\ SendFirst([kind |-> "lap", id |-> l])
  /\ UNCHANGED <<hub, worker, net, tasks, trail, disturbed>>
----------------------------------------------------------------------------
(* The hub loop of a worker.                                                *)

\* the next message, taken when the handler of the last one has returned
Takes(w, kind) ==
  /\ loop[w] = None
  /\ line[w] # <<>> /\ Head(line[w]).kind = kind
  /\ line' = [line EXCEPT ![w] = Tail(@)]

\* mutant: a hop is only ever replaced by another one
KeepsHop(w, e) ==
  place' = [place EXCEPT ![w].layers = e.layers,
                         ![w].next = IF e.next = None THEN @ ELSE e.next,
                         ![w].is_last = @ /\ e.is_last]

\* mutant: the position is not updated with the hop
KeepsPosition(w, e) == place' = [place EXCEPT ![w].layers = e.layers, ![w].next = e.next]

Adopts(w, e) == place' = [place EXCEPT ![w] = e]

\* HeartbeatResponse with a pipeline.  Other layers ask for a new setup
TakeAssign(w) ==
  /\ Takes(w, "assign")
  /\ LET e == Entry(Head(line[w]).plan, w)
     IN  /\ Adopts(w, e)
         /\ ready' = [ready EXCEPT ![w] = ready[w] /\ e.layers = place[w].layers]
  /\ UNCHANGED <<hub, loop, net, tasks, history>>

\* some setup task of w gets as far as to start the server, see HubWorker
SetupEnds(w) ==
  /\ ~ready[w] /\ place[w].layers.part > 0
  /\ ready' = [ready EXCEPT ![w] = TRUE]
  /\ UNCHANGED <<hub, line, place, loop, net, tasks, history>>

\* an answer reaches the hub, or the connection fails, which is not even logged
Answers(r, kind, w) ==
  \/ answers' = [answers EXCEPT ![r] = Append(@, [kind |-> kind, from |-> w])]
  \/ "hub" \in Faults /\ UNCHANGED answers

\* the message is written to a connection of its own, or that fails and it is lost
Connects(msg) == net' = net \cup {msg}
Lost(fault) == fault \in Faults /\ UNCHANGED net

\* mutant: the hub is told, and the handler goes on
GoesOn(w, r) ==
  /\ IF ready[w] THEN UNCHANGED answers ELSE Answers(r, "NOT_READY", w)
  /\ loop' = [loop EXCEPT ![w] = [id |-> r, next |-> place[w].next]]

\* turned away, or posted to the own Candle server; the hop is read now
Admits(w, r) ==
  \/ ~ready[w] /\ Answers(r, "NOT_READY", w) /\ UNCHANGED loop
  \/ /\ ready[w]
     /\ loop' = [loop EXCEPT ![w] = [id |-> r, next |-> place[w].next]]
     /\ UNCHANGED answers

TakeRequest(w) ==
  /\ Takes(w, "request")
  /\ Admits(w, Head(line[w]).id)
  /\ UNCHANGED <<plan, assigned, asked, place, ready, net, tasks, history>>

\* history: w ran its layers; a trail longer than the pipeline of r is not continued
Ran(r, w) ==
  trail' = [trail EXCEPT ![r] = IF Len(@) > Len(asked[r]) THEN @ ELSE Append(@, w)]

\* without a next hop the text goes to the hub, else the hidden states to the hop
PostAnswered(w) ==
  /\ loop[w] # None
  /\ loop' = [loop EXCEPT ![w] = None]
  /\ Ran(loop[w].id, w)
  /\ \/ loop[w].next = None /\ Answers(loop[w].id, "text", w) /\ UNCHANGED net
     \/ /\ loop[w].next # None
        /\ \/ Connects([kind |-> "forward", to |-> loop[w].next, id |-> loop[w].id])
           \/ Lost("hop")
        /\ UNCHANGED answers
  /\ UNCHANGED <<plan, assigned, asked, line, place, ready, tasks, disturbed, laps>>

\* the server refuses, which a worker without a next hop tells the hub, or answers
\* with no JSON, which is dropped
PostFails(w) ==
  /\ "post" \in Faults
  /\ loop[w] # None
  /\ loop' = [loop EXCEPT ![w] = None]
  /\ \/ loop[w].next = None /\ Answers(loop[w].id, "HTTP_ERROR", w)
     \/ UNCHANGED answers
  /\ UNCHANGED <<plan, assigned, asked, line, place, ready, net, tasks, history>>

\* mutant: relayed to the hop of PipelineState
RelaysByState(w, l) == place[w].next

\* the hop named in the message, whatever w itself is assigned to
LapHop(w, l) == NextIn(laps[l].plan, w)

Relays(w, l) ==
  IF LapHop(w, l) = None THEN UNCHANGED net
  ELSE Connects([kind |-> "lap", to |-> LapHop(w, l), id |-> l]) \/ Lost("hop")

AtEnd(w, p) == p[1] = w \/ p[Len(p)] = w

\* w has handled the heartbeat, and its own Heartbeat reached the hub
Seen(w, l) == laps' = [laps EXCEPT ![l].seen = @ \cup {w}]
Beats(w, l) == laps' = [laps EXCEPT ![l].seen = @ \cup {w}, ![l].beats = @ \cup {w}]

\* HeartbeatForward from the hub: adopted, answered by a ready worker at an end of
\* the pipeline unless a setup that downloads has llama_server_started down, and
\* passed on
TakeLap(w) ==
  /\ Takes(w, "lap")
  /\ LET l == Head(line[w]).id
         p == laps[l].plan
     IN  /\ Adopts(w, Entry(p, w))
         /\ \/ ready[w] /\ AtEnd(w, p) /\ Beats(w, l)
            \/ Seen(w, l)
         /\ Relays(w, l)
  /\ UNCHANGED <<hub, ready, loop, tasks, trail, disturbed>>
----------------------------------------------------------------------------
(* handle_inbound_connection: a task for every message of a neighbour.      *)

\* InferenceForward: the local server is asked to run the layers
Receive(m) ==
  /\ m \in net /\ m.kind = "forward"
  /\ net' = net \ {m}
  /\ tasks' = tasks \cup {[at |-> "forward", worker |-> m.to, id |-> m.id]}
  /\ UNCHANGED <<hub, line, worker, history>>

\* place is read when the layers have run: the last worker goes on to generate, the
\* others forward; one that is neither drops the request
Forwarded(t) ==
  LET here == place[t.worker]
  IN  /\ t \in tasks /\ t.at = "forward"
      /\ Ran(t.id, t.worker)
      /\ tasks' = (tasks \ {t}) \cup (IF here.is_last THEN {[t EXCEPT !.at = "generate"]} ELSE {})
      /\ IF here.is_last \/ here.next = None THEN UNCHANGED net
         ELSE Connects([kind |-> "forward", to |-> here.next, id |-> t.id]) \/ Lost("hop")
      /\ UNCHANGED <<hub, line, worker, disturbed, laps>>

\* the text goes to the hub over a connection of its own
Generated(t) ==
  /\ t \in tasks /\ t.at = "generate"
  /\ tasks' = tasks \ {t}
  /\ Answers(t.id, "text", t.worker)
  /\ UNCHANGED <<plan, assigned, asked, line, worker, net, history>>

\* a failure of the server ends the task without a word to the hub
RpcFails(t) ==
  /\ "rpc" \in Faults
  /\ t \in tasks
  /\ tasks' = tasks \ {t}
  /\ UNCHANGED <<hub, line, worker, net, history>>

\* HeartbeatForward: nothing is adopted, and a worker at an end says it is active
\* without a look at its setup
ReceiveLap(m) ==
  /\ m \in net /\ m.kind = "lap"
  /\ LET w == m.to
         p == laps[m.id].plan
     IN  /\ \/ AtEnd(w, p) /\ Beats(w, m.id)
            \/ (AtEnd(w, p) => "hub" \in Faults) /\ Seen(w, m.id)
         /\ \/ /\ LapHop(w, m.id) = None \/ "hop" \in Faults
               /\ net' = net \ {m}
            \/ /\ LapHop(w, m.id) # None
               /\ net' = (net \ {m}) \cup {[m EXCEPT !.to = LapHop(w, m.id)]}
  /\ UNCHANGED <<hub, line, worker, tasks, trail, disturbed>>
----------------------------------------------------------------------------
\* one read of 64 KiB is taken for the message: of a part nothing is made, and nobody
\* is told
CutOff(m) ==
  /\ "cut" \in Faults
  /\ m \in net /\ net' = net \ {m}
  /\ UNCHANGED <<hub, line, worker, tasks, history>>

LoopNext(w) ==
  \/ TakeAssign(w) \/ TakeRequest(w) \/ TakeLap(w)
  \/ PostAnswered(w) \/ PostFails(w)

TaskNext(t) == Forwarded(t) \/ Generated(t) \/ RpcFails(t)

Next ==
  \/ \E p \in Plan : HubAssigns(p)
  \/ \E r \in Request : HubRequests(r)
  \/ \E l \in Lap : HubLaps(l)
  \/ \E w \in Worker : LoopNext(w) \/ SetupEnds(w)
  \/ \E m \in net : Receive(m) \/ ReceiveLap(m) \/ CutOff(m)
  \/ \E t \in tasks : TaskNext(t)

Spec == Init /\ [][Next]_vars

\* the runtime of each worker polls its loop and its tasks and accepts connections;
\* the hub owes nothing, and setups may never end
Fairness ==
  /\ \A w \in Worker : WF_vars(LoopNext(w))
  /\ \A m \in Hop : WF_vars(Receive(m) \/ ReceiveLap(m))
  /\ \A t \in Task : WF_vars(TaskNext(t))

FairSpec == Spec /\ Fairness
----------------------------------------------------------------------------
\* However assignments, losses and relays interleave, a request exists in one place:
\* it gets one answer at most, and with the answer nothing of it is left that could
\* still run layers or answer again.
AnsweredOnce ==
  \A r \in Request : /\ Len(answers[r]) <= 1
                      /\ answers[r] # <<>> => ~UnderWay(r)

Texted(r) == \E i \in 1..Len(answers[r]) : answers[r][i].kind = "text"

\* A request that the hub did not assign anew around passed, when its text comes back,
\* all workers of the pipeline it was sent to, each once and in the order of their
\* layers, although every relay looks its hop up in its own PipelineState when the
\* layers have run, and workers left out of a pipeline keep their old hops.
FullPass ==
  \A r \in Request \ disturbed : Texted(r) => trail[r] = asked[r]

\* A heartbeat of the last worker of a pipeline of several says that the heartbeat
\* went through every worker in between, reassigned meanwhile or not: the hub may
\* take it for the whole chain being up.
LapProvesChain ==
  \A l \in Lap : LET p == laps[l].plan
                  IN  p # <<>> /\ p[Len(p)] \in laps[l].beats => laps[l].seen = Members(p)

\* No request goes round in circles: even when workers of old and new pipelines relay
\* to one another, every request leaves the workers, answered or lost.
RequestsEnd == \A r \in Request : asked[r] # <<>> ~> ~UnderWay(r)
----------------------------------------------------------------------------
(* The inductive invariant behind AnsweredOnce and LapProvesChain.           *)

\* a request is once in each place at most, and in one place only
OneEach(r) ==
  /\ \A w, v \in Worker : \A i \in 1..Len(line[w]), j \in 1..Len(line[v]) :
       Queued(r, w, i) /\ Queued(r, v, j) => w = v /\ i = j
  /\ \A w, v \in Worker : Posted(r, w) /\ Posted(r, v) => w = v
  /\ \A m, n \in net : Sent(r, m) /\ Sent(r, n) => m = n
  /\ \A t, u \in tasks : Handled(r, t) /\ Handled(r, u) => t = u

OnePlace(r) ==
  /\ InLine(r) => ~InLoop(r) /\ ~InNet(r) /\ ~InTask(r)
  /\ InLoop(r) => ~InNet(r) /\ ~InTask(r)
  /\ InNet(r) => ~InTask(r)

Answered(r) == /\ Len(answers[r]) <= 1
               /\ answers[r] # <<>> => ~UnderWay(r)

\* before it is sent it is nowhere
Unasked(r) == asked[r] = <<>> => ~UnderWay(r) /\ answers[r] = <<>>

CopyInv == \A r \in Request : OneEach(r) /\ OnePlace(r) /\ Answered(r) /\ Unasked(r)

\* what the hub sends goes to members of the pipeline it is about
LineInv ==
  \A w \in Worker : \A i \in 1..Len(line[w]) :
    LET msg == line[w][i]
    IN  /\ msg.kind = "assign" => w \in Members(msg.plan)
        /\ msg.kind = "lap" => laps[msg.id].plan # <<>> /\ w = laps[msg.id].plan[1]

\* where a heartbeat is, it has been at all workers before
LapInv ==
  /\ \A m \in net : m.kind = "lap" =>
       LET p == laps[m.id].plan
       IN  \E k \in 1..Len(p) : m.to = p[k] /\ \A i \in 1..(k - 1) : p[i] \in laps[m.id].seen
  /\ \A l \in Lap : /\ laps[l].seen \subseteq Members(laps[l].plan)
                    /\ laps[l].plan = <<>> => laps[l].beats = {}
  /\ LapProvesChain

RouteInv == LineInv /\ LapInv
----------------------------------------------------------------------------
(* The inductive invariant behind FullPass.                                  *)

\* the place of a member in the pipeline assigned last is its place by now, or will be:
\* in its line there is an assignment after which nothing sends it elsewhere
OfPlan(msg) == /\ msg.kind = "assign" => msg.plan = plan
               /\ msg.kind = "lap" => laps[msg.id].plan = plan

Follows(w, i) ==
  /\ IF i = 0 THEN place[w] = Entry(plan, w) ELSE line[w][i].kind = "assign"
  /\ \A j \in 1..Len(line[w]) : i <= j => OfPlan(line[w][j])

PlaceInv == \A w \in Members(plan) : \E i \in 0..Len(line[w]) : Follows(w, i)

\* r has been at the first k workers of its pipeline
Passed(r, k) == Len(trail[r]) = k /\ \A i \in 1..k : trail[r][i] = asked[r][i]

\* wherever r is, it is at the worker that is next
OnWay(r) ==
  /\ \A w \in Worker : \A i \in 1..Len(line[w]) : Queued(r, w, i) => w = plan[1] /\ Passed(r, 0)
  /\ \A w \in Worker : Posted(r, w) => /\ w = plan[1] /\ Passed(r, 0)
                                       /\ loop[w].next = NextIn(plan, w)
  /\ \A m \in net : Sent(r, m) => \E k \in 1..Len(plan) : m.to = plan[k] /\ Passed(r, k - 1)
  /\ \A t \in tasks : Handled(r, t) =>
       IF t.at = "forward" THEN \E k \in 1..Len(plan) : t.worker = plan[k] /\ Passed(r, k - 1)
       ELSE Passed(r, Len(plan))

PassOf(r) ==
  /\ asked[r] = <<>> => trail[r] = <<>>
  /\ Texted(r) => trail[r] = asked[r]
  /\ UnderWay(r) => asked[r] = plan /\ Settled
  /\ OnWay(r)

PassInv == \A r \in Request \ disturbed : PassOf(r)
============================================================================

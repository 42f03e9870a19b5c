--------------------------- MODULE PipelineProofs ---------------------------
(* Theorems about Pipeline: type correctness, that a heartbeat of the last   *)
(* worker proves the chain, and that a request is answered once at most, for *)
(* any number of workers, pipelines, requests, heartbeats and assignments    *)
(* and whatever fails.                                                       *)
EXTENDS Pipeline, TLAPS

USE PlanAssumption, BoundAssumption, NoneAssumption

\* a member of a pipeline has one place in it
LEMMA IndexFacts ==
  ASSUME NEW p \in Plan, NEW w \in Members(p)
  PROVE  /\ p \in Seq(Worker) /\ p # <<>> /\ Len(p) \in Nat \ {0}
         /\ w \in Worker
         /\ Index(p, w) \in 1 .. Len(p) /\ p[Index(p, w)] = w
         /\ \A k \in 1 .. Len(p) : p[k] = w => k = Index(p, w)
<1>1. p \in Seq(Worker) /\ p # <<>> /\ Len(p) \in Nat \ {0}
  OBVIOUS
<1>2. PICK i \in 1 .. Len(p) : p[i] = w BY DEF Members
<1>3. Index(p, w) \in 1 .. Len(p) /\ p[Index(p, w)] = w
  BY <1>2 DEF Index
<1>4. \A k \in 1 .. Len(p) : p[k] = w => k = Index(p, w)
  BY <1>3
<1> QED BY <1>1, <1>2, <1>3, <1>4

\* so its entry is well formed
LEMMA EntryFacts ==
  ASSUME NEW p \in Plan, NEW w \in Members(p)
  PROVE  /\ Entry(p, w) \in Place
         /\ Entry(p, w).is_last <=> Entry(p, w).next = None
         /\ NextIn(p, w) \in Worker \cup {None}
         /\ NextIn(p, w) # None => /\ Index(p, w) + 1 \in 1 .. Len(p)
                                   /\ NextIn(p, w) = p[Index(p, w) + 1]
<1>1. /\ p \in Seq(Worker) /\ Len(p) \in Nat \ {0} /\ Index(p, w) \in 1 .. Len(p)
  BY IndexFacts
<1>0. /\ NextIn(p, w) \in Worker \cup {None} => Entry(p, w) \in Place
      /\ Entry(p, w).is_last <=> Index(p, w) = Len(p)
      /\ Entry(p, w).next = NextIn(p, w)
  <2>1. [part |-> Index(p, w), of |-> Len(p)] \in Share
    BY <1>1 DEF Share
  <2>2. (Index(p, w) = Len(p)) \in BOOLEAN
    OBVIOUS
  <2>3. NextIn(p, w) \in Worker \cup {None} => Entry(p, w) \in Place
    BY <2>1, <2>2, Zenon DEF Entry, Place
  <2>4. Entry(p, w).is_last <=> Index(p, w) = Len(p)
    BY DEF Entry
  <2>5. Entry(p, w).next = NextIn(p, w)
    BY DEF Entry
  <2> QED BY <2>3, <2>4, <2>5
<1>2. CASE Index(p, w) < Len(p)
  <2>1. Index(p, w) + 1 \in 1 .. Len(p) /\ NextIn(p, w) = p[Index(p, w) + 1]
    BY <1>1, <1>2 DEF NextIn
  <2>2. NextIn(p, w) \in Worker /\ NextIn(p, w) # None
    BY <1>1, <2>1
  <2>3. Index(p, w) # Len(p) BY <1>1, <1>2
  <2>4. QED BY <1>1, <1>0, <2>1, <2>2, <2>3
<1>3. CASE Index(p, w) = Len(p)
  <2>1. NextIn(p, w) = None BY <1>1, <1>3 DEF NextIn
  <2> QED BY <1>0, <1>3, <2>1
<1> QED BY <1>1, <1>2, <1>3

\* a pipeline has a first and a last member
LEMMA EndFacts ==
  ASSUME NEW p \in Plan
  PROVE  /\ p \in Seq(Worker) /\ p # <<>> /\ Len(p) \in Nat \ {0}
         /\ 1 \in 1 .. Len(p) /\ Len(p) \in 1 .. Len(p)
         /\ p[1] \in Members(p) /\ p[Len(p)] \in Members(p)
         /\ Members(p) \subseteq Worker
<1>1. p \in Seq(Worker) /\ p # <<>> /\ Len(p) \in Nat \ {0}
  OBVIOUS
<1> QED BY <1>1 DEF Members

\* taking a message leaves the ones behind it
LEMMA TakesFacts ==
  ASSUME TypeOK, NEW w \in Worker, NEW kind, Takes(w, kind)
  PROVE  /\ line[w] \in Seq(HubLine) /\ 1 \in 1 .. Len(line[w])
         /\ Head(line[w]) = line[w][1] /\ Head(line[w]) \in HubLine
         /\ Head(line[w]).kind = kind
         /\ line' \in [Worker -> Seq(HubLine)]
         /\ \A v \in Worker : v # w => line'[v] = line[v]
         /\ Len(line'[w]) = Len(line[w]) - 1
         /\ \A i \in 1 .. Len(line'[w]) : i + 1 \in 1 .. Len(line[w]) /\ line'[w][i] = line[w][i + 1]
<1>1. line[w] \in Seq(HubLine) /\ line[w] # <<>>
  BY DEF TypeOK, Takes
<1>2. line' = [line EXCEPT ![w] = Tail(line[w])] /\ line \in [Worker -> Seq(HubLine)]
  BY DEF TypeOK, Takes
<1>3. Head(line[w]).kind = kind BY DEF Takes
<1> HIDE DEF HubLine
<1>4. /\ Tail(line[w]) \in Seq(HubLine) /\ Len(Tail(line[w])) = Len(line[w]) - 1
      /\ Head(line[w]) = line[w][1] /\ Head(line[w]) \in HubLine
      /\ 1 \in 1 .. Len(line[w])
      /\ \A i \in 1 .. Len(Tail(line[w])) : i + 1 \in 1 .. Len(line[w]) /\ Tail(line[w])[i] = line[w][i + 1]
  BY <1>1
<1> QED BY <1>1, <1>2, <1>3, <1>4

\* appending a message leaves the ones before it
LEMMA AppendFacts ==
  ASSUME NEW S, NEW s \in Seq(S), NEW e \in S
  PROVE  /\ Append(s, e) \in Seq(S) /\ Len(Append(s, e)) = Len(s) + 1
         /\ Len(s) \in Nat /\ Append(s, e)[Len(s) + 1] = e
         /\ \A i \in 1 .. Len(s) : Append(s, e)[i] = s[i]
  OBVIOUS
----------------------------------------------------------------------------
(* Types, and the routes of what the hub sends.                              *)

LEMMA InitRoute == Init => TypeOK /\ RouteInv
<1> SUFFICES ASSUME Init PROVE TypeOK /\ RouteInv
  OBVIOUS
<1>1. NoPlace \in Place /\ (NoPlace.is_last <=> NoPlace.next = None)
  BY DEF NoPlace, Place, Share
<1>2. TypeOK
  BY <1>1 DEF Init, TypeOK
<1>3. RouteInv
  BY DEF Init, RouteInv, LineInv, LapInv, LapProvesChain
<1> QED BY <1>2, <1>3

\* what an answer, a relay and a run of the layers change
LEMMA AnswersType ==
  ASSUME TypeOK, NEW r \in Request, NEW kind \in {"text", "NOT_READY", "HTTP_ERROR"},
         NEW w \in Worker, Answers(r, kind, w)
  PROVE  answers' \in [Request -> Seq(Answer)]
<1>1. [kind |-> kind, from |-> w] \in Answer BY DEF Answer
<1>2. answers \in [Request -> Seq(Answer)] BY DEF TypeOK
<1>3. Append(answers[r], [kind |-> kind, from |-> w]) \in Seq(Answer)
  BY <1>1, <1>2
<1> QED BY <1>2, <1>3 DEF Answers

LEMMA RanType ==
  ASSUME TypeOK, NEW r \in Request, NEW w \in Worker, Ran(r, w)
  PROVE  trail' \in [Request -> Seq(Worker)]
<1>1. trail[r] \in Seq(Worker) /\ Append(trail[r], w) \in Seq(Worker) BY DEF TypeOK
<1> QED BY <1>1 DEF TypeOK, Ran

\* the hub
LEMMA HubType ==
  ASSUME TypeOK,
         \/ \E p \in Plan : HubAssigns(p)
         \/ \E r \in Request : HubRequests(r)
         \/ \E l \in Lap : HubLaps(l)
  PROVE  TypeOK'
<1> USE DEF hub, worker, history
<1>0. ASSUME plan \in Plan, NEW msg \in HubLine, SendFirst(msg)
      PROVE  line' \in [Worker -> Seq(HubLine)]
  <2>1. plan[1] \in Worker BY <1>0, EndFacts
  <2> QED BY <1>0, <2>1 DEF TypeOK, SendFirst
<1>1. ASSUME NEW p \in Plan, HubAssigns(p) PROVE TypeOK'
  <2>1. [kind |-> "assign", plan |-> p] \in HubLine BY DEF HubLine
  <2>2. line' \in [Worker -> Seq(HubLine)]
    BY <1>1, <2>1 DEF TypeOK, HubAssigns
  <2> QED BY <1>1, <2>2 DEF TypeOK, HubAssigns
<1>2. ASSUME NEW r \in Request, HubRequests(r) PROVE TypeOK'
  <2>1. [kind |-> "request", id |-> r] \in HubLine BY DEF HubLine
  <2>2. line' \in [Worker -> Seq(HubLine)]
    BY <1>0, <1>2, <2>1 DEF TypeOK, HubRequests
  <2> QED BY <1>2, <2>2 DEF TypeOK, HubRequests
<1>3. ASSUME NEW l \in Lap, HubLaps(l) PROVE TypeOK'
  <2>1. [kind |-> "lap", id |-> l] \in HubLine BY DEF HubLine
  <2>2. line' \in [Worker -> Seq(HubLine)]
    BY <1>0, <1>3, <2>1 DEF TypeOK, HubLaps
  <2>3. laps' \in [Lap -> [plan : Plan \cup {<<>>}, seen : SUBSET Worker, beats : SUBSET Worker]]
    <3> DEFINE LapState == [plan : Plan \cup {<<>>}, seen : SUBSET Worker, beats : SUBSET Worker]
    <3>1. laps \in [Lap -> LapState] /\ plan \in Plan \cup {<<>>} BY DEF TypeOK
    <3>2. [laps[l] EXCEPT !.plan = plan] \in LapState BY <3>1
    <3>3. laps' = [laps EXCEPT ![l] = [laps[l] EXCEPT !.plan = plan]]
      BY <1>3, <3>1 DEF HubLaps
    <3> QED BY ONLY <3>1, <3>2, <3>3
  <2> QED BY <1>3, <2>2, <2>3 DEF TypeOK, HubLaps
<1> QED BY <1>1, <1>2, <1>3

\* the next message to a worker, by its kind
LEMMA HeadFacts ==
  ASSUME TypeOK, RouteInv, NEW w \in Worker, NEW kind, Takes(w, kind)
  PROVE  /\ kind = "assign" => /\ Head(line[w]).plan \in Plan
                               /\ w \in Members(Head(line[w]).plan)
         /\ kind = "request" => /\ Head(line[w]).id \in Request
                                /\ Queued(Head(line[w]).id, w, 1)
         /\ kind = "lap" => /\ Head(line[w]).id \in Lap
                            /\ laps[Head(line[w]).id].plan \in Plan
                            /\ w = laps[Head(line[w]).id].plan[1]
<1>1. /\ 1 \in 1 .. Len(line[w]) /\ Head(line[w]) = line[w][1]
      /\ line[w][1] \in HubLine /\ line[w][1].kind = kind
  BY TakesFacts
<1>2. kind = "assign" => line[w][1].plan \in Plan /\ w \in Members(line[w][1].plan)
  BY <1>1 DEF HubLine, RouteInv, LineInv
<1>3. kind = "request" => line[w][1].id \in Request /\ line[w][1] = [kind |-> "request", id |-> line[w][1].id]
  BY <1>1 DEF HubLine
<1>4. kind = "lap" => line[w][1].id \in Lap
  BY <1>1 DEF HubLine
<1>5. kind = "lap" => /\ laps[line[w][1].id].plan # <<>>
                      /\ w = laps[line[w][1].id].plan[1]
  BY <1>1 DEF RouteInv, LineInv
<1>6. kind = "lap" => laps[line[w][1].id].plan \in Plan
  BY <1>4, <1>5 DEF TypeOK
<1> QED BY <1>1, <1>2, <1>3, <1>4, <1>5, <1>6 DEF Queued

\* what a worker adopts is well formed
LEMMA AdoptsType ==
  ASSUME TypeOK, NEW p \in Plan, NEW w \in Members(p), Adopts(w, Entry(p, w))
  PROVE  /\ place' \in [Worker -> Place]
         /\ \A v \in Worker : place'[v].is_last <=> place'[v].next = None
<1>1. /\ Entry(p, w) \in Place /\ w \in Worker
      /\ Entry(p, w).is_last <=> Entry(p, w).next = None
  BY EntryFacts, EndFacts
<1>2. place' = [place EXCEPT ![w] = Entry(p, w)] BY DEF Adopts
<1>3. /\ place \in [Worker -> Place]
      /\ \A v \in Worker : place[v].is_last <=> place[v].next = None
  BY DEF TypeOK
<1> QED BY ONLY <1>1, <1>2, <1>3

\* what a worker notes of a heartbeat is about the worker
LEMMA LapsType ==
  ASSUME TypeOK, NEW l \in Lap, NEW w \in Worker, Seen(w, l) \/ Beats(w, l)
  PROVE  /\ laps' \in [Lap -> [plan : Plan \cup {<<>>}, seen : SUBSET Worker, beats : SUBSET Worker]]
         /\ \A k \in Lap : laps'[k].plan = laps[k].plan
         /\ \A k \in Lap : k # l => laps'[k] = laps[k]
         /\ laps'[l].seen = laps[l].seen \cup {w}
         /\ laps'[l].beats = laps[l].beats \/ laps'[l].beats = laps[l].beats \cup {w}
<1> DEFINE LapState == [plan : Plan \cup {<<>>}, seen : SUBSET Worker, beats : SUBSET Worker]
           some == [laps[l] EXCEPT !.seen = laps[l].seen \cup {w}]
           more == [laps[l] EXCEPT !.seen = laps[l].seen \cup {w}, !.beats = laps[l].beats \cup {w}]
<1>1. laps \in [Lap -> LapState] BY DEF TypeOK
<1>2. some \in LapState /\ more \in LapState BY <1>1
<1>3. laps' = [laps EXCEPT ![l] = some] \/ laps' = [laps EXCEPT ![l] = more]
  BY <1>1 DEF Seen, Beats
<1>4. /\ some.plan = laps[l].plan /\ more.plan = laps[l].plan
      /\ some.seen = laps[l].seen \cup {w} /\ more.seen = laps[l].seen \cup {w}
      /\ some.beats = laps[l].beats /\ more.beats = laps[l].beats \cup {w}
  BY <1>1
<1> HIDE DEF some, more
<1> QED BY ONLY <1>1, <1>2, <1>3, <1>4

\* a heartbeat is relayed to a member of its pipeline, one place on
LEMMA LapHopFacts ==
  ASSUME NEW l \in Lap, NEW w \in Members(laps[l].plan), laps[l].plan \in Plan
  PROVE  LET p == laps[l].plan
         IN  /\ LapHop(w, l) \in Worker \cup {None}
             /\ LapHop(w, l) # None => /\ Index(p, w) + 1 \in 1 .. Len(p)
                                       /\ LapHop(w, l) = p[Index(p, w) + 1]
  BY EntryFacts DEF LapHop

\* the loop of a worker
LEMMA LoopTypes ==
  ASSUME TypeOK, RouteInv, NEW w \in Worker, LoopNext(w) \/ SetupEnds(w)
  PROVE  TypeOK'
<1> USE DEF hub, worker, history
<1>1. CASE TakeAssign(w)
  <2> DEFINE p == Head(line[w]).plan
  <2>1. Takes(w, "assign") /\ Adopts(w, Entry(p, w))
    BY <1>1 DEF TakeAssign
  <2>2. p \in Plan /\ w \in Members(p)
    BY <2>1, HeadFacts
  <2>3. /\ place' \in [Worker -> Place]
        /\ \A v \in Worker : place'[v].is_last <=> place'[v].next = None
    BY <2>1, <2>2, AdoptsType
  <2>4. line' \in [Worker -> Seq(HubLine)]
    BY <2>1, TakesFacts
  <2>5. ready' \in [Worker -> BOOLEAN]
    BY <1>1 DEF TakeAssign, TypeOK
  <2> QED BY <1>1, <2>3, <2>4, <2>5 DEF TakeAssign, TypeOK
<1>2. CASE TakeRequest(w)
  <2> DEFINE r == Head(line[w]).id
  <2>1. Takes(w, "request") /\ Admits(w, r)
    BY <1>2 DEF TakeRequest
  <2>2. r \in Request BY <2>1, HeadFacts
  <2>3. line' \in [Worker -> Seq(HubLine)]
    BY <2>1, TakesFacts
  <2>4. answers' \in [Request -> Seq(Answer)]
    BY <2>1, <2>2, AnswersType DEF Admits, TypeOK
  <2>5. [id |-> r, next |-> place[w].next] \in Posting
    BY <2>2 DEF TypeOK, Place, Posting
  <2>6. loop' \in [Worker -> Posting \cup {None}]
    BY <2>1, <2>5 DEF Admits, TypeOK
  <2> QED BY <1>2, <2>3, <2>4, <2>6 DEF TakeRequest, TypeOK
<1>3. CASE TakeLap(w)
  <2> DEFINE l == Head(line[w]).id
             p == laps[l].plan
  <2>1. Takes(w, "lap") /\ Adopts(w, Entry(p, w)) /\ (Seen(w, l) \/ Beats(w, l)) /\ Relays(w, l)
    BY <1>3 DEF TakeLap
  <2>2. l \in Lap /\ p \in Plan /\ w = p[1]
    BY <2>1, HeadFacts
  <2>3. w \in Members(p) BY <2>2, EndFacts
  <2>4. /\ place' \in [Worker -> Place]
        /\ \A v \in Worker : place'[v].is_last <=> place'[v].next = None
    BY <2>1, <2>2, <2>3, AdoptsType
  <2>5. line' \in [Worker -> Seq(HubLine)]
    BY <2>1, TakesFacts
  <2>6. laps' \in [Lap -> [plan : Plan \cup {<<>>}, seen : SUBSET Worker, beats : SUBSET Worker]]
    BY <2>1, <2>2, LapsType
  <2>7. net' \subseteq Hop
    <3>1. LapHop(w, l) # None => [kind |-> "lap", to |-> LapHop(w, l), id |-> l] \in Hop
      BY <2>2, <2>3, LapHopFacts DEF Hop
    <3> QED BY <2>1, <3>1 DEF Relays, Connects, Lost, TypeOK
  <2> QED BY <1>3, <2>4, <2>5, <2>6, <2>7 DEF TakeLap, TypeOK
<1>4. ASSUME loop[w] # None, loop' = [loop EXCEPT ![w] = None]
      PROVE  /\ loop[w].id \in Request /\ loop[w].next \in Worker \cup {None}
             /\ loop' \in [Worker -> Posting \cup {None}]
  BY <1>4 DEF TypeOK, Posting
<1>5. CASE PostAnswered(w)
  <2>1. /\ loop[w].id \in Request /\ loop[w].next \in Worker \cup {None}
        /\ loop' \in [Worker -> Posting \cup {None}]
    BY <1>4, <1>5 DEF PostAnswered
  <2>2. trail' \in [Request -> Seq(Worker)]
    BY <1>5, <2>1, RanType DEF PostAnswered
  <2>3. answers' \in [Request -> Seq(Answer)]
    BY <1>5, <2>1, AnswersType DEF PostAnswered, TypeOK
  <2>4. net' \subseteq Hop
    <3>1. loop[w].next # None =>
            [kind |-> "forward", to |-> loop[w].next, id |-> loop[w].id] \in Hop
      BY <2>1 DEF Hop
    <3> QED BY <1>5, <3>1 DEF PostAnswered, Connects, Lost, TypeOK
  <2> QED BY <1>5, <2>1, <2>2, <2>3, <2>4 DEF PostAnswered, TypeOK
<1>6. CASE PostFails(w)
  <2>1. loop[w].id \in Request /\ loop' \in [Worker -> Posting \cup {None}]
    BY <1>4, <1>6 DEF PostFails
  <2>2. answers' \in [Request -> Seq(Answer)]
    BY <1>6, <2>1, AnswersType DEF PostFails, TypeOK
  <2> QED BY <1>6, <2>1, <2>2 DEF PostFails, TypeOK
<1>7. CASE SetupEnds(w)
  BY <1>7 DEF SetupEnds, TypeOK
<1> QED BY <1>1, <1>2, <1>3, <1>5, <1>6, <1>7 DEF LoopNext

\* a heartbeat in a message is at a member of its pipeline, which it names
LEMMA LapMsgFacts ==
  ASSUME TypeOK, RouteInv, NEW m \in net, m.kind = "lap"
  PROVE  LET p == laps[m.id].plan
         IN  /\ m.id \in Lap /\ m.to \in Worker /\ p \in Plan /\ m.to \in Members(p)
             /\ \A i \in 1 .. (Index(p, m.to) - 1) : p[i] \in laps[m.id].seen
<1> DEFINE p == laps[m.id].plan
<1>1. m.id \in Lap /\ m.to \in Worker
  BY DEF TypeOK, Hop
<1>2. PICK k \in 1 .. Len(p) : m.to = p[k] /\ \A i \in 1 .. (k - 1) : p[i] \in laps[m.id].seen
  BY DEF RouteInv, LapInv
<1>3. p \in Plan \cup {<<>>} /\ p # <<>>
  BY <1>1, <1>2 DEF TypeOK
<1>4. m.to \in Members(p) BY <1>2 DEF Members
<1>5. k = Index(p, m.to) BY <1>2, <1>3, <1>4, IndexFacts
<1> QED BY <1>1, <1>2, <1>3, <1>4, <1>5

\* the tasks for what comes in
LEMMA InboundTypes ==
  ASSUME TypeOK, RouteInv,
         \/ \E m \in net : Receive(m) \/ ReceiveLap(m) \/ CutOff(m)
         \/ \E t \in tasks : TaskNext(t)
  PROVE  TypeOK'
<1> USE DEF hub, worker, history
<1>1. ASSUME NEW m \in net, Receive(m) PROVE TypeOK'
  <2>1. [at |-> "forward", worker |-> m.to, id |-> m.id] \in Task
    BY <1>1 DEF Receive, TypeOK, Hop, Task
  <2> QED BY <1>1, <2>1 DEF Receive, TypeOK
<1>2. ASSUME NEW m \in net, ReceiveLap(m) PROVE TypeOK'
  <2>1. m.kind = "lap" /\ (Seen(m.to, m.id) \/ Beats(m.to, m.id))
    BY <1>2 DEF ReceiveLap
  <2>2. /\ m.id \in Lap /\ m.to \in Worker
        /\ laps[m.id].plan \in Plan /\ m.to \in Members(laps[m.id].plan)
    BY <2>1, LapMsgFacts
  <2>3. laps' \in [Lap -> [plan : Plan \cup {<<>>}, seen : SUBSET Worker, beats : SUBSET Worker]]
    BY <2>1, <2>2, LapsType
  <2>4. LapHop(m.to, m.id) # None => [m EXCEPT !.to = LapHop(m.to, m.id)] \in Hop
    <3>1. m \in [kind : {"lap"}, to : Worker, id : Lap]
      BY <2>1 DEF TypeOK, Hop
    <3>2. LapHop(m.to, m.id) # None => LapHop(m.to, m.id) \in Worker
      BY <2>2, LapHopFacts
    <3> QED BY <3>1, <3>2 DEF Hop
  <2>5. net' \subseteq Hop
    <3> DEFINE next == [m EXCEPT !.to = LapHop(m.to, m.id)]
    <3>1. \/ net' = net \ {m}
          \/ LapHop(m.to, m.id) # None /\ net' = (net \ {m}) \cup {next}
      BY <1>2 DEF ReceiveLap
    <3>2. net \subseteq Hop BY DEF TypeOK
    <3> HIDE DEF next
    <3> QED BY <2>4, <3>1, <3>2 DEF next
  <2> QED BY <1>2, <2>3, <2>5 DEF ReceiveLap, TypeOK
<1>3. ASSUME NEW t \in tasks, Forwarded(t) PROVE TypeOK'
  <2>1. t \in Task /\ t.id \in Request /\ t.worker \in Worker
    BY DEF TypeOK, Task
  <2>2. trail' \in [Request -> Seq(Worker)]
    BY <1>3, <2>1, RanType DEF Forwarded
  <2>3. [t EXCEPT !.at = "generate"] \in Task
    BY <2>1 DEF Task
  <2>4. tasks' \subseteq Task
    BY <1>3, <2>1, <2>3 DEF Forwarded, TypeOK
  <2>5. place[t.worker].next \in Worker \cup {None}
    BY <2>1 DEF TypeOK, Place
  <2>6. net' \subseteq Hop
    <3>1. place[t.worker].next # None =>
            [kind |-> "forward", to |-> place[t.worker].next, id |-> t.id] \in Hop
      BY <2>1, <2>5 DEF Hop
    <3> QED BY <1>3, <3>1 DEF Forwarded, Connects, Lost, TypeOK
  <2> QED BY <1>3, <2>2, <2>4, <2>6 DEF Forwarded, TypeOK
<1>4. ASSUME NEW t \in tasks, Generated(t) PROVE TypeOK'
  <2>1. t.id \in Request /\ t.worker \in Worker BY DEF TypeOK, Task
  <2>2. answers' \in [Request -> Seq(Answer)]
    BY <1>4, <2>1, AnswersType DEF Generated
  <2> QED BY <1>4, <2>2 DEF Generated, TypeOK
<1>5. ASSUME NEW t \in tasks, RpcFails(t) PROVE TypeOK'
  BY <1>5 DEF RpcFails, TypeOK
<1>6. ASSUME NEW m \in net, CutOff(m) PROVE TypeOK'
  BY <1>6 DEF CutOff, TypeOK
<1> QED BY <1>1, <1>2, <1>3, <1>4, <1>5, <1>6 DEF TaskNext

\* a step that sends no assignment and no heartbeat keeps the routes
LEMMA RouteKept ==
  ASSUME TypeOK, RouteInv, UNCHANGED laps,
         \A v \in Worker : \A i \in 1 .. Len(line'[v]) :
           \/ line'[v][i].kind = "request"
           \/ \E j \in 1 .. Len(line[v]) : line'[v][i] = line[v][j],
         \A m \in net' : m.kind = "lap" => m \in net
  PROVE  RouteInv'
<1>1. LineInv' BY DEF RouteInv, LineInv
<1>2. LapInv' BY DEF RouteInv, LapInv, LapProvesChain
<1> QED BY <1>1, <1>2 DEF RouteInv

\* a worker that handles a heartbeat has all before it behind the heartbeat, and if
\* it is the last one, all others
LEMMA LapStep ==
  ASSUME TypeOK, RouteInv, NEW l \in Lap, laps[l].plan \in Plan,
         NEW w \in Members(laps[l].plan),
         \A i \in 1 .. (Index(laps[l].plan, w) - 1) : laps[l].plan[i] \in laps[l].seen,
         Seen(w, l) \/ Beats(w, l),
         \A v \in Worker : \A i \in 1 .. Len(line'[v]) :
           \E j \in 1 .. Len(line[v]) : line'[v][i] = line[v][j],
         \A m \in net' : m.kind = "lap" /\ m \notin net =>
                            m.id = l /\ LapHop(w, l) # None /\ m.to = LapHop(w, l)
  PROVE  RouteInv'
<1> DEFINE p == laps[l].plan
<1>1. /\ w \in Worker /\ p \in Seq(Worker) /\ Len(p) \in Nat \ {0}
      /\ Index(p, w) \in 1 .. Len(p) /\ p[Index(p, w)] = w
      /\ \A k \in 1 .. Len(p) : p[k] = w => k = Index(p, w)
  BY IndexFacts
<1>2. /\ \A k \in Lap : laps'[k].plan = laps[k].plan
      /\ \A k \in Lap : k # l => laps'[k] = laps[k]
      /\ laps'[l].seen = laps[l].seen \cup {w}
      /\ laps'[l].beats = laps[l].beats \/ laps'[l].beats = laps[l].beats \cup {w}
  BY <1>1, LapsType
<1>3. LineInv'
  <2> SUFFICES ASSUME NEW v \in Worker, NEW i \in 1 .. Len(line'[v])
               PROVE  /\ line'[v][i].kind = "assign" => v \in Members(line'[v][i].plan)
                      /\ line'[v][i].kind = "lap" => /\ laps'[line'[v][i].id].plan # <<>>
                                                     /\ v = laps'[line'[v][i].id].plan[1]
    BY DEF LineInv
  <2>1. PICK j \in 1 .. Len(line[v]) : line'[v][i] = line[v][j]
    OBVIOUS
  <2>2. line[v][j].kind = "lap" => line[v][j].id \in Lap
    <3>1. line[v][j] \in HubLine BY DEF TypeOK
    <3> QED BY <3>1 DEF HubLine
  <2>3. /\ line[v][j].kind = "assign" => v \in Members(line[v][j].plan)
        /\ line[v][j].kind = "lap" => /\ laps[line[v][j].id].plan # <<>>
                                      /\ v = laps[line[v][j].id].plan[1]
    BY DEF RouteInv, LineInv
  <2> QED BY <1>2, <2>1, <2>2, <2>3
<1>4. ASSUME NEW m \in net', m.kind = "lap"
      PROVE  LET q == laps'[m.id].plan
             IN  \E k \in 1 .. Len(q) : m.to = q[k] /\ \A i \in 1 .. (k - 1) : q[i] \in laps'[m.id].seen
  <2>1. CASE m \in net
    <3>1. m.id \in Lap BY <1>4, <2>1 DEF TypeOK, Hop
    <3>2. PICK k \in 1 .. Len(laps[m.id].plan) :
            m.to = laps[m.id].plan[k] /\ \A i \in 1 .. (k - 1) : laps[m.id].plan[i] \in laps[m.id].seen
      BY <1>4, <2>1 DEF RouteInv, LapInv
    <3>3. laps'[m.id].plan = laps[m.id].plan /\ laps[m.id].seen \subseteq laps'[m.id].seen
      BY <1>2, <3>1
    <3> QED BY <3>2, <3>3
  <2>2. CASE m \notin net
    <3>1. m.id = l /\ LapHop(w, l) # None /\ m.to = LapHop(w, l)
      BY <1>4, <2>2
    <3>2. Index(p, w) + 1 \in 1 .. Len(p) /\ m.to = p[Index(p, w) + 1]
      BY <3>1, LapHopFacts
    <3>3. \A i \in 1 .. Index(p, w) : p[i] \in laps'[l].seen
      BY <1>1, <1>2
    <3>4. laps'[m.id].plan = p /\ laps'[m.id].seen = laps'[l].seen BY <1>2, <3>1
    <3> DEFINE n == Index(p, w) + 1
    <3>5. \A i \in 1 .. (n - 1) : p[i] \in laps'[m.id].seen BY <1>1, <3>3, <3>4
    <3>6. n \in 1 .. Len(p) /\ m.to = p[n] BY <3>2
    <3> HIDE DEF n
    <3> QED BY <3>4, <3>5, <3>6
  <2> QED BY <2>1, <2>2
<1>5. ASSUME NEW k \in Lap
      PROVE  /\ laps'[k].seen \subseteq Members(laps'[k].plan)
             /\ laps'[k].plan = <<>> => laps'[k].beats = {}
  <2>1. CASE k = l
    <3>1. laps[l].plan # <<>> OBVIOUS
    <3> QED BY <1>2, <2>1, <3>1 DEF RouteInv, LapInv
  <2> QED BY <1>2, <2>1 DEF RouteInv, LapInv
<1>6. LapProvesChain'
  <2> SUFFICES ASSUME NEW k \in Lap, laps'[k].plan # <<>>,
                      laps'[k].plan[Len(laps'[k].plan)] \in laps'[k].beats
               PROVE  laps'[k].seen = Members(laps'[k].plan)
    BY DEF LapProvesChain
  <2>0. LapProvesChain BY DEF RouteInv, LapInv
  <2>1. CASE k # l
    BY <1>2, <2>0, <2>1 DEF LapProvesChain
  <2>2. CASE k = l /\ p[Len(p)] \in laps[l].beats
    <3>1. laps[l].seen = Members(p) BY <2>0, <2>2 DEF LapProvesChain
    <3>2. laps'[l].seen = Members(p) /\ laps'[l].plan = p BY <1>2, <3>1
    <3> QED BY <2>2, <3>2
  <2>3. CASE k = l /\ p[Len(p)] = w
    <3>1. Index(p, w) = Len(p) BY <1>1, <2>3
    <3>2. \A i \in 1 .. Len(p) : p[i] \in laps'[l].seen
      BY <1>1, <1>2, <3>1
    <3>3. Members(p) \subseteq laps'[l].seen BY <3>2 DEF Members
    <3> QED BY <1>2, <1>5, <2>3, <3>3
  <2> QED BY <1>2, <2>1, <2>2, <2>3
<1> QED BY <1>3, <1>4, <1>5, <1>6 DEF RouteInv, LapInv

\* every step keeps the routes
LEMMA RouteStep == TypeOK /\ RouteInv /\ [Next]_vars => RouteInv'
<1> SUFFICES ASSUME TypeOK, RouteInv, [Next]_vars PROVE RouteInv'
  OBVIOUS
<1> USE DEF hub, worker, history
<1> DEFINE Shorter == \A v \in Worker : \A i \in 1 .. Len(line'[v]) :
                        \E j \in 1 .. Len(line[v]) : line'[v][i] = line[v][j]
           Fewer == \A m \in net' : m.kind = "lap" => m \in net
<1>1. ASSUME Shorter, Fewer, UNCHANGED laps PROVE RouteInv'
  BY <1>1, RouteKept
<1>2. UNCHANGED line => Shorter
  OBVIOUS
<1>3. ASSUME NEW w \in Worker, NEW kind, Takes(w, kind) PROVE Shorter
  BY <1>3, TakesFacts
<1>4. ASSUME NEW msg, msg.kind # "lap", Connects(msg) \/ UNCHANGED net PROVE Fewer
  BY <1>4 DEF Connects
<1>5. ASSUME NEW p \in Plan, HubAssigns(p) PROVE RouteInv'
  <2>1. LineInv'
    <3> SUFFICES ASSUME NEW v \in Worker, NEW i \in 1 .. Len(line'[v])
                 PROVE  /\ line'[v][i].kind = "assign" => v \in Members(line'[v][i].plan)
                        /\ line'[v][i].kind = "lap" => /\ laps[line'[v][i].id].plan # <<>>
                                                       /\ v = laps[line'[v][i].id].plan[1]
      BY <1>5 DEF LineInv, HubAssigns
    <3>1. CASE v \in Members(p)
      <4>1. line[v] \in Seq(HubLine) /\ [kind |-> "assign", plan |-> p] \in HubLine
        BY DEF TypeOK, HubLine
      <4>2. line'[v] = Append(line[v], [kind |-> "assign", plan |-> p])
        BY <1>5, <3>1 DEF HubAssigns
      <4>3. \/ line'[v][i] = [kind |-> "assign", plan |-> p]
            \/ i \in 1 .. Len(line[v]) /\ line'[v][i] = line[v][i]
        <5> HIDE DEF HubLine
        <5> QED BY <4>1, <4>2, AppendFacts
      <4> QED BY <3>1, <4>3 DEF RouteInv, LineInv
    <3>2. CASE v \notin Members(p)
      BY <1>5, <3>2 DEF HubAssigns, RouteInv, LineInv
    <3> QED BY <3>1, <3>2
  <2>2. LapInv'
    BY <1>5 DEF HubAssigns, RouteInv, LapInv, LapProvesChain
  <2> QED BY <2>1, <2>2 DEF RouteInv
<1>6. ASSUME plan \in Plan, NEW msg \in HubLine, SendFirst(msg),
             NEW v \in Worker, NEW i \in 1 .. Len(line'[v])
      PROVE  \/ v = plan[1] /\ line'[v][i] = msg
             \/ i \in 1 .. Len(line[v]) /\ line'[v][i] = line[v][i]
  <2>1. plan[1] \in Worker BY <1>6, EndFacts
  <2>2. line[v] \in Seq(HubLine) /\ line \in [Worker -> Seq(HubLine)] BY DEF TypeOK
  <2>3. v = plan[1] => line'[v] = Append(line[v], msg)
    BY <1>6, <2>1, <2>2 DEF SendFirst
  <2>4. v # plan[1] => line'[v] = line[v]
    BY <1>6, <2>1, <2>2 DEF SendFirst
  <2> HIDE DEF HubLine
  <2>5. CASE v = plan[1]
    <3>1. /\ line'[v] = Append(line[v], msg) /\ line[v] \in Seq(HubLine)
          /\ i \in 1 .. Len(line'[v]) /\ msg \in HubLine
      BY <2>2, <2>3, <2>5
    <3> QED BY ONLY <2>5, <3>1, AppendFacts
  <2>6. CASE v # plan[1]
    BY <1>6, <2>4, <2>6
  <2> QED BY <2>5, <2>6
<1>7. ASSUME NEW r \in Request, HubRequests(r) PROVE RouteInv'
  <2>1. plan \in Plan /\ SendFirst([kind |-> "request", id |-> r]) /\ UNCHANGED <<laps, net>>
    BY <1>7 DEF HubRequests, TypeOK
  <2>2. [kind |-> "request", id |-> r] \in HubLine BY DEF HubLine
  <2>3. \A v \in Worker : \A i \in 1 .. Len(line'[v]) :
          \/ line'[v][i].kind = "request"
          \/ \E j \in 1 .. Len(line[v]) : line'[v][i] = line[v][j]
    BY <1>6, <2>1, <2>2
  <2> QED BY <2>1, <2>3, RouteKept
<1>8. ASSUME NEW l \in Lap, HubLaps(l) PROVE RouteInv'
  <2> DEFINE msg == [kind |-> "lap", id |-> l]
  <2>1. plan \in Plan /\ SendFirst(msg) /\ laps[l].plan = <<>> /\ UNCHANGED net
    BY <1>8 DEF HubLaps, TypeOK
  <2>2. msg \in HubLine BY DEF HubLine
  <2>3. /\ \A k \in Lap : k # l => laps'[k] = laps[k]
        /\ laps'[l].plan = plan /\ plan # <<>>
        /\ laps'[l].seen = laps[l].seen /\ laps'[l].beats = laps[l].beats
    BY <1>8 DEF HubLaps, TypeOK
  <2>4. laps[l].beats = {} /\ laps[l].seen = {}
    BY <2>1 DEF RouteInv, LapInv, Members
  <2>5. LineInv'
    <3> SUFFICES ASSUME NEW v \in Worker, NEW i \in 1 .. Len(line'[v])
                 PROVE  /\ line'[v][i].kind = "assign" => v \in Members(line'[v][i].plan)
                        /\ line'[v][i].kind = "lap" => /\ laps'[line'[v][i].id].plan # <<>>
                                                       /\ v = laps'[line'[v][i].id].plan[1]
      BY DEF LineInv
    <3>1. CASE v = plan[1] /\ line'[v][i] = msg
      BY <2>3, <3>1
    <3>2. CASE i \in 1 .. Len(line[v]) /\ line'[v][i] = line[v][i]
      <4>1. line[v][i] \in HubLine BY <3>2 DEF TypeOK
      <4>2. line[v][i].kind = "lap" => line[v][i].id \in Lap BY <4>1 DEF HubLine
      <4>3. /\ line[v][i].kind = "assign" => v \in Members(line[v][i].plan)
            /\ line[v][i].kind = "lap" => /\ laps[line[v][i].id].plan # <<>>
                                          /\ v = laps[line[v][i].id].plan[1]
        BY <3>2 DEF RouteInv, LineInv
      <4>4. line[v][i].kind = "lap" => line[v][i].id # l
        BY <2>1, <4>3
      <4> QED BY <2>3, <3>2, <4>2, <4>3, <4>4
    <3> QED BY <1>6, <2>1, <2>2, <3>1, <3>2
  <2>6. LapInv'
    <3>1. \A m \in net' : m.kind = "lap" =>
            LET q == laps'[m.id].plan
            IN  \E k \in 1 .. Len(q) : m.to = q[k] /\ \A i \in 1 .. (k - 1) : q[i] \in laps'[m.id].seen
      <4> SUFFICES ASSUME NEW m \in net', m.kind = "lap"
                   PROVE  LET q == laps'[m.id].plan
                          IN  \E k \in 1 .. Len(q) :
                                m.to = q[k] /\ \A i \in 1 .. (k - 1) : q[i] \in laps'[m.id].seen
        OBVIOUS
      <4>1. m \in net /\ m.id \in Lap BY <2>1 DEF TypeOK, Hop
      <4>2. laps[m.id].plan # <<>> BY <4>1 DEF RouteInv, LapInv
      <4>3. laps'[m.id] = laps[m.id] BY <2>1, <2>3, <4>1, <4>2
      <4> QED BY <4>1, <4>3 DEF RouteInv, LapInv
    <3>2. ASSUME NEW k \in Lap
          PROVE  /\ laps'[k].seen \subseteq Members(laps'[k].plan)
                 /\ laps'[k].plan = <<>> => laps'[k].beats = {}
      BY <2>3, <2>4 DEF RouteInv, LapInv
    <3>3. LapProvesChain'
      BY <2>3, <2>4 DEF RouteInv, LapInv, LapProvesChain
    <3> QED BY <3>1, <3>2, <3>3 DEF LapInv
  <2> QED BY <2>5, <2>6 DEF RouteInv
<1>9. ASSUME NEW w \in Worker, TakeAssign(w) PROVE RouteInv'
  BY <1>1, <1>3, <1>9 DEF TakeAssign
<1>10. ASSUME NEW w \in Worker, TakeRequest(w) PROVE RouteInv'
  BY <1>1, <1>3, <1>10 DEF TakeRequest
<1>11. ASSUME NEW w \in Worker, TakeLap(w) PROVE RouteInv'
  <2> DEFINE l == Head(line[w]).id
             p == laps[l].plan
  <2>1. Takes(w, "lap") /\ (Seen(w, l) \/ Beats(w, l)) /\ Relays(w, l)
    BY <1>11 DEF TakeLap
  <2>2. l \in Lap /\ p \in Plan /\ w = p[1]
    BY <2>1, HeadFacts
  <2>3. w \in Members(p) /\ 1 \in 1 .. Len(p) BY <2>2, EndFacts
  <2>4. Index(p, w) = 1 BY <2>2, <2>3, IndexFacts
  <2>5. \A i \in 1 .. (Index(p, w) - 1) : p[i] \in laps[l].seen BY <2>4
  <2>6. Shorter BY <1>3, <2>1
  <2>7. \A m \in net' : m.kind = "lap" /\ m \notin net =>
                           m.id = l /\ LapHop(w, l) # None /\ m.to = LapHop(w, l)
    BY <2>1 DEF Relays, Connects, Lost
  <2> HIDE DEF l
  <2> QED BY <2>1, <2>2, <2>3, <2>5, <2>6, <2>7, LapStep
<1>12. ASSUME NEW w \in Worker, PostAnswered(w) PROVE RouteInv'
  <2>1. Fewer
    <3>1. [kind |-> "forward", to |-> loop[w].next, id |-> loop[w].id].kind # "lap"
      OBVIOUS
    <3> QED BY <1>4, <1>12, <3>1 DEF PostAnswered, Lost
  <2> QED BY <1>1, <1>2, <1>12, <2>1 DEF PostAnswered
<1>13. ASSUME NEW w \in Worker, PostFails(w) PROVE RouteInv'
  BY <1>1, <1>2, <1>13 DEF PostFails
<1>14. ASSUME NEW w \in Worker, SetupEnds(w) PROVE RouteInv'
  BY <1>1, <1>2, <1>14 DEF SetupEnds
<1>15. ASSUME NEW m \in net, Receive(m) PROVE RouteInv'
  BY <1>1, <1>2, <1>15 DEF Receive
<1>16. ASSUME NEW m \in net, ReceiveLap(m) PROVE RouteInv'
  <2> DEFINE l == m.id
             w == m.to
  <2>1. m.kind = "lap" /\ (Seen(w, l) \/ Beats(w, l)) /\ UNCHANGED line
    BY <1>16 DEF ReceiveLap
  <2>2. /\ l \in Lap /\ laps[l].plan \in Plan /\ w \in Members(laps[l].plan)
        /\ \A i \in 1 .. (Index(laps[l].plan, w) - 1) : laps[l].plan[i] \in laps[l].seen
    BY <2>1, LapMsgFacts
  <2>3. [m EXCEPT !.to = LapHop(w, l)].id = l /\ [m EXCEPT !.to = LapHop(w, l)].to = LapHop(w, l)
    BY <2>1 DEF TypeOK, Hop
  <2>4. \A n \in net' : n.kind = "lap" /\ n \notin net =>
                           n.id = l /\ LapHop(w, l) # None /\ n.to = LapHop(w, l)
    BY <1>16, <2>3 DEF ReceiveLap
  <2> QED BY <1>2, <2>1, <2>2, <2>4, LapStep
<1>17. ASSUME NEW t \in tasks, Forwarded(t) PROVE RouteInv'
  <2>1. Fewer
    <3>1. [kind |-> "forward", to |-> place[t.worker].next, id |-> t.id].kind # "lap"
      OBVIOUS
    <3> QED BY <1>4, <1>17, <3>1 DEF Forwarded, Lost
  <2> QED BY <1>1, <1>2, <1>17, <2>1 DEF Forwarded
<1>18. ASSUME NEW t \in tasks, Generated(t) \/ RpcFails(t) PROVE RouteInv'
  BY <1>1, <1>2, <1>18 DEF Generated, RpcFails
<1>19. CASE UNCHANGED vars
  BY <1>1, <1>2, <1>19 DEF vars
<1>20. ASSUME NEW m \in net, CutOff(m) PROVE RouteInv'
  BY <1>1, <1>2, <1>20 DEF CutOff
<1> QED BY <1>5, <1>7, <1>8, <1>9, <1>10, <1>11, <1>12, <1>13, <1>14, <1>15, <1>16, <1>17,
           <1>18, <1>19, <1>20 DEF Next, LoopNext, TaskNext

\* every step keeps the types
LEMMA TypeStep == TypeOK /\ RouteInv /\ [Next]_vars => TypeOK'
<1> SUFFICES ASSUME TypeOK, RouteInv, [Next]_vars PROVE TypeOK'
  OBVIOUS
<1>1. CASE UNCHANGED vars
  BY <1>1 DEF vars, hub, worker, history, TypeOK
<1> QED BY <1>1, HubType, LoopTypes, InboundTypes DEF Next

\* Every reachable state has the declared types: in particular a worker's hop and
\* its position as the last one are replaced together (PipelineState).
THEOREM TypeCorrect == Spec => []TypeOK
<1>1. Spec => [](TypeOK /\ RouteInv)
  BY InitRoute, TypeStep, RouteStep, PTL DEF Spec
<1> QED BY <1>1, PTL

\* A heartbeat of the last worker of a pipeline proves that the heartbeat passed every
\* worker of it, for pipelines of any length, reassigned while it was on its way.
THEOREM LapsProveChain == Spec => []LapProvesChain
<1>1. Spec => [](TypeOK /\ RouteInv)
  BY InitRoute, TypeStep, RouteStep, PTL DEF Spec
<1>2. RouteInv => LapProvesChain
  BY DEF RouteInv, LapInv
<1> QED BY <1>1, <1>2, PTL
----------------------------------------------------------------------------
(* A request exists once.                                                    *)

\* CopyInv, for one request
Single(r) == OneEach(r) /\ OnePlace(r) /\ Answered(r) /\ Unasked(r)

\* the step brings r to no new place; x is the worker that takes a message
Keeps(r, x) ==
  /\ asked'[r] = asked[r] /\ answers'[r] = answers[r]
  /\ \A v \in Worker : \A i \in 1 .. Len(line'[v]) :
       Queued(r, v, i)' => Queued(r, v, IF v = x THEN i + 1 ELSE i)
  /\ \A v \in Worker : Posted(r, v)' => Posted(r, v)
  /\ \A m \in net' : Sent(r, m) => m \in net
  /\ \A t \in tasks' : Handled(r, t) => t \in tasks

LEMMA SingleKept ==
  ASSUME TypeOK, NEW r \in Request, Single(r), NEW x, Keeps(r, x)
  PROVE  Single(r)'
<1> USE DEF Keeps
<1>1. InLine(r)' => InLine(r)
  BY DEF InLine, Queued
<1>2. /\ InLoop(r)' => InLoop(r)
      /\ InNet(r)' => InNet(r)
      /\ InTask(r)' => InTask(r)
  BY DEF InLoop, InNet, InTask, Posted, Sent, Handled
<1>3. OneEach(r)'
  <2>1. ASSUME NEW w \in Worker, NEW v \in Worker,
               NEW i \in 1 .. Len(line'[w]), NEW j \in 1 .. Len(line'[v]),
               Queued(r, w, i)', Queued(r, v, j)'
        PROVE  w = v /\ i = j
    <3> DEFINE k == IF w = x THEN i + 1 ELSE i
               n == IF v = x THEN j + 1 ELSE j
    <3>1. Queued(r, w, k) /\ Queued(r, v, n) BY <2>1
    <3>2. k \in 1 .. Len(line[w]) /\ n \in 1 .. Len(line[v]) BY <3>1 DEF Queued
    <3>3. w = v /\ k = n
      <4> HIDE DEF k, n
      <4> QED BY <3>1, <3>2 DEF Single, OneEach
    <3> QED BY <3>3
  <2>2. \A w, v \in Worker : Posted(r, w)' /\ Posted(r, v)' => w = v
    BY DEF Single, OneEach
  <2>3. /\ \A m, n \in net' : Sent(r, m) /\ Sent(r, n) => m = n
        /\ \A t, u \in tasks' : Handled(r, t) /\ Handled(r, u) => t = u
    BY DEF Single, OneEach
  <2> QED BY <2>1, <2>2, <2>3 DEF OneEach, Sent, Handled
<1>4. OnePlace(r)'
  BY <1>1, <1>2 DEF Single, OnePlace
<1>5. Answered(r)'
  BY <1>1, <1>2 DEF Single, Answered, UnderWay
<1>6. Unasked(r)'
  BY <1>1, <1>2 DEF Single, Unasked, UnderWay
<1> QED BY <1>3, <1>4, <1>5, <1>6 DEF Single

\* a request that was sent and is in no place, or in one
LEMMA SingleGone ==
  ASSUME NEW r \in Request, asked'[r] # <<>>, Len(answers'[r]) <= 1, ~UnderWay(r)'
  PROVE  Single(r)'
  BY DEF Single, OneEach, OnePlace, Answered, Unasked, UnderWay, InLine, InLoop, InNet, InTask,
         Posted, Sent, Handled

LEMMA SinglePosted ==
  ASSUME NEW r \in Request, asked'[r] # <<>>, answers'[r] = <<>>,
         ~InLine(r)', ~InNet(r)', ~InTask(r)',
         \A w, v \in Worker : Posted(r, w)' /\ Posted(r, v)' => w = v
  PROVE  Single(r)'
  BY DEF Single, OneEach, OnePlace, Answered, Unasked, UnderWay, InLine, InNet, InTask, Sent, Handled

LEMMA SingleSent ==
  ASSUME NEW r \in Request, asked'[r] # <<>>, answers'[r] = <<>>,
         ~InLine(r)', ~InLoop(r)', ~InTask(r)',
         \A m, n \in net' : Sent(r, m) /\ Sent(r, n) => m = n
  PROVE  Single(r)'
  BY DEF Single, OneEach, OnePlace, Answered, Unasked, UnderWay, InLine, InLoop, InTask,
         Posted, Sent, Handled

LEMMA SingleHandled ==
  ASSUME NEW r \in Request, asked'[r] # <<>>, answers'[r] = <<>>,
         ~InLine(r)', ~InLoop(r)', ~InNet(r)',
         \A t, u \in tasks' : Handled(r, t) /\ Handled(r, u) => t = u
  PROVE  Single(r)'
  BY DEF Single, OneEach, OnePlace, Answered, Unasked, UnderWay, InLine, InLoop, InNet,
         Posted, Sent, Handled

LEMMA SingleQueued ==
  ASSUME NEW r \in Request, asked'[r] # <<>>, answers'[r] = <<>>,
         ~InLoop(r)', ~InNet(r)', ~InTask(r)',
         \A w, v \in Worker : \A i \in 1 .. Len(line'[w]), j \in 1 .. Len(line'[v]) :
           Queued(r, w, i)' /\ Queued(r, v, j)' => w = v /\ i = j
  PROVE  Single(r)'
  BY DEF Single, OneEach, OnePlace, Answered, Unasked, UnderWay, InLoop, InNet, InTask,
         Posted, Sent, Handled

\* the messages behind the one that is taken keep their order
LEMMA TakesKeeps ==
  ASSUME TypeOK, NEW r \in Request, NEW w \in Worker, NEW kind, Takes(w, kind)
  PROVE  \A v \in Worker : \A i \in 1 .. Len(line'[v]) :
           Queued(r, v, i)' => Queued(r, v, IF v = w THEN i + 1 ELSE i)
  BY TakesFacts DEF Queued

\* without a step of a loop or of the hub, lines and posts stay
LEMMA LinesKeep ==
  ASSUME NEW r \in Request, UNCHANGED line
  PROVE  \A v \in Worker : \A i \in 1 .. Len(line'[v]) :
           Queued(r, v, i)' => Queued(r, v, IF v = None THEN i + 1 ELSE i)
  BY DEF Queued

\* an answer is the first one of a request that had none, and of no other
LEMMA AnswersFirst ==
  ASSUME TypeOK, NEW r \in Request, NEW kind, NEW w \in Worker,
         Answers(r, kind, w) \/ UNCHANGED answers
  PROVE  /\ answers[r] = <<>> => Len(answers'[r]) <= 1
         /\ \A q \in Request : q # r => answers'[q] = answers[q]
<1>1. answers \in [Request -> Seq(Answer)] BY DEF TypeOK
<1>2. Len(<<>>) = 0 /\ Len(Append(<<>>, [kind |-> kind, from |-> w])) = 1 OBVIOUS
<1> QED BY <1>1, <1>2 DEF Answers

\* a request in a place is in no other, was sent, and has no answer
LEMMA PlaceFacts ==
  ASSUME NEW r \in Request, Single(r), UnderWay(r)
  PROVE  /\ answers[r] = <<>> /\ asked[r] # <<>>
         /\ InLine(r) => ~InLoop(r) /\ ~InNet(r) /\ ~InTask(r)
         /\ InLoop(r) => ~InLine(r) /\ ~InNet(r) /\ ~InTask(r)
         /\ InNet(r) => ~InLine(r) /\ ~InLoop(r) /\ ~InTask(r)
         /\ InTask(r) => ~InLine(r) /\ ~InLoop(r) /\ ~InNet(r)
  BY DEF Single, Answered, Unasked, OnePlace

\* the request that is taken leaves the line
LEMMA TakenFacts ==
  ASSUME TypeOK, RouteInv, NEW w \in Worker, Takes(w, "request"),
         NEW r \in Request, Head(line[w]).id = r, Single(r)
  PROVE  /\ answers[r] = <<>> /\ asked[r] # <<>>
         /\ ~InLine(r)' /\ ~InLoop(r) /\ ~InNet(r) /\ ~InTask(r)
<1>1. Queued(r, w, 1) /\ 1 \in 1 .. Len(line[w])
  BY HeadFacts, TakesFacts
<1>2. InLine(r) BY <1>1 DEF InLine
<1>3. /\ answers[r] = <<>> /\ asked[r] # <<>>
      /\ ~InLoop(r) /\ ~InNet(r) /\ ~InTask(r)
  BY <1>2, PlaceFacts DEF UnderWay
<1>4. ASSUME InLine(r)' PROVE FALSE
  <2>1. PICK v \in Worker : \E i \in 1 .. Len(line'[v]) : Queued(r, v, i)'
    BY <1>4 DEF InLine
  <2>2. PICK i \in 1 .. Len(line'[v]) : Queued(r, v, i)' BY <2>1
  <2> DEFINE k == IF v = w THEN i + 1 ELSE i
  <2>3. Queued(r, v, k)
    BY <2>2, TakesKeeps
  <2>4. k \in 1 .. Len(line[v]) BY <2>3 DEF Queued
  <2>5. v = w /\ k = 1
    <3> HIDE DEF k
    <3> QED BY <1>1, <2>3, <2>4 DEF Single, OneEach
  <2> QED BY <2>5
<1> QED BY <1>3, <1>4

\* the posted request leaves the loop
LEMMA PostedFacts ==
  ASSUME TypeOK, NEW w \in Worker, loop[w] # None, loop' = [loop EXCEPT ![w] = None],
         NEW r \in Request, loop[w].id = r, Single(r)
  PROVE  /\ answers[r] = <<>> /\ asked[r] # <<>>
         /\ ~InLine(r) /\ ~InLoop(r)' /\ ~InNet(r) /\ ~InTask(r)
<1>1. Posted(r, w) BY DEF Posted
<1>2. /\ answers[r] = <<>> /\ asked[r] # <<>>
      /\ ~InLine(r) /\ ~InNet(r) /\ ~InTask(r)
  BY <1>1, PlaceFacts DEF UnderWay, InLoop
<1>3. ASSUME NEW v \in Worker, Posted(r, v)' PROVE FALSE
  <2>1. v # w BY <1>3 DEF Posted, TypeOK
  <2>2. Posted(r, v) BY <1>3, <2>1 DEF Posted, TypeOK
  <2> QED BY <1>1, <2>1, <2>2 DEF Single, OneEach
<1> QED BY <1>2, <1>3 DEF InLoop

\* the request of a task is nowhere else
LEMMA TaskFacts ==
  ASSUME TypeOK, NEW t \in tasks, Single(t.id)
  PROVE  /\ t.id \in Request /\ answers[t.id] = <<>> /\ asked[t.id] # <<>>
         /\ ~InLine(t.id) /\ ~InLoop(t.id) /\ ~InNet(t.id)
         /\ \A u \in tasks : Handled(t.id, u) => u = t
<1>1. t.id \in Request /\ Handled(t.id, t) BY DEF TypeOK, Task, Handled
<1>2. InTask(t.id) BY <1>1 DEF InTask
<1> QED BY <1>1, <1>2, PlaceFacts DEF UnderWay, Single, OneEach

\* nor is the one of a message
LEMMA SentFacts ==
  ASSUME TypeOK, NEW m \in net, m.kind = "forward", Single(m.id)
  PROVE  /\ m.id \in Request /\ answers[m.id] = <<>> /\ asked[m.id] # <<>>
         /\ ~InLine(m.id) /\ ~InLoop(m.id) /\ ~InTask(m.id)
         /\ \A n \in net : Sent(m.id, n) => n = m
<1>1. m.id \in Request /\ Sent(m.id, m) BY DEF TypeOK, Hop, Sent
<1>2. InNet(m.id) BY <1>1 DEF InNet
<1> QED BY <1>1, <1>2, PlaceFacts DEF UnderWay, Single, OneEach

\* the hub puts a new request in one line, and no other
LEMMA HubCopies ==
  ASSUME TypeOK, NEW q \in Request, Single(q),
         \/ \E p \in Plan : HubAssigns(p)
         \/ \E r \in Request : HubRequests(r)
         \/ \E l \in Lap : HubLaps(l)
  PROVE  Single(q)'
<1> USE DEF hub, worker, history
<1>0. /\ line \in [Worker -> Seq(HubLine)] /\ asked \in [Request -> Plan \cup {<<>>}]
      /\ plan \in Plan \cup {<<>>}
  BY DEF TypeOK
<1>1. ASSUME NEW v \in Worker, NEW msg \in HubLine, msg # [kind |-> "request", id |-> q],
             line'[v] = Append(line[v], msg),
             NEW i \in 1 .. Len(line'[v]), Queued(q, v, i)'
      PROVE  Queued(q, v, i)
  <2> HIDE DEF HubLine
  <2> QED BY <1>0, <1>1, AppendFacts DEF Queued
<1>2. ASSUME UNCHANGED <<loop, net, tasks>>
      PROVE  /\ \A v \in Worker : Posted(q, v)' => Posted(q, v)
             /\ \A m \in net' : Sent(q, m) => m \in net
             /\ \A t \in tasks' : Handled(q, t) => t \in tasks
             /\ InLoop(q)' => InLoop(q)
             /\ InNet(q)' => InNet(q)
             /\ InTask(q)' => InTask(q)
  BY <1>2 DEF Posted, InLoop, InNet, InTask
<1>3. ASSUME NEW msg \in HubLine, msg # [kind |-> "request", id |-> q],
             \A v \in Worker : line'[v] = line[v] \/ line'[v] = Append(line[v], msg),
             UNCHANGED <<loop, net, tasks>>, asked'[q] = asked[q], answers'[q] = answers[q]
      PROVE  Single(q)'
  <2>1. ASSUME NEW v \in Worker, NEW i \in 1 .. Len(line'[v]), Queued(q, v, i)'
        PROVE  Queued(q, v, i) /\ v # None
    <3>1. CASE line'[v] = line[v] BY <2>1, <3>1 DEF Queued
    <3>2. CASE line'[v] = Append(line[v], msg) BY <1>1, <1>3, <2>1, <3>2
    <3> QED BY <1>3, <3>1, <3>2
  <2>2. Keeps(q, None) BY <1>2, <1>3, <2>1 DEF Keeps
  <2> QED BY <2>2, SingleKept
<1>4. ASSUME NEW p \in Plan, HubAssigns(p) PROVE Single(q)'
  <2> DEFINE msg == [kind |-> "assign", plan |-> p]
  <2>1. msg \in HubLine /\ msg # [kind |-> "request", id |-> q]
    BY DEF HubLine
  <2>2. \A v \in Worker : line'[v] = line[v] \/ line'[v] = Append(line[v], msg)
    BY <1>4 DEF HubAssigns
  <2>3. UNCHANGED <<loop, net, tasks>> /\ asked'[q] = asked[q] /\ answers'[q] = answers[q]
    BY <1>4 DEF HubAssigns
  <2> HIDE DEF msg
  <2> QED BY <1>3, <2>1, <2>2, <2>3
<1>5. ASSUME NEW l \in Lap, HubLaps(l) PROVE Single(q)'
  <2> DEFINE msg == [kind |-> "lap", id |-> l]
  <2>1. msg \in HubLine /\ msg # [kind |-> "request", id |-> q]
    BY DEF HubLine
  <2>2. \A v \in Worker : line'[v] = line[v] \/ line'[v] = Append(line[v], msg)
    BY <1>0, <1>5 DEF HubLaps, SendFirst
  <2>3. UNCHANGED <<loop, net, tasks>> /\ asked'[q] = asked[q] /\ answers'[q] = answers[q]
    BY <1>5 DEF HubLaps
  <2> HIDE DEF msg
  <2> QED BY <1>3, <2>1, <2>2, <2>3
<1>6. ASSUME NEW r \in Request, HubRequests(r) PROVE Single(q)'
  <2> DEFINE msg == [kind |-> "request", id |-> r]
  <2>1. msg \in HubLine BY DEF HubLine
  <2>2. /\ UNCHANGED <<loop, net, tasks, answers>>
        /\ asked[r] = <<>> /\ asked' = [asked EXCEPT ![r] = plan] /\ plan \in Plan
        /\ plan[1] \in Worker /\ line' = [line EXCEPT ![plan[1]] = Append(line[plan[1]], msg)]
    BY <1>0, <1>6, EndFacts DEF HubRequests, SendFirst
  <2>3. CASE q # r
    <3>1. msg # [kind |-> "request", id |-> q] BY <2>3
    <3>2. \A v \in Worker : line'[v] = line[v] \/ line'[v] = Append(line[v], msg)
      BY <1>0, <2>2
    <3>3. asked'[q] = asked[q] /\ answers'[q] = answers[q] BY <1>0, <2>2, <2>3
    <3> HIDE DEF msg
    <3> QED BY <1>3, <2>1, <2>2, <3>1, <3>2, <3>3
  <2>4. CASE q = r
    <3>1. answers[q] = <<>> /\ ~InLine(q) /\ ~InLoop(q) /\ ~InNet(q) /\ ~InTask(q)
      BY <2>2, <2>4 DEF Single, Unasked, UnderWay
    <3>2. ~InLoop(q)' /\ ~InNet(q)' /\ ~InTask(q)' BY <1>2, <2>2, <3>1
    <3>3. asked'[q] # <<>> /\ answers'[q] = <<>> BY <1>0, <2>2, <2>4, <3>1
    <3>4. ASSUME NEW v \in Worker, NEW i \in 1 .. Len(line'[v]), Queued(q, v, i)'
          PROVE  v = plan[1] /\ i = Len(line[plan[1]]) + 1
      <4>1. ~Queued(q, v, i) BY <3>1 DEF InLine, Queued
      <4>2. CASE v # plan[1]
        <5>1. line'[v] = line[v] BY <1>0, <2>2, <4>2
        <5> QED BY <3>4, <4>1, <5>1 DEF Queued
      <4>3. CASE v = plan[1]
        <5>1. line'[v] = Append(line[v], msg) /\ line[v] \in Seq(HubLine) BY <1>0, <2>2, <4>3
        <5>2. i \in 1 .. Len(line[v]) => Queued(q, v, i)
          <6> HIDE DEF HubLine, msg
          <6> QED BY <2>1, <3>4, <5>1, AppendFacts DEF Queued
        <5>3. i = Len(line[v]) + 1
          <6> HIDE DEF HubLine, msg
          <6> QED BY <2>1, <4>1, <5>1, <5>2, AppendFacts
        <5> QED BY <4>3, <5>3
      <4> QED BY <4>2, <4>3
    <3>5. \A w, v \in Worker : \A i \in 1 .. Len(line'[w]), j \in 1 .. Len(line'[v]) :
            Queued(q, w, i)' /\ Queued(q, v, j)' => w = v /\ i = j
      BY <3>4
    <3> QED BY <3>2, <3>3, <3>5, SingleQueued
  <2> QED BY <2>3, <2>4
<1> QED BY <1>4, <1>5, <1>6

\* a worker's loop takes a request out of its line, and a posted one out of the loop
LEMMA LoopCopies ==
  ASSUME TypeOK, RouteInv, NEW q \in Request, Single(q),
         NEW w \in Worker, LoopNext(w) \/ SetupEnds(w)
  PROVE  Single(q)'
<1> USE DEF hub, worker, history
<1>0. loop \in [Worker -> Posting \cup {None}] BY DEF TypeOK
<1>1. UNCHANGED loop => (\A v \in Worker : Posted(q, v)' => Posted(q, v)) /\ (InLoop(q)' => InLoop(q))
  BY DEF Posted, InLoop
<1>2. ASSUME loop' = [loop EXCEPT ![w] = None]
      PROVE  (\A v \in Worker : Posted(q, v)' => Posted(q, v))
  BY <1>0, <1>2 DEF Posted
<1>3. UNCHANGED line => (InLine(q)' => InLine(q)) BY DEF InLine, Queued
<1>4. UNCHANGED tasks => (\A t \in tasks' : Handled(q, t) => t \in tasks) /\ (InTask(q)' => InTask(q))
  BY DEF InTask
<1>5. ASSUME NEW m, m.kind = "lap" \/ m.id # q, Connects(m) \/ UNCHANGED net
      PROVE  (\A n \in net' : Sent(q, n) => n \in net) /\ (InNet(q)' => InNet(q))
  BY <1>5 DEF Connects, Sent, InNet
<1>6. CASE TakeAssign(w)
  <2>1. Keeps(q, w)
    BY <1>1, <1>4, <1>6, TakesKeeps DEF TakeAssign, Keeps
  <2> QED BY <2>1, SingleKept
<1>7. CASE TakeLap(w)
  <2>1. \A n \in net' : Sent(q, n) => n \in net
    <3>1. [kind |-> "lap", to |-> LapHop(w, Head(line[w]).id), id |-> Head(line[w]).id].kind = "lap"
      OBVIOUS
    <3> QED BY <1>5, <1>7, <3>1 DEF TakeLap, Relays, Lost
  <2>2. Keeps(q, w)
    BY <1>1, <1>4, <1>7, <2>1, TakesKeeps DEF TakeLap, Keeps
  <2> QED BY <2>2, SingleKept
<1>8. CASE TakeRequest(w)
  <2>0. /\ Takes(w, "request") /\ Admits(w, Head(line[w]).id)
        /\ UNCHANGED <<asked, net, tasks>>
    BY <1>8 DEF TakeRequest
  <2>1. PICK r \in Request : r = Head(line[w]).id BY <2>0, HeadFacts
  <2>2. \/ Answers(r, "NOT_READY", w) /\ UNCHANGED loop
        \/ /\ loop' = [loop EXCEPT ![w] = [id |-> r, next |-> place[w].next]]
           /\ UNCHANGED answers
    BY <2>0, <2>1 DEF Admits
  <2>3. loop[w] = None BY <2>0 DEF Takes
  <2>4. /\ answers[r] = <<>> => Len(answers'[r]) <= 1
        /\ q # r => answers'[q] = answers[q]
    BY <2>2, AnswersFirst
  <2>5. CASE q # r
    <3>1. \A v \in Worker : Posted(q, v)' => Posted(q, v)
      BY <1>0, <2>2, <2>5 DEF Posted
    <3>2. Keeps(q, w)
      BY <1>4, <2>0, <2>4, <2>5, <3>1, TakesKeeps DEF Keeps
    <3> QED BY <3>2, SingleKept
  <2>6. CASE q = r
    <3>1. /\ answers[q] = <<>> /\ asked[q] # <<>>
          /\ ~InLine(q)' /\ ~InLoop(q) /\ ~InNet(q) /\ ~InTask(q)
      BY <2>0, <2>1, <2>6, TakenFacts
    <3>2. ~InNet(q)' /\ ~InTask(q)' BY <1>4, <2>0, <3>1 DEF InNet
    <3>3. CASE Answers(r, "NOT_READY", w) /\ UNCHANGED loop
      <4>1. ~UnderWay(q)' BY <1>1, <3>1, <3>2, <3>3 DEF UnderWay
      <4> QED BY <2>0, <2>4, <2>6, <3>1, <4>1, SingleGone
    <3>4. CASE /\ loop' = [loop EXCEPT ![w] = [id |-> r, next |-> place[w].next]]
               /\ UNCHANGED answers
      <4>1. \A v \in Worker : Posted(q, v)' => v = w
        BY <1>0, <3>1, <3>4 DEF Posted, InLoop
      <4> QED BY <2>0, <3>1, <3>2, <3>4, <4>1, SinglePosted
    <3> QED BY <2>2, <3>3, <3>4
  <2> QED BY <2>5, <2>6
<1>9. CASE PostAnswered(w)
  <2>0. /\ loop[w] # None /\ loop' = [loop EXCEPT ![w] = None]
        /\ UNCHANGED <<asked, line, tasks>>
    BY <1>9 DEF PostAnswered
  <2>1. PICK r \in Request : r = loop[w].id BY <1>0, <2>0 DEF Posting
  <2> DEFINE m == [kind |-> "forward", to |-> loop[w].next, id |-> loop[w].id]
  <2>2. \/ Answers(r, "text", w) /\ UNCHANGED net
        \/ (Connects(m) \/ UNCHANGED net) /\ UNCHANGED answers
    BY <1>9, <2>1 DEF PostAnswered, Lost
  <2>3. /\ answers[r] = <<>> => Len(answers'[r]) <= 1
        /\ q # r => answers'[q] = answers[q]
    BY <2>2, AnswersFirst
  <2>4. CASE q # r
    <3>1. m.id # q BY <2>1, <2>4
    <3>2. \A n \in net' : Sent(q, n) => n \in net
      <4> HIDE DEF m
      <4> QED BY <1>5, <2>2, <3>1
    <3>3. Keeps(q, None)
      BY <1>2, <1>4, <2>0, <2>3, <2>4, <3>2, LinesKeep DEF Keeps
    <3> QED BY <3>3, SingleKept
  <2>5. CASE q = r
    <3>1. /\ answers[q] = <<>> /\ asked[q] # <<>>
          /\ ~InLine(q) /\ ~InLoop(q)' /\ ~InNet(q) /\ ~InTask(q)
      BY <2>0, <2>1, <2>5, PostedFacts
    <3>2. ~InLine(q)' /\ ~InTask(q)' BY <1>3, <1>4, <2>0, <3>1
    <3>3. CASE UNCHANGED net
      <4>1. ~UnderWay(q)' BY <3>1, <3>2, <3>3 DEF UnderWay, InNet
      <4> QED BY <2>0, <2>3, <2>5, <3>1, <4>1, SingleGone
    <3>4. CASE Connects(m) /\ UNCHANGED answers
      <4>1. \A n \in net' : Sent(q, n) => n = m
        BY <3>1, <3>4 DEF Connects, InNet
      <4> HIDE DEF m
      <4> QED BY <2>0, <3>1, <3>2, <3>4, <4>1, SingleSent
    <3> QED BY <2>2, <3>3, <3>4
  <2> QED BY <2>4, <2>5
<1>10. CASE PostFails(w)
  <2>0. /\ loop[w] # None /\ loop' = [loop EXCEPT ![w] = None]
        /\ UNCHANGED <<asked, line, net, tasks>>
    BY <1>10 DEF PostFails
  <2>1. PICK r \in Request : r = loop[w].id BY <1>0, <2>0 DEF Posting
  <2>2. /\ answers[r] = <<>> => Len(answers'[r]) <= 1
        /\ q # r => answers'[q] = answers[q]
    BY <1>10, <2>1, AnswersFirst DEF PostFails
  <2>3. CASE q # r
    <3>1. Keeps(q, None)
      BY <1>2, <1>4, <2>0, <2>2, <2>3, LinesKeep DEF Keeps
    <3> QED BY <3>1, SingleKept
  <2>4. CASE q = r
    <3>1. /\ answers[q] = <<>> /\ asked[q] # <<>>
          /\ ~InLine(q) /\ ~InLoop(q)' /\ ~InNet(q) /\ ~InTask(q)
      BY <2>0, <2>1, <2>4, PostedFacts
    <3>2. ~UnderWay(q)' BY <1>3, <1>4, <2>0, <3>1 DEF UnderWay, InNet
    <3> QED BY <2>0, <2>2, <2>4, <3>1, <3>2, SingleGone
  <2> QED BY <2>3, <2>4
<1>11. CASE SetupEnds(w)
  <2>1. Keeps(q, None)
    BY <1>1, <1>4, <1>11, LinesKeep DEF SetupEnds, Keeps
  <2> QED BY <2>1, SingleKept
<1> QED BY <1>6, <1>7, <1>8, <1>9, <1>10, <1>11 DEF LoopNext

\* an inbound task takes a request out of its message, and out of the task
LEMMA InboundCopies ==
  ASSUME TypeOK, RouteInv, NEW q \in Request, Single(q),
         \/ \E m \in net : Receive(m) \/ ReceiveLap(m) \/ CutOff(m)
         \/ \E t \in tasks : TaskNext(t)
  PROVE  Single(q)'
<1> USE DEF hub, worker, history
<1>1. UNCHANGED loop => (\A v \in Worker : Posted(q, v)' => Posted(q, v)) /\ (InLoop(q)' => InLoop(q))
  BY DEF Posted, InLoop
<1>2. UNCHANGED line => (InLine(q)' => InLine(q)) BY DEF InLine, Queued
<1>3. UNCHANGED tasks => (\A t \in tasks' : Handled(q, t) => t \in tasks) /\ (InTask(q)' => InTask(q))
  BY DEF InTask
<1>4. ASSUME NEW m \in net, Receive(m) PROVE Single(q)'
  <2> DEFINE t == [at |-> "forward", worker |-> m.to, id |-> m.id]
  <2>0. /\ m.kind = "forward" /\ net' = net \ {m} /\ tasks' = tasks \cup {t}
        /\ UNCHANGED <<asked, answers, line, loop>>
    BY <1>4 DEF Receive
  <2>1. CASE q # m.id
    <3>1. \A u \in tasks' : Handled(q, u) => u \in tasks BY <2>0, <2>1 DEF Handled
    <3>2. Keeps(q, None) BY <1>1, <2>0, <3>1, LinesKeep DEF Keeps
    <3> QED BY <3>2, SingleKept
  <2>2. CASE q = m.id
    <3>1. /\ answers[q] = <<>> /\ asked[q] # <<>>
          /\ ~InLine(q) /\ ~InLoop(q) /\ ~InTask(q)
          /\ \A n \in net : Sent(q, n) => n = m
      BY <2>0, <2>2, SentFacts
    <3>2. ~InNet(q)' BY <2>0, <3>1 DEF InNet
    <3>3. \A u \in tasks' : Handled(q, u) => u = t BY <2>0, <3>1 DEF InTask
    <3> HIDE DEF t
    <3> QED BY <1>1, <1>2, <2>0, <3>1, <3>2, <3>3, SingleHandled
  <2> QED BY <2>1, <2>2
<1>5. ASSUME NEW m \in net, ReceiveLap(m) PROVE Single(q)'
  <2>1. m.kind = "lap" /\ UNCHANGED <<asked, answers, line, loop, tasks>>
    BY <1>5 DEF ReceiveLap
  <2>2. [m EXCEPT !.to = LapHop(m.to, m.id)].kind = "lap"
    BY <2>1 DEF TypeOK, Hop
  <2>3. \A n \in net' : Sent(q, n) => n \in net
    BY <1>5, <2>2 DEF ReceiveLap, Sent
  <2>4. Keeps(q, None) BY <1>1, <1>3, <2>1, <2>3, LinesKeep DEF Keeps
  <2> QED BY <2>4, SingleKept
<1>6. ASSUME NEW t \in tasks, t.id # q, Forwarded(t) \/ Generated(t) \/ RpcFails(t)
      PROVE  Single(q)'
  <2>0. t.id \in Request /\ t.worker \in Worker /\ [t EXCEPT !.at = "generate"].id = t.id
    BY DEF TypeOK, Task
  <2>1. UNCHANGED <<asked, line, loop>>
    BY <1>6 DEF Forwarded, Generated, RpcFails
  <2>2. answers'[q] = answers[q]
    BY <1>6, <2>0, AnswersFirst DEF Forwarded, Generated, RpcFails
  <2>3. \A u \in tasks' : Handled(q, u) => u \in tasks
    BY <1>6, <2>0 DEF Forwarded, Generated, RpcFails, Handled
  <2>4. \A n \in net' : Sent(q, n) => n \in net
    BY <1>6 DEF Forwarded, Generated, RpcFails, Connects, Lost, Sent
  <2>5. Keeps(q, None) BY <1>1, <2>1, <2>2, <2>3, <2>4, LinesKeep DEF Keeps
  <2> QED BY <2>5, SingleKept
<1>7. ASSUME NEW t \in tasks, t.id = q, Forwarded(t) \/ Generated(t) \/ RpcFails(t)
      PROVE  Single(q)'
  <2>0. t.worker \in Worker /\ [t EXCEPT !.at = "generate"].id = q
    BY <1>7 DEF TypeOK, Task
  <2>1. /\ answers[q] = <<>> /\ asked[q] # <<>>
        /\ ~InLine(q) /\ ~InLoop(q) /\ ~InNet(q)
        /\ \A u \in tasks : Handled(q, u) => u = t
    BY <1>7, TaskFacts
  <2>2. UNCHANGED <<asked, line, loop>>
    BY <1>7 DEF Forwarded, Generated, RpcFails
  <2>3. ~InLine(q)' /\ ~InLoop(q)' BY <1>1, <1>2, <2>1, <2>2
  <2>4. Len(answers'[q]) <= 1
    BY <1>7, <2>0, <2>1, AnswersFirst DEF Forwarded, Generated, RpcFails
  <2>5. ASSUME tasks' = tasks \ {t} PROVE ~InTask(q)'
    BY <2>1, <2>5 DEF InTask
  <2>6. CASE Generated(t) \/ RpcFails(t)
    <3>1. tasks' = tasks \ {t} /\ UNCHANGED net
      BY <2>6 DEF Generated, RpcFails
    <3>2. ~UnderWay(q)' BY <2>1, <2>3, <2>5, <3>1 DEF UnderWay, InNet
    <3> QED BY <2>1, <2>2, <2>4, <3>2, SingleGone
  <2>7. CASE Forwarded(t) /\ place[t.worker].is_last
    <3> DEFINE u == [t EXCEPT !.at = "generate"]
    <3>1. tasks' = (tasks \ {t}) \cup {u} /\ UNCHANGED <<answers, net>>
      BY <2>7 DEF Forwarded
    <3>2. \A s \in tasks' : Handled(q, s) => s = u BY <2>1, <3>1
    <3>3. ~InNet(q)' BY <2>1, <3>1 DEF InNet
    <3> HIDE DEF u
    <3> QED BY <2>1, <2>2, <2>3, <3>1, <3>2, <3>3, SingleHandled
  <2>8. CASE Forwarded(t) /\ ~place[t.worker].is_last
    <3> DEFINE m == [kind |-> "forward", to |-> place[t.worker].next, id |-> t.id]
    <3>1. /\ tasks' = tasks \ {t} /\ UNCHANGED answers
          /\ Connects(m) \/ UNCHANGED net
      BY <2>8 DEF Forwarded, Lost
    <3>2. \A n \in net' : Sent(q, n) => n = m BY <2>1, <3>1 DEF Connects, InNet
    <3> HIDE DEF m
    <3> QED BY <2>1, <2>2, <2>3, <2>5, <3>1, <3>2, SingleSent
  <2> QED BY <1>7, <2>6, <2>7, <2>8
<1>8. ASSUME NEW m \in net, CutOff(m) PROVE Single(q)'
  <2>1. Keeps(q, None) BY <1>1, <1>3, <1>8, LinesKeep DEF CutOff, Keeps
  <2> QED BY <2>1, SingleKept
<1> QED BY <1>4, <1>5, <1>6, <1>7, <1>8 DEF TaskNext

LEMMA CopyStep == TypeOK /\ RouteInv /\ CopyInv /\ [Next]_vars => CopyInv'
<1> SUFFICES ASSUME TypeOK, RouteInv, CopyInv, [Next]_vars, NEW q \in Request PROVE Single(q)'
  BY DEF CopyInv, Single
<1>1. Single(q) BY DEF CopyInv, Single
<1>2. CASE UNCHANGED vars
  <2>1. Keeps(q, None)
    BY <1>2, LinesKeep DEF vars, hub, worker, history, Keeps, Posted
  <2> QED BY <1>1, <2>1, SingleKept
<1> QED BY <1>1, <1>2, HubCopies, LoopCopies, InboundCopies DEF Next

\* A request is answered once at most, and is gone when it is: whatever the hub
\* assigns meanwhile, whatever fails, and however many workers relay it.
THEOREM AnsweredAtMostOnce == Spec => []AnsweredOnce
<1>1. Init => CopyInv
  BY DEF Init, CopyInv, OneEach, OnePlace, Answered, Unasked, UnderWay, InLine, InLoop, InNet,
         InTask, Queued, Posted
<1>2. Spec => [](TypeOK /\ RouteInv /\ CopyInv)
  BY <1>1, InitRoute, TypeStep, RouteStep, CopyStep, PTL DEF Spec
<1>3. CopyInv => AnsweredOnce
  BY DEF CopyInv, Answered, AnsweredOnce
<1> QED BY <1>2, <1>3, PTL
=============================================================================

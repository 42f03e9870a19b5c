----------------------------- MODULE PassProofs -----------------------------
(* A theorem about Pipeline: a request that no assignment disturbs is        *)
(* answered by the whole pipeline, in order, for any number of workers,      *)
(* pipelines, requests, heartbeats and assignments and whatever fails.       *)
EXTENDS PipelineProofs, SequenceTheorems

\* a message that comes last in a line
LEMMA Appended ==
  ASSUME TypeOK, NEW v \in Worker, NEW msg \in HubLine, line'[v] = Append(line[v], msg)
  PROVE  /\ Len(line'[v]) = Len(line[v]) + 1 /\ Len(line[v]) \in Nat
         /\ line'[v][Len(line[v]) + 1] = msg
         /\ \A i \in 1 .. Len(line[v]) : line'[v][i] = line[v][i]
<1>1. line[v] \in Seq(HubLine) BY DEF TypeOK
<1> HIDE DEF HubLine
<1> QED BY <1>1, AppendFacts

\* what the hub sends to the first worker of its pipeline
LEMMA FirstGets ==
  ASSUME TypeOK, plan # <<>>, NEW msg \in HubLine, SendFirst(msg), NEW v \in Worker
  PROVE  /\ plan \in Plan /\ plan[1] \in Worker
         /\ line'[v] = line[v] \/ (v = plan[1] /\ line'[v] = Append(line[v], msg))
<1>1. plan \in Plan /\ plan[1] \in Worker BY EndFacts DEF TypeOK
<1> QED BY <1>1 DEF TypeOK, SendFirst
----------------------------------------------------------------------------
(* The places of the members of the pipeline assigned last.                  *)

LEMMA PlaceKept ==
  ASSUME PlaceInv, UNCHANGED <<plan, place>>,
         \A l \in Lap : laps[l].plan # <<>> => laps'[l].plan = laps[l].plan,
         TypeOK, RouteInv,
         \A v \in Worker :
           \/ line'[v] = line[v]
           \/ \E msg \in HubLine : /\ line'[v] = Append(line[v], msg)
                                   /\ msg.kind # "assign" /\ OfPlan(msg)'
  PROVE  PlaceInv'
<1> SUFFICES ASSUME NEW w \in Members(plan)
             PROVE  \E i \in 0 .. Len(line'[w]) : Follows(w, i)'
  BY DEF PlaceInv
<1>1. w \in Worker /\ line[w] \in Seq(HubLine)
  BY EndFacts DEF TypeOK, Members
<1>2. PICK i \in 0 .. Len(line[w]) : Follows(w, i) BY DEF PlaceInv
<1>3. ASSUME NEW j \in 1 .. Len(line[w]), NEW msg, msg = line[w][j], OfPlan(msg)
      PROVE  OfPlan(msg)'
  <2>1. msg \in HubLine BY <1>1, <1>3
  <2>2. msg.kind = "lap" => msg.id \in Lap /\ laps[msg.id].plan # <<>>
    BY <1>1, <1>3, <2>1 DEF HubLine, RouteInv, LineInv
  <2> QED BY <1>3, <2>2 DEF OfPlan
<1>4. Entry(plan, w)' = Entry(plan, w) /\ place'[w] = place[w] OBVIOUS
<1>5. CASE line'[w] = line[w]
  <2>1. \A j \in 1 .. Len(line'[w]) : i <= j => OfPlan(line[w][j])'
    BY <1>2, <1>3, <1>5 DEF Follows, OfPlan
  <2> QED BY <1>2, <1>4, <1>5, <2>1 DEF Follows
<1>6. ASSUME NEW msg \in HubLine, line'[w] = Append(line[w], msg), OfPlan(msg)'
      PROVE  \E n \in 0 .. Len(line'[w]) : Follows(w, n)'
  <2>1. /\ Len(line'[w]) = Len(line[w]) + 1 /\ Len(line[w]) \in Nat
        /\ line'[w][Len(line[w]) + 1] = msg
        /\ \A j \in 1 .. Len(line[w]) : line'[w][j] = line[w][j]
    BY <1>1, <1>6, Appended
  <2>2. \A j \in 1 .. Len(line'[w]) : i <= j => OfPlan(line[w][j])'
    <3> SUFFICES ASSUME NEW j \in 1 .. Len(line'[w]), i <= j PROVE OfPlan(line[w][j])'
      OBVIOUS
    <3>1. CASE j = Len(line[w]) + 1 BY <1>6, <2>1, <3>1 DEF OfPlan
    <3>2. CASE j \in 1 .. Len(line[w])
      <4>1. OfPlan(line[w][j]) BY <1>2, <3>2 DEF Follows
      <4>2. line'[w][j] = line[w][j] BY <2>1, <3>2
      <4> QED BY <1>3, <3>2, <4>1, <4>2 DEF OfPlan
    <3> QED BY <2>1, <3>1, <3>2
  <2>3. i # 0 => line'[w][i] = line[w][i] BY <2>1
  <2>4. i \in 0 .. Len(line'[w]) BY <2>1
  <2> QED BY <1>2, <1>4, <2>2, <2>3, <2>4 DEF Follows
<1> QED BY <1>1, <1>5, <1>6

\* a message that is taken takes effect
LEMMA PlaceTaken ==
  ASSUME TypeOK, RouteInv, PlaceInv, NEW w \in Worker, NEW kind, Takes(w, kind),
         UNCHANGED plan, \A l \in Lap : laps'[l].plan = laps[l].plan,
         \A v \in Worker : v # w => place'[v] = place[v],
         kind = "assign" => place'[w] = Entry(Head(line[w]).plan, w),
         kind = "lap" => place'[w] = Entry(laps[Head(line[w]).id].plan, w),
         kind \notin {"assign", "lap"} => place'[w] = place[w]
  PROVE  PlaceInv'
<1> SUFFICES ASSUME NEW v \in Members(plan)
             PROVE  \E i \in 0 .. Len(line'[v]) : Follows(v, i)'
  BY DEF PlaceInv
<1>1. v \in Worker /\ line[v] \in Seq(HubLine)
  BY EndFacts DEF TypeOK, Members
<1>2. PICK i \in 0 .. Len(line[v]) : Follows(v, i) BY DEF PlaceInv
<1>3. ASSUME NEW j \in 1 .. Len(line[v]), NEW msg, msg = line[v][j], OfPlan(msg)
      PROVE  OfPlan(msg)'
  <2>1. msg \in HubLine BY <1>1, <1>3
  <2>2. msg.kind = "lap" => msg.id \in Lap
    BY <2>1 DEF HubLine
  <2> QED BY <1>3, <2>2 DEF OfPlan
<1>4. Entry(plan, v)' = Entry(plan, v) OBVIOUS
<1>5. CASE v # w
  <2>1. line'[v] = line[v] /\ place'[v] = place[v] BY <1>1, <1>5, TakesFacts
  <2>2. \A j \in 1 .. Len(line'[v]) : i <= j => OfPlan(line[v][j])'
    BY <1>2, <1>3, <2>1 DEF Follows, OfPlan
  <2> QED BY <1>2, <1>4, <2>1, <2>2 DEF Follows
<1>6. CASE v = w
  <2>1. /\ 1 \in 1 .. Len(line[v]) /\ Head(line[v]) = line[v][1] /\ line[v][1].kind = kind
        /\ Len(line'[v]) = Len(line[v]) - 1 /\ Len(line[v]) \in Nat
        /\ \A j \in 1 .. Len(line'[v]) : j + 1 \in 1 .. Len(line[v]) /\ line'[v][j] = line[v][j + 1]
    BY <1>1, <1>6, TakesFacts
  <2> DEFINE n == IF i = 0 THEN 0 ELSE i - 1
  <2>2. n \in 0 .. Len(line'[v]) BY <2>1
  <2>3. \A j \in 1 .. Len(line'[v]) : n <= j => OfPlan(line[v][j])'
    <3> SUFFICES ASSUME NEW j \in 1 .. Len(line'[v]), n <= j PROVE OfPlan(line[v][j])'
      OBVIOUS
    <3>1. j + 1 \in 1 .. Len(line[v]) /\ line'[v][j] = line[v][j + 1] /\ i <= j + 1 BY <2>1
    <3>2. OfPlan(line[v][j + 1]) BY <1>2, <3>1 DEF Follows
    <3> HIDE DEF n
    <3> QED BY <1>3, <3>1, <3>2 DEF OfPlan
  <2>4. CASE i >= 2
    <3>1. n # 0 /\ n + 1 = i /\ n \in 1 .. Len(line'[v]) BY <2>1, <2>4
    <3>2. line'[v][n].kind = "assign" BY <1>2, <2>1, <2>4, <3>1 DEF Follows
    <3> HIDE DEF n
    <3> QED BY <2>2, <2>3, <3>1, <3>2 DEF Follows
  <2>5. CASE i \in {0, 1}
    <3>1. n = 0 BY <2>5
    <3>2. OfPlan(line[v][1]) BY <1>2, <2>1, <2>5 DEF Follows
    <3>3. place'[v] = Entry(plan, v)
      <4>1. i = 1 => kind = "assign" BY <1>2, <2>1 DEF Follows
      <4>2. kind = "assign" => place'[v] = Entry(plan, v) BY <1>6, <2>1, <3>2 DEF OfPlan
      <4>3. kind = "lap" => place'[v] = Entry(plan, v) BY <1>6, <2>1, <3>2 DEF OfPlan
      <4>4. i = 0 /\ kind \notin {"assign", "lap"} => place'[v] = Entry(plan, v)
        BY <1>2, <1>6 DEF Follows
      <4> QED BY <2>5, <4>1, <4>2, <4>3, <4>4
    <3> HIDE DEF n
    <3>4. Follows(v, n)' BY <1>4, <2>3, <3>1, <3>3 DEF Follows
    <3> QED BY <2>2, <3>4
  <2> QED BY <1>2, <2>4, <2>5
<1> QED BY <1>5, <1>6

LEMMA PlaceStep == TypeOK /\ RouteInv /\ PlaceInv /\ [Next]_vars => PlaceInv'
<1> SUFFICES ASSUME TypeOK, RouteInv, PlaceInv, [Next]_vars PROVE PlaceInv'
  OBVIOUS
<1> USE DEF hub, worker, history
<1>1. ASSUME UNCHANGED <<plan, place, line>>, \A l \in Lap : laps'[l].plan = laps[l].plan
      PROVE  PlaceInv'
  BY <1>1, PlaceKept
<1>2. ASSUME NEW p \in Plan, HubAssigns(p) PROVE PlaceInv'
  <2> SUFFICES ASSUME NEW w \in Members(p)
               PROVE  \E i \in 0 .. Len(line'[w]) : Follows(w, i)'
    BY <1>2 DEF PlaceInv, HubAssigns
  <2> DEFINE msg == [kind |-> "assign", plan |-> p]
  <2>1. w \in Worker /\ msg \in HubLine BY EndFacts DEF HubLine
  <2>2. line'[w] = Append(line[w], msg) BY <1>2, <2>1 DEF HubAssigns, TypeOK
  <2>3. /\ Len(line'[w]) = Len(line[w]) + 1 /\ Len(line[w]) \in Nat
        /\ line'[w][Len(line[w]) + 1] = msg
    <3> HIDE DEF msg
    <3> QED BY <2>1, <2>2, Appended
  <2>4. OfPlan(msg)' BY <1>2 DEF HubAssigns, OfPlan
  <2> DEFINE n == Len(line[w]) + 1
  <2>5. n \in 0 .. Len(line'[w]) /\ n # 0 /\ \A j \in 1 .. Len(line'[w]) : n <= j => j = n
    BY <2>3
  <2>6. line'[w][n] = msg /\ msg.kind = "assign" BY <2>3
  <2> HIDE DEF n, msg
  <2>7. \A j \in 1 .. Len(line'[w]) : n <= j => OfPlan(line[w][j])'
    BY <2>4, <2>5, <2>6 DEF OfPlan
  <2> QED BY <2>5, <2>6, <2>7 DEF Follows
<1>3. ASSUME NEW r \in Request, HubRequests(r) PROVE PlaceInv'
  <2> DEFINE msg == [kind |-> "request", id |-> r]
  <2>1. msg \in HubLine /\ msg.kind # "assign" /\ OfPlan(msg)' BY DEF HubLine, OfPlan
  <2>2. plan # <<>> /\ SendFirst(msg) /\ UNCHANGED <<plan, place, laps>>
    BY <1>3 DEF HubRequests
  <2> HIDE DEF msg
  <2>3. \A v \in Worker : line'[v] = line[v] \/ line'[v] = Append(line[v], msg)
    BY <2>1, <2>2, FirstGets
  <2> QED BY <2>1, <2>2, <2>3, PlaceKept
<1>4. ASSUME NEW l \in Lap, HubLaps(l) PROVE PlaceInv'
  <2> DEFINE msg == [kind |-> "lap", id |-> l]
  <2>1. laps'[l].plan = plan /\ \A k \in Lap : k # l => laps'[k] = laps[k]
    BY <1>4 DEF HubLaps, TypeOK
  <2>2. plan # <<>> /\ SendFirst(msg) /\ UNCHANGED <<plan, place>> /\ laps[l].plan = <<>>
    BY <1>4 DEF HubLaps
  <2>3. msg \in HubLine /\ msg.kind # "assign" /\ OfPlan(msg)'
    BY <2>1, <2>2 DEF HubLine, OfPlan
  <2> HIDE DEF msg
  <2>4. \A v \in Worker : line'[v] = line[v] \/ line'[v] = Append(line[v], msg)
    BY <2>2, <2>3, FirstGets
  <2> QED BY <2>1, <2>2, <2>3, <2>4, PlaceKept
<1>5. ASSUME NEW w \in Worker, TakeAssign(w) PROVE PlaceInv'
  <2>1. Takes(w, "assign") /\ Adopts(w, Entry(Head(line[w]).plan, w)) /\ UNCHANGED <<plan, laps>>
    BY <1>5 DEF TakeAssign
  <2>2. /\ place'[w] = Entry(Head(line[w]).plan, w)
        /\ \A v \in Worker : v # w => place'[v] = place[v]
    BY <2>1 DEF Adopts, TypeOK
  <2> QED BY <2>1, <2>2, PlaceTaken
<1>6. ASSUME NEW w \in Worker, TakeRequest(w) PROVE PlaceInv'
  <2>1. Takes(w, "request") /\ UNCHANGED <<plan, laps, place>>
    BY <1>6 DEF TakeRequest
  <2> QED BY <2>1, PlaceTaken
<1>7. ASSUME NEW w \in Worker, TakeLap(w) PROVE PlaceInv'
  <2> DEFINE l == Head(line[w]).id
  <2>1. /\ Takes(w, "lap") /\ Adopts(w, Entry(laps[l].plan, w)) /\ UNCHANGED plan
        /\ Seen(w, l) \/ Beats(w, l)
    BY <1>7 DEF TakeLap
  <2>2. /\ place'[w] = Entry(laps[l].plan, w)
        /\ \A v \in Worker : v # w => place'[v] = place[v]
    BY <2>1 DEF Adopts, TypeOK
  <2>3. l \in Lap BY <2>1, HeadFacts
  <2>4. \A k \in Lap : laps'[k].plan = laps[k].plan
    <3> HIDE DEF l
    <3> QED BY <2>1, <2>3, LapsType
  <2> QED BY <2>1, <2>2, <2>4, PlaceTaken
<1>8. ASSUME NEW w \in Worker, PostAnswered(w) \/ PostFails(w) \/ SetupEnds(w) PROVE PlaceInv'
  <2>1. UNCHANGED <<plan, place, line, laps>> BY <1>8 DEF PostAnswered, PostFails, SetupEnds
  <2> QED BY <1>1, <2>1
<1>9. ASSUME NEW m \in net, Receive(m) \/ CutOff(m) PROVE PlaceInv'
  <2>1. UNCHANGED <<plan, place, line, laps>> BY <1>9 DEF Receive, CutOff
  <2> QED BY <1>1, <2>1
<1>10. ASSUME NEW m \in net, ReceiveLap(m) PROVE PlaceInv'
  <2>1. /\ m.kind = "lap" /\ UNCHANGED <<plan, place, line>>
        /\ Seen(m.to, m.id) \/ Beats(m.to, m.id)
    BY <1>10 DEF ReceiveLap
  <2>2. m.id \in Lap /\ m.to \in Worker BY <2>1 DEF TypeOK, Hop
  <2>3. \A k \in Lap : laps'[k].plan = laps[k].plan BY <2>1, <2>2, LapsType
  <2> QED BY <1>1, <2>1, <2>3
<1>11. ASSUME NEW t \in tasks, TaskNext(t) PROVE PlaceInv'
  <2>1. UNCHANGED <<plan, place, line, laps>> BY <1>11 DEF TaskNext, Forwarded, Generated, RpcFails
  <2> QED BY <1>1, <2>1
<1>12. CASE UNCHANGED vars
  BY <1>1, <1>12 DEF vars
<1> QED BY <1>2, <1>3, <1>4, <1>5, <1>6, <1>7, <1>8, <1>9, <1>10, <1>11, <1>12 DEF Next, LoopNext
----------------------------------------------------------------------------
(* Requests on their way along the pipeline.                                 *)

USE PlanAssumption, NoneAssumption

\* once no assignment is to be read, the members are where the hub has put them
LEMMA PlacesHold ==
  ASSUME TypeOK, PlaceInv, Settled, NEW w \in Members(plan)
  PROVE  w \in Worker /\ plan \in Plan /\ place[w] = Entry(plan, w)
<1>1. w \in Worker /\ plan \in Plan BY EndFacts DEF TypeOK, Members
<1>2. PICK i \in 0 .. Len(line[w]) : Follows(w, i) BY DEF PlaceInv
<1>3. i = 0 BY <1>1, <1>2 DEF Follows, Settled
<1> QED BY <1>1, <1>2, <1>3 DEF Follows

\* the next hop of the k-th worker is the next worker
LEMMA NextFacts ==
  ASSUME NEW p \in Plan, NEW k \in 1 .. Len(p)
  PROVE  /\ p[k] \in Members(p) /\ Index(p, p[k]) = k
         /\ NextIn(p, p[k]) = None => k = Len(p)
         /\ NextIn(p, p[k]) # None => k + 1 \in 1 .. Len(p) /\ NextIn(p, p[k]) = p[k + 1]
         /\ Entry(p, p[k]).next = NextIn(p, p[k])
         /\ Entry(p, p[k]).is_last <=> k = Len(p)
<1>1. p[k] \in Members(p) BY DEF Members
<1>2. Index(p, p[k]) = k /\ Len(p) \in Nat /\ p \in Seq(Worker) BY <1>1, IndexFacts
<1>3. /\ NextIn(p, p[k]) # None => k + 1 \in 1 .. Len(p) /\ NextIn(p, p[k]) = p[k + 1]
      /\ Entry(p, p[k]).is_last <=> Entry(p, p[k]).next = None
  BY <1>1, <1>2, EntryFacts
<1>4. Entry(p, p[k]).next = NextIn(p, p[k]) BY DEF Entry
<1>5. NextIn(p, p[k]) = None => k = Len(p)
  <2>1. k < Len(p) => NextIn(p, p[k]) = p[k + 1] /\ p[k + 1] \in Worker BY <1>2 DEF NextIn
  <2> QED BY <1>2, <2>1
<1>6. k = Len(p) => NextIn(p, p[k]) = None BY <1>2 DEF NextIn
<1> QED BY <1>1, <1>2, <1>3, <1>4, <1>5, <1>6

\* running the layers takes a request one worker on
LEMMA RanOn ==
  ASSUME TypeOK, NEW r \in Request, NEW k \in 1 .. Len(asked[r]), Passed(r, k - 1),
         Ran(r, asked[r][k]), UNCHANGED asked
  PROVE  Passed(r, k)'
<1>1. /\ asked[r] \in Seq(Worker) /\ trail[r] \in Seq(Worker) /\ asked[r][k] \in Worker
      /\ Len(asked[r]) \in Nat
  BY DEF TypeOK
<1>2. Len(trail[r]) = k - 1 /\ \A i \in 1 .. (k - 1) : trail[r][i] = asked[r][i]
  BY DEF Passed
<1>3. trail'[r] = Append(trail[r], asked[r][k])
  <2>1. ~(Len(trail[r]) > Len(asked[r])) BY <1>1, <1>2
  <2> QED BY <2>1 DEF Ran, TypeOK
<1>4. /\ Len(trail'[r]) = k /\ trail'[r][k] = asked[r][k]
      /\ \A i \in 1 .. (k - 1) : trail'[r][i] = trail[r][i]
  BY <1>1, <1>2, <1>3
<1> QED BY <1>2, <1>4 DEF Passed

LEMMA RanOther ==
  ASSUME NEW q \in Request, NEW r \in Request, q # r, NEW w, Ran(r, w), TypeOK
  PROVE  trail'[q] = trail[q]
BY DEF Ran, TypeOK

\* a request that passed all workers passed its pipeline
LEMMA PassedAll ==
  ASSUME TypeOK, NEW r \in Request, Passed(r, Len(asked[r]))
  PROVE  trail[r] = asked[r]
<1>1. trail[r] \in Seq(Worker) /\ asked[r] \in Plan \cup {<<>>} BY DEF TypeOK
<1>2. asked[r] \in Seq(Worker)
  <2>1. <<>> \in Seq(Worker) OBVIOUS
  <2>2. asked[r] \in Plan => asked[r] \in Seq(Worker) BY EndFacts
  <2> QED BY <1>1, <2>1, <2>2
<1> QED BY <1>1, <1>2, SeqEqual DEF Passed

\* an answer that is none of r, or no text
LEMMA TextedKept ==
  ASSUME NEW r \in Request, answers'[r] = answers[r]
  PROVE  Texted(r)' = Texted(r)
BY DEF Texted

\* that all have read their assignments stays so until the hub assigns
LEMMA SettledKept ==
  ASSUME TypeOK, Settled,
         \A v \in Worker : \A i \in 1 .. Len(line'[v]) :
           \/ line'[v][i].kind = "request" \/ line'[v][i].kind = "lap"
           \/ \E j \in 1 .. Len(line[v]) : line'[v][i] = line[v][j]
  PROVE  Settled'
BY DEF Settled

\* the step leaves r where it is, and what r is on its way by
LEMMA PassKept ==
  ASSUME NEW r \in Request, PassOf(r), NEW x, Keeps(r, x),
         UnderWay(r)' => UNCHANGED plan /\ (Settled => Settled'),
         trail'[r] = trail[r],
         \A v \in Worker : Posted(r, v)' => loop'[v] = loop[v]
  PROVE  PassOf(r)'
<1> USE DEF Keeps
<1>1. /\ InLine(r)' => InLine(r)
      /\ InLoop(r)' => InLoop(r)
      /\ InNet(r)' => InNet(r)
      /\ InTask(r)' => InTask(r)
  BY DEF InLine, InLoop, InNet, InTask, Queued, Posted, Sent, Handled
<1>2. UnderWay(r)' => UnderWay(r) BY <1>1 DEF UnderWay
<1>3. asked'[r] = <<>> => trail'[r] = <<>> BY DEF PassOf
<1>4. Texted(r)' => trail'[r] = asked'[r] BY TextedKept DEF PassOf
<1>5. UnderWay(r)' => asked'[r] = plan' /\ Settled' BY <1>2 DEF PassOf
<1>6. ASSUME NEW k, Passed(r, k) PROVE Passed(r, k)' BY <1>6 DEF Passed
<1>7. OnWay(r)'
  <2>1. ASSUME NEW w \in Worker, NEW i \in 1 .. Len(line'[w]), Queued(r, w, i)'
        PROVE  w = plan'[1] /\ Passed(r, 0)'
    <3> DEFINE j == IF w = x THEN i + 1 ELSE i
    <3>1. Queued(r, w, j) BY <2>1
    <3>2. j \in 1 .. Len(line[w]) BY <3>1 DEF Queued
    <3>3. w = plan[1] /\ Passed(r, 0)
      <4> HIDE DEF j
      <4> QED BY <3>1, <3>2 DEF PassOf, OnWay
    <3>4. UnderWay(r)' BY <2>1 DEF UnderWay, InLine
    <3> QED BY <1>6, <3>3, <3>4
  <2>2. ASSUME NEW w \in Worker, Posted(r, w)'
        PROVE  w = plan'[1] /\ Passed(r, 0)' /\ loop'[w].next = NextIn(plan', w)
    <3>1. w = plan[1] /\ Passed(r, 0) /\ loop[w].next = NextIn(plan, w)
      BY <2>2 DEF PassOf, OnWay
    <3>2. UnderWay(r)' BY <2>2 DEF UnderWay, InLoop
    <3> QED BY <1>6, <2>2, <3>1, <3>2
  <2>3. ASSUME NEW m \in net', Sent(r, m)
        PROVE  \E k \in 1 .. Len(plan') : m.to = plan'[k] /\ Passed(r, k - 1)'
    <3>1. PICK k \in 1 .. Len(plan) : m.to = plan[k] /\ Passed(r, k - 1)
      BY <2>3 DEF PassOf, OnWay
    <3>2. UnderWay(r)' BY <2>3 DEF UnderWay, InNet, Sent
    <3> QED BY <1>6, <3>1, <3>2
  <2>4. ASSUME NEW t \in tasks', Handled(r, t)
        PROVE  IF t.at = "forward"
               THEN \E k \in 1 .. Len(plan') : t.worker = plan'[k] /\ Passed(r, k - 1)'
               ELSE Passed(r, Len(plan))'
    <3>1. IF t.at = "forward" THEN \E k \in 1 .. Len(plan) : t.worker = plan[k] /\ Passed(r, k - 1)
          ELSE Passed(r, Len(plan))
      BY <2>4 DEF PassOf, OnWay
    <3>2. UnderWay(r)' BY <2>4 DEF UnderWay, InTask, Handled
    <3>3. plan' = plan BY <3>2
    <3> QED BY <1>6, <3>1, <3>3 DEF Passed
  <2> QED BY <2>1, <2>2, <2>3, <2>4 DEF OnWay, Sent, Handled
<1> QED BY <1>3, <1>4, <1>5, <1>7 DEF PassOf

\* r is gone, with its text if it passed the pipeline
LEMMA PassGone ==
  ASSUME NEW r \in Request, ~UnderWay(r)', asked'[r] # <<>>, Texted(r)' => trail'[r] = asked'[r]
  PROVE  PassOf(r)'
<1>1. OnWay(r)'
  BY DEF OnWay, UnderWay, InLine, InLoop, InNet, InTask, Sent, Handled
<1> QED BY <1>1 DEF PassOf

\* r has moved, to where it is next
LEMMA PassMoved ==
  ASSUME NEW r \in Request, asked'[r] # <<>>, answers'[r] = <<>>,
         asked'[r] = plan', Settled', OnWay(r)'
  PROVE  PassOf(r)'
<1>1. ~Texted(r)' BY DEF Texted
<1> QED BY <1>1 DEF PassOf

\* the hub sends r along its pipeline, or disturbs it, or leaves it alone
LEMMA HubPass ==
  ASSUME TypeOK, NEW q \in Request, q \notin disturbed', Single(q), PassOf(q),
         \/ \E p \in Plan : HubAssigns(p)
         \/ \E r \in Request : HubRequests(r)
         \/ \E l \in Lap : HubLaps(l)
  PROVE  PassOf(q)'
<1> USE DEF hub, worker, history
<1>1. ASSUME UNCHANGED <<loop, net, tasks>>
      PROVE  /\ \A v \in Worker : Posted(q, v)' => Posted(q, v)
             /\ \A m \in net' : Sent(q, m) => m \in net
             /\ \A t \in tasks' : Handled(q, t) => t \in tasks
             /\ InLoop(q)' => InLoop(q)
             /\ InNet(q)' => InNet(q)
             /\ InTask(q)' => InTask(q)
  BY <1>1 DEF Posted, InLoop, InNet, InTask
<1>2. ASSUME NEW msg \in HubLine, msg # [kind |-> "request", id |-> q],
             \A v \in Worker : line'[v] = line[v] \/ line'[v] = Append(line[v], msg),
             UNCHANGED <<loop, net, tasks, trail>>, asked'[q] = asked[q], answers'[q] = answers[q],
             msg.kind = "assign" => ~UnderWay(q),
             msg.kind # "assign" => UNCHANGED plan
      PROVE  PassOf(q)'
  <2>1. ASSUME NEW v \in Worker, NEW i \in 1 .. Len(line'[v])
        PROVE  \/ line'[v][i] = msg
               \/ i \in 1 .. Len(line[v]) /\ line'[v][i] = line[v][i]
    <3>1. CASE line'[v] = line[v] BY <2>1, <3>1
    <3>2. CASE line'[v] = Append(line[v], msg) BY <2>1, <3>2, Appended
    <3> QED BY <1>2, <3>1, <3>2
  <2>2. ASSUME NEW v \in Worker, NEW i \in 1 .. Len(line'[v]), Queued(q, v, i)'
        PROVE  Queued(q, v, i) /\ v # None
    BY <1>2, <2>1, <2>2 DEF Queued
  <2>3. Keeps(q, None) BY <1>1, <1>2, <2>2 DEF Keeps
  <2>4. UnderWay(q)' => UnderWay(q)
    <3>1. InLine(q)' => InLine(q) BY <2>2 DEF InLine, Queued
    <3> QED BY <1>1, <1>2, <3>1 DEF UnderWay
  <2>5. UnderWay(q)' /\ Settled => Settled'
    BY <1>2, <2>1, <2>4 DEF Settled, HubLine
  <2> QED BY <1>2, <2>3, <2>4, <2>5, PassKept
<1>3. ASSUME NEW p \in Plan, HubAssigns(p) PROVE PassOf(q)'
  <2> DEFINE msg == [kind |-> "assign", plan |-> p]
  <2>1. msg \in HubLine /\ msg # [kind |-> "request", id |-> q] /\ msg.kind = "assign"
    BY DEF HubLine
  <2>2. \A v \in Worker : line'[v] = line[v] \/ line'[v] = Append(line[v], msg)
    BY <1>3 DEF HubAssigns
  <2>3. /\ UNCHANGED <<loop, net, tasks, trail>> /\ asked'[q] = asked[q] /\ answers'[q] = answers[q]
        /\ ~UnderWay(q)
    BY <1>3 DEF HubAssigns
  <2> HIDE DEF msg
  <2> QED BY <1>2, <2>1, <2>2, <2>3
<1>4. ASSUME NEW l \in Lap, HubLaps(l) PROVE PassOf(q)'
  <2> DEFINE msg == [kind |-> "lap", id |-> l]
  <2>1. msg \in HubLine /\ msg # [kind |-> "request", id |-> q] /\ msg.kind # "assign"
    BY DEF HubLine
  <2>2. \A v \in Worker : line'[v] = line[v] \/ line'[v] = Append(line[v], msg)
    <3> HIDE DEF msg
    <3> QED BY <1>4, <2>1, FirstGets DEF HubLaps, msg
  <2>3. UNCHANGED <<plan, loop, net, tasks, trail>> /\ asked'[q] = asked[q] /\ answers'[q] = answers[q]
    BY <1>4 DEF HubLaps
  <2> HIDE DEF msg
  <2> QED BY <1>2, <2>1, <2>2, <2>3
<1>5. ASSUME NEW r \in Request, HubRequests(r) PROVE PassOf(q)'
  <2> DEFINE msg == [kind |-> "request", id |-> r]
  <2>1. msg \in HubLine /\ msg.kind # "assign" BY DEF HubLine
  <2>2. /\ UNCHANGED <<plan, loop, net, tasks, trail, answers>>
        /\ asked[r] = <<>> /\ asked' = [asked EXCEPT ![r] = plan] /\ plan # <<>>
        /\ SendFirst(msg) /\ asked \in [Request -> Plan \cup {<<>>}]
        /\ q = r => Settled
    BY <1>5 DEF HubRequests, TypeOK
  <2>3. \A v \in Worker : line'[v] = line[v] \/ (v = plan[1] /\ line'[v] = Append(line[v], msg))
    <3> HIDE DEF msg
    <3> QED BY <2>1, <2>2, FirstGets
  <2>4. CASE q # r
    <3>1. msg # [kind |-> "request", id |-> q] BY <2>4
    <3>2. asked'[q] = asked[q] BY <2>2, <2>4
    <3> HIDE DEF msg
    <3> QED BY <1>2, <2>1, <2>2, <2>3, <3>1, <3>2
  <2>5. CASE q = r
    <3>1. /\ answers[q] = <<>> /\ trail[q] = <<>>
          /\ ~InLine(q) /\ ~InLoop(q) /\ ~InNet(q) /\ ~InTask(q)
      BY <2>2, <2>5 DEF Single, Unasked, UnderWay, PassOf
    <3>2. ~InLoop(q)' /\ ~InNet(q)' /\ ~InTask(q)' BY <1>1, <2>2, <3>1
    <3>3. asked'[q] = plan' /\ asked'[q] # <<>> /\ answers'[q] = <<>> BY <2>2, <2>5, <3>1
    <3>4. ASSUME NEW v \in Worker, NEW i \in 1 .. Len(line'[v])
          PROVE  \/ v = plan[1] /\ line'[v][i] = msg
                 \/ i \in 1 .. Len(line[v]) /\ line'[v][i] = line[v][i]
      <4> HIDE DEF msg
      <4>1. CASE line'[v] = line[v] BY <3>4, <4>1
      <4>2. CASE v = plan[1] /\ line'[v] = Append(line[v], msg) BY <2>1, <3>4, <4>2, Appended
      <4> QED BY <2>3, <4>1, <4>2
    <3>5. Passed(q, 0)'
      <4>1. trail'[q] = <<>> BY <2>2, <3>1
      <4> QED BY <4>1 DEF Passed
    <3>6. OnWay(q)'
      <4>1. ASSUME NEW v \in Worker, NEW i \in 1 .. Len(line'[v]), Queued(q, v, i)'
            PROVE  v = plan'[1]
        <5>1. ~(i \in 1 .. Len(line[v]) /\ line'[v][i] = line[v][i])
          BY <3>1, <4>1 DEF InLine, Queued
        <5> QED BY <2>2, <3>4, <5>1
      <4> QED BY <3>2, <3>5, <4>1 DEF OnWay, InLoop, InNet, InTask, Sent, Handled
    <3>7. Settled'
      <4>1. ASSUME NEW v \in Worker, NEW i \in 1 .. Len(line'[v])
            PROVE  line'[v][i].kind # "assign"
        <5>1. Settled BY <2>2, <2>5
        <5> QED BY <2>1, <3>4, <5>1 DEF Settled
      <4> QED BY <4>1 DEF Settled
    <3> QED BY <3>3, <3>6, <3>7, PassMoved
  <2> QED BY <2>4, <2>5
<1> QED BY <1>3, <1>4, <1>5

\* the last run of the layers completes the pipeline
LEMMA RanAll ==
  ASSUME TypeOK, TypeOK', NEW r \in Request, asked[r] # <<>>, Passed(r, Len(asked[r]) - 1),
         Ran(r, asked[r][Len(asked[r])]), UNCHANGED asked
  PROVE  trail'[r] = asked'[r]
<1>1. asked[r] \in Plan BY DEF TypeOK
<1>2. Len(asked[r]) \in 1 .. Len(asked[r]) /\ asked[r] \in Seq(Worker) BY <1>1, EndFacts
<1>3. Passed(r, Len(asked[r]))' BY <1>2, RanOn
<1>4. trail'[r] \in Seq(Worker) BY DEF TypeOK
<1>5. Len(trail'[r]) = Len(asked[r]) /\ \A i \in 1 .. Len(trail'[r]) : trail'[r][i] = asked[r][i]
  BY <1>3 DEF Passed
<1> QED BY <1>2, <1>4, <1>5, SeqEqual

\* the first answer is the one that is given
LEMMA FirstAnswer ==
  ASSUME TypeOK, NEW r \in Request, answers[r] = <<>>, NEW kind, NEW w,
         Answers(r, kind, w) \/ UNCHANGED answers, kind # "text"
  PROVE  ~Texted(r)'
<1>1. answers'[r] = <<>> \/ answers'[r] = <<[kind |-> kind, from |-> w]>>
  BY DEF Answers, TypeOK
<1> QED BY <1>1 DEF Texted

\* where a request that is under way has been sent, and where its workers are
LEMMA WayFacts ==
  ASSUME TypeOK, PlaceInv, NEW q \in Request, PassOf(q), Single(q), UnderWay(q)
  PROVE  /\ asked[q] = plan /\ plan \in Plan /\ Settled /\ plan # <<>>
         /\ Len(plan) \in Nat /\ 1 \in 1 .. Len(plan)
         /\ \A k \in 1 .. Len(plan) : place[plan[k]] = Entry(plan, plan[k])
<1>1. asked[q] = plan /\ Settled /\ asked[q] # <<>> BY PlaceFacts DEF PassOf
<1>2. plan \in Plan BY <1>1 DEF TypeOK
<1> QED BY <1>1, <1>2, EndFacts, NextFacts, PlacesHold

\* a worker's loop takes r on, or leaves it alone
LEMMA LoopPass ==
  ASSUME TypeOK, TypeOK', RouteInv, PlaceInv, NEW q \in Request, Single(q), PassOf(q),
         NEW w \in Worker, LoopNext(w) \/ SetupEnds(w)
  PROVE  PassOf(q)'
<1> USE DEF hub, worker, history
<1>0. loop \in [Worker -> Posting \cup {None}] BY DEF TypeOK
<1>1. /\ UNCHANGED loop => \A v \in Worker : Posted(q, v)' => Posted(q, v)
      /\ UNCHANGED tasks => \A t \in tasks' : Handled(q, t) => t \in tasks
  BY DEF Posted
<1>2. ASSUME loop' = [loop EXCEPT ![w] = None]
      PROVE  \A v \in Worker : Posted(q, v)' => Posted(q, v) /\ loop'[v] = loop[v]
  BY <1>0, <1>2 DEF Posted
<1>3. ASSUME NEW m, m.kind = "lap" \/ m.id # q, Connects(m) \/ UNCHANGED net
      PROVE  \A n \in net' : Sent(q, n) => n \in net
  BY <1>3 DEF Connects, Sent
<1>4. ASSUME UNCHANGED line \/ \E kind : Takes(w, kind) PROVE Settled => Settled'
  <2>1. \A v \in Worker : \A i \in 1 .. Len(line'[v]) :
          \E j \in 1 .. Len(line[v]) : line'[v][i] = line[v][j]
    BY <1>4, TakesFacts
  <2> QED BY <2>1, SettledKept
<1>5. CASE TakeAssign(w)
  <2>1. /\ Takes(w, "assign") /\ UNCHANGED <<plan, asked, answers, loop, net, tasks, trail>>
    BY <1>5 DEF TakeAssign
  <2>2. Keeps(q, w) BY <1>1, <2>1, TakesKeeps DEF Keeps
  <2> QED BY <1>4, <2>1, <2>2, PassKept
<1>6. CASE TakeLap(w)
  <2> DEFINE m == [kind |-> "lap", to |-> LapHop(w, Head(line[w]).id), id |-> Head(line[w]).id]
  <2>1. /\ Takes(w, "lap") /\ UNCHANGED <<plan, asked, answers, loop, tasks, trail>>
        /\ Connects(m) \/ UNCHANGED net
    BY <1>6 DEF TakeLap, Relays, Lost
  <2>2. m.kind = "lap" OBVIOUS
  <2>3. \A n \in net' : Sent(q, n) => n \in net
    <3> HIDE DEF m
    <3> QED BY <1>3, <2>1, <2>2
  <2>4. Keeps(q, w) BY <1>1, <2>1, <2>3, TakesKeeps DEF Keeps
  <2> QED BY <1>4, <2>1, <2>4, PassKept
<1>7. CASE SetupEnds(w)
  <2>1. UNCHANGED <<plan, asked, answers, line, loop, net, tasks, trail>>
    BY <1>7 DEF SetupEnds
  <2>2. Keeps(q, None) BY <1>1, <2>1, LinesKeep DEF Keeps
  <2> QED BY <1>4, <2>1, <2>2, PassKept
<1>8. CASE TakeRequest(w)
  <2>0. /\ Takes(w, "request") /\ Admits(w, Head(line[w]).id)
        /\ UNCHANGED <<plan, asked, net, tasks, trail>>
    BY <1>8 DEF TakeRequest
  <2>1. PICK r \in Request : r = Head(line[w]).id /\ Queued(r, w, 1) BY <2>0, HeadFacts
  <2> DEFINE post == [id |-> r, next |-> place[w].next]
  <2>2. \/ Answers(r, "NOT_READY", w) /\ UNCHANGED loop
        \/ loop' = [loop EXCEPT ![w] = post] /\ UNCHANGED answers
    BY <2>0, <2>1 DEF Admits
  <2>3. loop[w] = None BY <2>0 DEF Takes
  <2>4. CASE q # r
    <3>1. \A v \in Worker : Posted(q, v)' => Posted(q, v) /\ loop'[v] = loop[v]
      BY <1>0, <2>2, <2>4 DEF Posted
    <3>2. answers'[q] = answers[q] BY <2>2, <2>4, AnswersFirst
    <3>3. Keeps(q, w) BY <1>1, <2>0, <3>1, <3>2, TakesKeeps DEF Keeps
    <3> QED BY <1>4, <2>0, <3>1, <3>3, PassKept
  <2>5. CASE q = r
    <3>1. /\ answers[q] = <<>> /\ asked[q] # <<>>
          /\ ~InLine(q)' /\ ~InLoop(q) /\ ~InNet(q) /\ ~InTask(q)
      BY <2>0, <2>1, <2>5, TakenFacts
    <3>2. ~InNet(q)' /\ ~InTask(q)' BY <2>0, <3>1 DEF InNet, InTask
    <3>3. CASE Answers(r, "NOT_READY", w) /\ UNCHANGED loop
      <4>1. ~UnderWay(q)' BY <3>1, <3>2, <3>3 DEF UnderWay, InLoop, Posted
      <4>2. ~Texted(q)' BY <2>5, <3>1, <3>3, FirstAnswer
      <4> QED BY <2>0, <3>1, <4>1, <4>2, PassGone
    <3>4. CASE loop' = [loop EXCEPT ![w] = post] /\ UNCHANGED answers
      <4>1. 1 \in 1 .. Len(line[w]) BY <2>0, TakesFacts
      <4>2. UnderWay(q) BY <2>1, <2>5, <4>1 DEF UnderWay, InLine
      <4>3. w = plan[1] /\ Passed(q, 0) BY <2>1, <2>5, <4>1 DEF PassOf, OnWay
      <4>4. /\ asked[q] = plan /\ plan \in Plan /\ Settled /\ 1 \in 1 .. Len(plan)
            /\ place[w] = Entry(plan, w)
        BY <4>2, <4>3, WayFacts
      <4>5. place[w].next = NextIn(plan, w) BY <4>3, <4>4, NextFacts
      <4>6. loop'[w].next = NextIn(plan, w) BY <1>0, <3>4, <4>5
      <4>7. \A v \in Worker : Posted(q, v)' => v = w
        BY <1>0, <3>1, <3>4 DEF Posted, InLoop
      <4>8. Passed(q, 0)' BY <2>0, <4>3 DEF Passed
      <4>9. OnWay(q)'
        BY <2>0, <3>1, <3>2, <4>3, <4>6, <4>7, <4>8 DEF OnWay, InLine, InNet, InTask, Sent, Handled
      <4>10. Settled' BY <1>4, <2>0, <4>4
      <4> QED BY <2>0, <3>1, <3>4, <4>4, <4>9, <4>10, PassMoved
    <3> QED BY <2>2, <3>3, <3>4
  <2> QED BY <2>4, <2>5
<1>9. CASE PostAnswered(w)
  <2>0. /\ loop[w] # None /\ loop' = [loop EXCEPT ![w] = None] /\ Ran(loop[w].id, w)
        /\ UNCHANGED <<plan, asked, line, tasks>>
    BY <1>9 DEF PostAnswered
  <2>1. PICK r \in Request : r = loop[w].id BY <1>0, <2>0 DEF Posting
  <2> DEFINE m == [kind |-> "forward", to |-> loop[w].next, id |-> r]
  <2>2. \/ loop[w].next = None /\ Answers(r, "text", w) /\ UNCHANGED net
        \/ loop[w].next # None /\ (Connects(m) \/ UNCHANGED net) /\ UNCHANGED answers
    BY <1>9, <2>1 DEF PostAnswered, Lost
  <2>3. CASE q # r
    <3>1. m.id # q BY <2>3
    <3>2. \A n \in net' : Sent(q, n) => n \in net
      <4> HIDE DEF m
      <4> QED BY <1>3, <2>2, <3>1
    <3>3. answers'[q] = answers[q] BY <2>2, <2>3, AnswersFirst
    <3>4. trail'[q] = trail[q] BY <2>0, <2>1, <2>3, RanOther
    <3>5. Keeps(q, None) BY <1>1, <1>2, <2>0, <3>2, <3>3, LinesKeep DEF Keeps
    <3> QED BY <1>2, <1>4, <2>0, <3>4, <3>5, PassKept
  <2>4. CASE q = r
    <3>1. /\ answers[q] = <<>> /\ asked[q] # <<>>
          /\ ~InLine(q) /\ ~InLoop(q)' /\ ~InNet(q) /\ ~InTask(q)
      BY <2>0, <2>1, <2>4, PostedFacts
    <3>2. ~InLine(q)' /\ ~InTask(q)' BY <2>0, <3>1 DEF InLine, InTask, Queued
    <3>3. Posted(q, w) /\ UnderWay(q) BY <2>0, <2>1, <2>4 DEF Posted, UnderWay, InLoop
    <3>4. w = plan[1] /\ Passed(q, 0) /\ loop[w].next = NextIn(plan, w)
      BY <3>3 DEF PassOf, OnWay
    <3>5. asked[q] = plan /\ plan \in Plan /\ Settled /\ Len(plan) \in Nat /\ 1 \in 1 .. Len(plan)
      BY <3>3, WayFacts
    <3>6. Passed(q, 1)'
      <4>1. Passed(q, 1 - 1) BY <3>4
      <4> QED BY <2>0, <2>1, <2>4, <3>4, <3>5, <4>1, RanOn
    <3>7. CASE loop[w].next = None
      <4>1. Len(plan) = 1 BY <3>4, <3>5, <3>7, NextFacts
      <4>2. trail'[q] = asked'[q]
        <5>1. Passed(q, Len(asked[q]) - 1) /\ asked[q][Len(asked[q])] = w BY <3>4, <3>5, <4>1
        <5> QED BY <2>0, <2>1, <2>4, <3>1, <5>1, RanAll
      <4>3. ~UnderWay(q)' BY <2>2, <3>1, <3>2, <3>7 DEF UnderWay, InNet
      <4> QED BY <2>0, <3>1, <4>2, <4>3, PassGone
    <3>8. CASE loop[w].next # None /\ UNCHANGED net
      <4>1. ~UnderWay(q)' BY <3>1, <3>2, <3>8 DEF UnderWay, InNet
      <4>2. ~Texted(q)' BY <2>2, <3>1, <3>8 DEF Texted
      <4> QED BY <2>0, <3>1, <4>1, <4>2, PassGone
    <3>9. CASE loop[w].next # None /\ Connects(m)
      <4>1. 1 + 1 \in 1 .. Len(plan) /\ loop[w].next = plan[1 + 1]
        BY <3>4, <3>5, <3>9, NextFacts
      <4>2. \A n \in net' : Sent(q, n) => n = m
        BY <3>1, <3>9 DEF Connects, InNet
      <4>3. m.to = plan[2] /\ 2 \in 1 .. Len(plan) /\ 2 - 1 = 1 BY <4>1
      <4> HIDE DEF m
      <4>4. OnWay(q)'
        BY <2>0, <3>1, <3>2, <3>6, <4>2, <4>3 DEF OnWay, InLine, InLoop, InTask, Sent, Handled
      <4>5. Settled' BY <1>4, <2>0, <3>5
      <4> QED BY <2>0, <2>2, <3>1, <3>5, <3>9, <4>4, <4>5, PassMoved
    <3> QED BY <2>2, <3>7, <3>8, <3>9
  <2> QED BY <2>3, <2>4
<1>10. CASE PostFails(w)
  <2>0. /\ loop[w] # None /\ loop' = [loop EXCEPT ![w] = None]
        /\ UNCHANGED <<plan, asked, line, net, tasks, trail>>
    BY <1>10 DEF PostFails
  <2>1. PICK r \in Request : r = loop[w].id BY <1>0, <2>0 DEF Posting
  <2>2. Answers(r, "HTTP_ERROR", w) \/ UNCHANGED answers BY <1>10, <2>1 DEF PostFails
  <2>3. CASE q # r
    <3>1. answers'[q] = answers[q] BY <2>2, <2>3, AnswersFirst
    <3>2. Keeps(q, None) BY <1>1, <1>2, <2>0, <3>1, LinesKeep DEF Keeps
    <3> QED BY <1>2, <1>4, <2>0, <3>2, PassKept
  <2>4. CASE q = r
    <3>1. /\ answers[q] = <<>> /\ asked[q] # <<>>
          /\ ~InLine(q) /\ ~InLoop(q)' /\ ~InNet(q) /\ ~InTask(q)
      BY <2>0, <2>1, <2>4, PostedFacts
    <3>2. ~UnderWay(q)' BY <2>0, <3>1 DEF UnderWay, InLine, InNet, InTask, Queued
    <3>3. ~Texted(q)' BY <2>2, <2>4, <3>1, FirstAnswer
    <3> QED BY <2>0, <3>1, <3>2, <3>3, PassGone
  <2> QED BY <2>3, <2>4
<1> QED BY <1>5, <1>6, <1>7, <1>8, <1>9, <1>10 DEF LoopNext

\* an inbound task takes r on, or leaves it alone
LEMMA InboundPass ==
  ASSUME TypeOK, TypeOK', RouteInv, PlaceInv, NEW q \in Request, Single(q), PassOf(q),
         \/ \E m \in net : Receive(m) \/ ReceiveLap(m) \/ CutOff(m)
         \/ \E t \in tasks : TaskNext(t)
  PROVE  PassOf(q)'
<1> USE DEF hub, worker, history
<1>1. /\ UNCHANGED loop => \A v \in Worker : Posted(q, v)' => Posted(q, v) /\ loop'[v] = loop[v]
      /\ UNCHANGED <<line, loop>> => (InLine(q)' => InLine(q)) /\ (InLoop(q)' => InLoop(q))
      /\ UNCHANGED line => (Settled => Settled')
  BY DEF Posted, InLine, InLoop, Queued, Settled
<1>2. ASSUME NEW m \in net, Receive(m) PROVE PassOf(q)'
  <2> DEFINE t == [at |-> "forward", worker |-> m.to, id |-> m.id]
  <2>0. /\ m.kind = "forward" /\ net' = net \ {m} /\ tasks' = tasks \cup {t}
        /\ UNCHANGED <<plan, asked, answers, line, loop, trail>>
    BY <1>2 DEF Receive
  <2>1. CASE q # m.id
    <3>1. \A u \in tasks' : Handled(q, u) => u \in tasks BY <2>0, <2>1 DEF Handled
    <3>2. Keeps(q, None) BY <1>1, <2>0, <3>1, LinesKeep DEF Keeps
    <3> QED BY <1>1, <2>0, <3>2, PassKept
  <2>2. CASE q = m.id
    <3>1. /\ answers[q] = <<>> /\ asked[q] # <<>>
          /\ ~InLine(q) /\ ~InLoop(q) /\ ~InTask(q)
          /\ \A n \in net : Sent(q, n) => n = m
      BY <2>0, <2>2, SentFacts
    <3>2. Sent(q, m) /\ UnderWay(q) BY <2>0, <2>2 DEF Sent, UnderWay, InNet
    <3>3. PICK k \in 1 .. Len(plan) : m.to = plan[k] /\ Passed(q, k - 1)
      BY <3>2 DEF PassOf, OnWay
    <3>4. Passed(q, k - 1)' BY <2>0, <3>3 DEF Passed
    <3>5. asked[q] = plan /\ Settled BY <3>2, WayFacts
    <3>6. ~InLine(q)' /\ ~InLoop(q)' /\ ~InNet(q)' BY <1>1, <2>0, <3>1 DEF InNet
    <3>7. \A u \in tasks' : Handled(q, u) => u = t BY <2>0, <3>1 DEF InTask
    <3>8. t.at = "forward" /\ t.worker = plan[k] BY <3>3
    <3> HIDE DEF t
    <3>9. OnWay(q)'
      BY <2>0, <3>4, <3>6, <3>7, <3>8 DEF OnWay, InLine, InLoop, InNet, Sent, Handled
    <3> QED BY <1>1, <2>0, <3>1, <3>5, <3>9, PassMoved
  <2> QED BY <2>1, <2>2
<1>3. ASSUME NEW m \in net, ReceiveLap(m) \/ CutOff(m) PROVE PassOf(q)'
  <2>1. UNCHANGED <<plan, asked, answers, line, loop, tasks, trail>>
    BY <1>3 DEF ReceiveLap, CutOff
  <2>2. m.kind = "lap" => [m EXCEPT !.to = LapHop(m.to, m.id)].kind = "lap"
    BY DEF TypeOK, Hop
  <2>3. \A n \in net' : Sent(q, n) => n \in net
    BY <1>3, <2>2 DEF ReceiveLap, CutOff, Sent
  <2>4. Keeps(q, None) BY <1>1, <2>1, <2>3, LinesKeep DEF Keeps
  <2> QED BY <1>1, <2>1, <2>4, PassKept
<1>4. ASSUME NEW t \in tasks, t.id # q, Forwarded(t) \/ Generated(t) \/ RpcFails(t)
      PROVE  PassOf(q)'
  <2>0. t.id \in Request /\ t.worker \in Worker /\ [t EXCEPT !.at = "generate"].id = t.id
    <3>1. t \in Task BY DEF TypeOK
    <3>2. t.id \in Request /\ t.worker \in Worker BY <3>1 DEF Task
    <3>3. [t EXCEPT !.at = "generate"].id = t.id BY <3>1 DEF Task
    <3> QED BY <3>2, <3>3
  <2>1. UNCHANGED <<plan, asked, line, loop>>
    BY <1>4 DEF Forwarded, Generated, RpcFails
  <2>2. answers'[q] = answers[q]
    BY <1>4, <2>0, AnswersFirst DEF Forwarded, Generated, RpcFails
  <2>3. \A u \in tasks' : Handled(q, u) => u \in tasks
    BY <1>4, <2>0 DEF Forwarded, Generated, RpcFails, Handled
  <2>4. \A n \in net' : Sent(q, n) => n \in net
    BY <1>4 DEF Forwarded, Generated, RpcFails, Connects, Lost, Sent
  <2>5. trail'[q] = trail[q]
    BY <1>4, <2>0, RanOther DEF Forwarded, Generated, RpcFails
  <2>6. Keeps(q, None) BY <1>1, <2>1, <2>2, <2>3, <2>4, LinesKeep DEF Keeps
  <2> QED BY <1>1, <2>1, <2>5, <2>6, PassKept
<1>5. ASSUME NEW t \in tasks, t.id = q, Forwarded(t) \/ Generated(t) \/ RpcFails(t)
      PROVE  PassOf(q)'
  <2>0. t.worker \in Worker /\ t.at \in {"forward", "generate"} BY DEF TypeOK, Task
  <2>1. /\ answers[q] = <<>> /\ asked[q] # <<>>
        /\ ~InLine(q) /\ ~InLoop(q) /\ ~InNet(q)
        /\ \A u \in tasks : Handled(q, u) => u = t
    BY <1>5, TaskFacts
  <2>2. UNCHANGED <<plan, asked, line, loop>>
    BY <1>5 DEF Forwarded, Generated, RpcFails
  <2>3. ~InLine(q)' /\ ~InLoop(q)' BY <1>1, <2>1, <2>2
  <2>4. ASSUME tasks' = tasks \ {t} PROVE ~InTask(q)'
    BY <2>1, <2>4 DEF InTask
  <2>5. Handled(q, t) /\ UnderWay(q) BY <1>5 DEF Handled, UnderWay, InTask
  <2>6. /\ asked[q] = plan /\ plan \in Plan /\ Settled /\ Len(plan) \in Nat
        /\ \A k \in 1 .. Len(plan) : place[plan[k]] = Entry(plan, plan[k])
    BY <2>5, WayFacts
  <2>7. CASE RpcFails(t)
    <3>1. tasks' = tasks \ {t} /\ UNCHANGED <<net, answers>> BY <2>7 DEF RpcFails
    <3>2. ~UnderWay(q)' BY <2>1, <2>3, <2>4, <3>1 DEF UnderWay, InNet
    <3>3. ~Texted(q)' BY <2>1, <3>1 DEF Texted
    <3> QED BY <2>1, <2>2, <3>2, <3>3, PassGone
  <2>8. CASE Generated(t)
    <3>1. tasks' = tasks \ {t} /\ UNCHANGED <<net, trail>> /\ t.at = "generate"
      BY <2>8 DEF Generated
    <3>2. ~UnderWay(q)' BY <2>1, <2>3, <2>4, <3>1 DEF UnderWay, InNet
    <3>3. Passed(q, Len(plan)) BY <2>5, <3>1 DEF PassOf, OnWay
    <3>4. trail[q] = asked[q] BY <2>6, <3>3, PassedAll
    <3> QED BY <2>1, <2>2, <3>1, <3>2, <3>4, PassGone
  <2>9. CASE Forwarded(t)
    <3>0. t.at = "forward" /\ Ran(q, t.worker) /\ UNCHANGED answers BY <1>5, <2>9 DEF Forwarded
    <3>1. PICK k \in 1 .. Len(plan) : t.worker = plan[k] /\ Passed(q, k - 1)
      BY <2>5, <3>0 DEF PassOf, OnWay
    <3>2. Passed(q, k)' BY <2>2, <2>6, <3>0, <3>1, RanOn
    <3>3. /\ place[t.worker].is_last <=> k = Len(plan)
          /\ place[t.worker].next = NextIn(plan, plan[k])
          /\ NextIn(plan, plan[k]) = None => k = Len(plan)
          /\ NextIn(plan, plan[k]) # None => k + 1 \in 1 .. Len(plan) /\ NextIn(plan, plan[k]) = plan[k + 1]
      BY <2>6, <3>1, NextFacts
    <3>4. Settled' BY <1>1, <2>2, <2>6
    <3>5. CASE k = Len(plan)
      <4> DEFINE u == [t EXCEPT !.at = "generate"]
      <4>1. tasks' = (tasks \ {t}) \cup {u} /\ UNCHANGED net
        BY <2>9, <3>3, <3>5 DEF Forwarded
      <4>2. \A s \in tasks' : Handled(q, s) => s = u BY <2>1, <4>1
      <4>3. u.at = "generate" BY DEF TypeOK, Task
      <4>4. ~InNet(q)' BY <2>1, <4>1 DEF InNet
      <4> HIDE DEF u
      <4>5. Passed(q, Len(plan))' BY <2>2, <3>2, <3>5 DEF Passed
      <4>6. OnWay(q)'
        BY <2>2, <2>3, <4>2, <4>3, <4>4, <4>5 DEF OnWay, InLine, InLoop, InNet, Sent, Handled
      <4> QED BY <2>1, <2>2, <2>6, <3>0, <3>4, <4>6, PassMoved
    <3>6. CASE k # Len(plan)
      <4> DEFINE m == [kind |-> "forward", to |-> place[t.worker].next, id |-> t.id]
      <4>1. tasks' = tasks \ {t} /\ (Connects(m) \/ UNCHANGED net)
        BY <2>9, <3>3, <3>6 DEF Forwarded, Lost
      <4>2. ~InTask(q)' BY <2>4, <4>1
      <4>3. CASE UNCHANGED net
        <5>1. ~UnderWay(q)' BY <2>1, <2>3, <4>2, <4>3 DEF UnderWay, InNet
        <5>2. ~Texted(q)' BY <2>1, <3>0 DEF Texted
        <5> QED BY <2>1, <2>2, <5>1, <5>2, PassGone
      <4>4. CASE Connects(m)
        <5>1. \A n \in net' : Sent(q, n) => n = m BY <2>1, <4>4 DEF Connects, InNet
        <5>2. k + 1 \in 1 .. Len(plan) /\ m.to = plan[k + 1] /\ (k + 1) - 1 = k BY <3>3, <3>6
        <5> HIDE DEF m
        <5>3. OnWay(q)'
          BY <2>2, <2>3, <3>2, <4>2, <5>1, <5>2 DEF OnWay, InLine, InLoop, InTask, Sent, Handled
        <5> QED BY <2>1, <2>2, <2>6, <3>0, <3>4, <5>3, PassMoved
      <4> HIDE DEF m
      <4> QED BY <4>1, <4>3, <4>4
    <3> QED BY <3>5, <3>6
  <2> QED BY <1>5, <2>7, <2>8, <2>9
<1> QED BY <1>2, <1>3, <1>4, <1>5 DEF TaskNext

LEMMA PassStep ==
  TypeOK /\ TypeOK' /\ RouteInv /\ CopyInv /\ PlaceInv /\ PassInv /\ [Next]_vars => PassInv'
<1> SUFFICES ASSUME TypeOK, TypeOK', RouteInv, CopyInv, PlaceInv, PassInv, [Next]_vars,
                    NEW q \in Request, q \notin disturbed'
             PROVE  PassOf(q)'
  BY DEF PassInv
<1>1. disturbed \subseteq disturbed'
  BY DEF Next, vars, history, HubAssigns, HubRequests, HubLaps, LoopNext, TakeAssign, TakeRequest,
         TakeLap, PostAnswered, PostFails, SetupEnds, Receive, ReceiveLap, CutOff, TaskNext,
         Forwarded, Generated, RpcFails
<1>2. Single(q) /\ PassOf(q) BY <1>1 DEF CopyInv, Single, PassInv
<1>3. CASE UNCHANGED vars
  <2>1. Keeps(q, None)
    BY <1>3, LinesKeep DEF vars, hub, worker, history, Keeps, Posted
  <2>2. Settled => Settled' BY <1>3 DEF vars, Settled
  <2> QED BY <1>2, <1>3, <2>1, <2>2, PassKept DEF vars, hub, worker, history
<1> QED BY <1>2, <1>3, HubPass, LoopPass, InboundPass DEF Next

\* A request around which the hub assigns nothing is answered, if a text comes back, by
\* all workers of its pipeline, each once and in order: for any number of workers and
\* pipelines, whatever was assigned before, and whatever else is under way or fails.
THEOREM RequestsPassInFull == Spec => []FullPass
<1>1. Init => CopyInv
  BY DEF Init, CopyInv, OneEach, OnePlace, Answered, Unasked, UnderWay, InLine, InLoop, InNet,
         InTask, Queued, Posted
<1>2. Init => PlaceInv /\ PassInv
  BY DEF Init, PlaceInv, Members, PassInv, PassOf, OnWay, Texted, UnderWay, InLine, InLoop, InNet,
         InTask, Queued, Posted
<1>3. Spec => [](TypeOK /\ RouteInv /\ CopyInv /\ PlaceInv /\ PassInv)
  BY <1>1, <1>2, InitRoute, TypeStep, RouteStep, CopyStep, PlaceStep, PassStep, PTL DEF Spec
<1>4. PassInv => FullPass
  BY DEF PassInv, PassOf, FullPass
<1> QED BY <1>3, <1>4, PTL
=============================================================================

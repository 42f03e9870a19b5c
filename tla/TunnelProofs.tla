---------------------------- MODULE TunnelProofs ----------------------------
(* Theorems about Tunnel: type correctness, that it implements the pipes of  *)
(* TunnelPipe, and that frames stay intact, for any number of connections,   *)
(* ids and tunnels and any capacity.                                         *)
EXTENDS Tunnel, TLAPS

USE ConnAssumption, BoundAssumption DEF Sessions

\* the initial state has the types
LEMMA InitType == Init => TypeOK
  BY DEF Init, TypeOK, NotSending, Item, Eof

\* the reconnect loop keeps them
LEMMA LoopType == TypeOK /\ (Loop \/ Break) => TypeOK'
<1> SUFFICES ASSUME TypeOK, Loop \/ Break PROVE TypeOK'
  OBVIOUS
<1> USE DEF TypeOK, client, dispatch, serving, upward
<1>1. CASE Connect
  <2>1. session + 1 \in Sessions BY <1>1 DEF Connect
  <2>2. session' \in Sessions /\ run' = "serve" /\ broken' = FALSE
    BY <1>1, <2>1 DEF Connect
  <2>3. peer' \in [ConnId -> Conn \cup {None}] BY <1>1 DEF Connect
  <2> QED BY <1>1, <2>2, <2>3 DEF Connect
<1>2. CASE ConnectFails BY <1>2 DEF ConnectFails
<1>3. CASE Disconnect BY <1>3 DEF Disconnect
<1>4. CASE Clear BY <1>4 DEF Clear, Cleared
<1>5. CASE Wake BY <1>5 DEF Wake
<1>6. CASE Break BY <1>6 DEF Break
<1> QED BY <1>1, <1>2, <1>3, <1>4, <1>5, <1>6 DEF Loop

\* so do the frames of the server
LEMMA DispatchType == TypeOK /\ (Server \/ Push) => TypeOK'
<1> SUFFICES ASSUME TypeOK, Server \/ Push PROVE TypeOK'
  OBVIOUS
<1> USE DEF TypeOK, client, dispatch, serving, upward
<1>1. ASSUME NEW id \in ConnId, NEW c \in Conn, NewConn(id, c) PROVE TypeOK'
  BY <1>1 DEF NewConn
<1>2. ASSUME NEW id \in ConnId, Data(id) PROVE TypeOK'
  <2>1. sent[peer[id]] + 1 \in 1 .. MaxData /\ peer[id] \in Conn
    BY <1>2 DEF Data
  <2>2. pending' \in [to : Conn \cup {None}, item : Item]
    BY <1>2, <2>1 DEF Data, NotSending, Item, Pipe!Chunk
  <2>3. sent' \in [Conn -> 0 .. MaxData]
    BY <1>2, <2>1 DEF Data
  <2> QED BY <1>2, <2>2, <2>3 DEF Data
<1>3. ASSUME NEW id \in ConnId, Close(id) PROVE TypeOK'
  BY <1>3 DEF Close, Item
<1>4. CASE Push
  <2>1. chan' \in [Conn -> Seq(Item)] /\ \A c \in Conn : Len(chan'[c]) <= Capacity
    BY <1>4 DEF Push, Send, HasRoom
  <2> QED BY <1>4, <2>1 DEF Push, NotSending, Item
<1> QED BY <1>1, <1>2, <1>3, <1>4 DEF Server

\* and the tasks of the connections
LEMMA ServeType ==
  ASSUME TypeOK, NEW c \in Conn, Local(c) \/ Up(c) \/ Remove(c)
  PROVE  TypeOK'
<1> USE DEF TypeOK, client, dispatch, serving, upward
<1>1. CASE LocalConnect(c) BY <1>1 DEF LocalConnect
<1>2. CASE LocalRefused(c) BY <1>2 DEF LocalRefused
<1>3. CASE DownReceive(c)
  <2>1. /\ Head(chan[c]) \in Item
        /\ Tail(chan[c]) \in Seq(Item)
        /\ Len(Tail(chan[c])) <= Capacity
    BY <1>3 DEF DownReceive
  <2>2. chan' \in [Conn -> Seq(Item)] /\ \A d \in Conn : Len(chan'[d]) <= Capacity
    BY <1>3, <2>1 DEF DownReceive
  <2>3. hand' \in [Conn -> Item \cup {None}]
    BY <1>3, <2>1 DEF DownReceive
  <2> QED BY <1>3, <2>2, <2>3 DEF DownReceive
<1>4. CASE DownWrite(c)
  <2>1. hand[c] \in Item BY <1>4 DEF DownWrite
  <2>2. got' \in [Conn -> Seq(Item)]
    <3>1. Append(got[c], hand[c]) \in Seq(Item) BY <2>1
    <3> QED BY <1>4, <3>1 DEF DownWrite
  <2>3. hand' \in [Conn -> Item \cup {None}] BY <1>4 DEF DownWrite
  <2> QED BY <1>4, <2>2, <2>3 DEF DownWrite
<1>0. End(c) => TypeOK'
  BY DEF End, DropReceiver
<1>5. CASE DownEnds(c) BY ONLY <1>0, <1>5 DEF DownEnds
<1>6. CASE DownFails(c) BY ONLY <1>0, <1>6 DEF DownFails
<1>7. CASE UpRead(c) BY <1>7 DEF UpRead
<1>8. CASE UpBegin(c) BY <1>8 DEF UpBegin, Begin
<1>9. CASE UpComplete(c) BY <1>9 DEF UpComplete, Complete
<1>10. CASE UpFails(c) BY <1>10 DEF UpFails
<1>11. CASE UpCloses(c) BY <1>11 DEF UpCloses, Complete, DropReceiver
<1>12. CASE Remove(c) BY <1>12 DEF Remove
<1> QED BY <1>1, <1>2, <1>3, <1>4, <1>5, <1>6, <1>7, <1>8, <1>9, <1>10, <1>11, <1>12
        DEF Local, Up

\* every step keeps the types
LEMMA NextType == TypeOK /\ [Next]_vars => TypeOK'
<1> SUFFICES ASSUME TypeOK, [Next]_vars PROVE TypeOK'
  OBVIOUS
<1>1. CASE PingBegin
  BY <1>1 DEF PingBegin, Begin, TypeOK, client, dispatch, serving
<1>2. CASE PingComplete
  BY <1>2 DEF PingComplete, Complete, TypeOK, client, dispatch, serving
<1>3. CASE UNCHANGED vars
  BY <1>3 DEF vars, client, dispatch, serving, upward, TypeOK
<1> QED BY <1>1, <1>2, <1>3, LoopType, DispatchType, ServeType DEF Next

\* Every reachable state has the declared types; in particular no channel ever
\* holds more than its capacity (mpsc::channel(256)).
THEOREM TypeCorrect == Spec => []TypeOK
  BY InitType, NextType, PTL DEF Spec
----------------------------------------------------------------------------
(* Frames stay intact.                                                       *)

\* whoever begins a frame on a tunnel in use finds the last one complete
LEMMA BeginFrame ==
  ASSUME TypeOK, FrameInv, NEW w, NEW s \in Sessions, s <= session, Begin(w, s),
         UNCHANGED <<session, broken, addr>>
  PROVE  FrameInv'
<1> USE DEF TypeOK, Begin, WriterFree, Dead
<1>1. FramesIntact'
  BY DEF FrameInv, FramesIntact, FrameComplete
<1>2. FreshSessions'
  BY DEF FrameInv, FreshSessions
<1>3. FrameComplete'
  <2> SUFFICES ASSUME NEW r \in Sessions, ~Dead(r), ~dropped[r], writer'[r] = None
               PROVE  frame'[r] = None
    BY DEF FrameComplete
  <2>1. CASE r # s BY <2>1 DEF FrameInv, FrameComplete
  <2>2. CASE r = s /\ w # None BY <2>2
  <2>3. CASE r = s /\ w = None BY <2>3
  <2> QED BY <2>1, <2>2, <2>3
<1> QED BY <1>1, <1>2, <1>3 DEF FrameInv

\* a complete frame leaves nothing behind
LEMMA CompleteFrame ==
  ASSUME TypeOK, FrameInv, NEW w, NEW s \in Sessions, Complete(w, s),
         UNCHANGED <<session, broken, addr>>
  PROVE  FrameInv'
  BY DEF TypeOK, Complete, FrameInv, FramesIntact, FreshSessions, FrameComplete, Dead

\* a connection that ends within a frame is recorded as dropped
LEMMA EndFrame ==
  ASSUME TypeOK, FrameInv, NEW c \in Conn, End(c)
  PROVE  FrameInv'
<1> DEFINE s == addr[c].session
<1>1. s \in Sessions BY DEF TypeOK
<1>2. /\ writer' = [writer EXCEPT ![s] = IF @ = c THEN None ELSE @]
      /\ dropped' = [dropped EXCEPT ![s] = @ \/ writer[s] = c]
      /\ UNCHANGED <<session, broken, addr, frame, garbled>>
  BY DEF End, client, dispatch
<1>3. \A r \in Sessions : ~dropped'[r] => ~dropped[r] /\ (writer'[r] = None => writer[r] = None)
  BY <1>1, <1>2 DEF TypeOK
<1>4. FramesIntact' BY <1>2, <1>3 DEF FrameInv, FramesIntact
<1>5. FreshSessions' BY <1>2 DEF FrameInv, FreshSessions
<1>6. FrameComplete' BY <1>2, <1>3 DEF FrameInv, FrameComplete, Dead
<1> QED BY <1>4, <1>5, <1>6 DEF FrameInv

\* every step preserves the invariant
LEMMA FrameStep == TypeOK /\ FrameInv /\ [Next]_vars => FrameInv'
<1> SUFFICES ASSUME TypeOK, FrameInv, [Next]_vars PROVE FrameInv'
  OBVIOUS
<1> USE DEF client, dispatch, serving, upward
<1>1. ASSUME UNCHANGED <<session, broken, addr, writer, frame, dropped, garbled>> PROVE FrameInv'
  BY <1>1 DEF FrameInv, FramesIntact, FreshSessions, FrameComplete, Dead
<1>2. CASE Connect
  <2>1. session \in Nat /\ session' = session + 1 /\ broken' = FALSE
        /\ UNCHANGED <<addr, writer, frame, dropped, garbled>>
    BY <1>2 DEF Connect, TypeOK
  <2>2. FreshSessions' BY <2>1 DEF FrameInv, FreshSessions, TypeOK
  <2>3. FrameComplete' BY <2>1 DEF FrameInv, FreshSessions, FrameComplete, Dead
  <2>4. FramesIntact' BY <2>1 DEF FrameInv, FramesIntact
  <2> QED BY <2>2, <2>3, <2>4 DEF FrameInv
<1>3. CASE Break
  BY <1>3 DEF Break, FrameInv, FramesIntact, FreshSessions, FrameComplete, Dead
<1>4. CASE Disconnect
  BY <1>4 DEF Disconnect, TypeOK, FrameInv, FramesIntact, FreshSessions, FrameComplete, Dead
<1>5. CASE ConnectFails \/ Clear \/ Wake \/ Push
  BY <1>1, <1>5 DEF ConnectFails, Clear, Wake, Push
<1>6. ASSUME NEW id \in ConnId, NEW c \in Conn, NewConn(id, c) PROVE FrameInv'
  <2>1. /\ addr' = [addr EXCEPT ![c] = [id |-> id, session |-> session]]
        /\ UNCHANGED <<session, broken, writer, frame, dropped, garbled>>
    BY <1>6 DEF NewConn
  <2>2. FreshSessions' BY <2>1 DEF FrameInv, FreshSessions, TypeOK
  <2>3. FramesIntact' /\ FrameComplete'
    BY <2>1 DEF FrameInv, FramesIntact, FrameComplete, Dead
  <2> QED BY <2>2, <2>3 DEF FrameInv
<1>7. ASSUME NEW id \in ConnId, Data(id) \/ Close(id) PROVE FrameInv'
  BY <1>1, <1>7 DEF Data, Close
<1>8. ASSUME NEW c \in Conn,
             \/ LocalConnect(c) \/ LocalRefused(c) \/ DownReceive(c) \/ DownWrite(c)
             \/ Remove(c) \/ UpRead(c)
      PROVE  FrameInv'
  BY <1>1, <1>8 DEF LocalConnect, LocalRefused, DownReceive, DownWrite, Remove, UpRead
<1>9. ASSUME NEW c \in Conn, DownEnds(c) \/ DownFails(c) PROVE FrameInv'
  BY <1>9, EndFrame DEF DownEnds, DownFails
<1>10. ASSUME NEW c \in Conn, UpBegin(c) PROVE FrameInv'
  <2>1. addr[c].session \in Sessions /\ addr[c].session <= session
    BY DEF TypeOK, FrameInv, FreshSessions
  <2>2. Begin(c, addr[c].session) /\ UNCHANGED <<session, broken, addr>>
    BY <1>10 DEF UpBegin
  <2> QED BY <2>1, <2>2, BeginFrame
<1>11. ASSUME NEW c \in Conn, UpComplete(c) \/ UpCloses(c) PROVE FrameInv'
  <2>1. addr[c].session \in Sessions
    BY DEF TypeOK
  <2>2. Complete(c, addr[c].session) /\ UNCHANGED <<session, broken, addr>>
    BY <1>11 DEF UpComplete, UpCloses
  <2> QED BY <2>1, <2>2, CompleteFrame
<1>12. ASSUME NEW c \in Conn, UpFails(c) PROVE FrameInv'
  BY <1>12 DEF UpFails, TypeOK, FrameInv, FramesIntact, FreshSessions, FrameComplete, Dead
<1>13. CASE PingBegin
  <2>1. session \in Sessions /\ session <= session
    BY DEF TypeOK
  <2> QED BY <1>13, <2>1, BeginFrame DEF PingBegin
<1>14. CASE PingComplete
  <2>1. session \in Sessions
    BY DEF TypeOK
  <2> QED BY <1>14, <2>1, CompleteFrame DEF PingComplete
<1>15. CASE UNCHANGED vars
  BY <1>1, <1>15 DEF vars
<1> QED
  BY <1>2, <1>3, <1>4, <1>5, <1>6, <1>7, <1>8, <1>9, <1>10, <1>11, <1>12, <1>13, <1>14, <1>15
  DEF Next, Loop, Server, Local, Up

\* On a tunnel that works no frame ever begins within another, save after a
\* connection that was dropped in the middle of its frame (select! in serve_conn).
THEOREM FramesStayIntact == Spec => []FramesIntact
<1>1. Init => FrameInv
  BY DEF Init, FrameInv, FramesIntact, FreshSessions, FrameComplete
<1> QED BY <1>1, InitType, NextType, FrameStep, PTL DEF Spec, FrameInv
----------------------------------------------------------------------------
(* Every local end reads a prefix of what was sent to it.                    *)

\* a connection that a step leaves alone, or only takes a sender from
LEMMA Alone ==
  ASSUME NEW d \in Conn, Piped(d),
         got'[d] = got[d], hand'[d] = hand[d], chan'[d] = chan[d],
         sent'[d] = sent[d], rx'[d] = rx[d],
         task'[d] = "new" => task[d] = "new",
         InMap(d)' => InMap(d),
         pending'.to = d => pending' = pending,
         pending.to = d => pending'.to = d
  PROVE  Piped(d)'
<1>1. HasSender(d)' => HasSender(d)
  BY DEF HasSender
<1>2. InOrder(d)' BY <1>1 DEF Piped, InOrder, Taken
<1>3. UpToDate(d)' BY DEF Piped, UpToDate, Taken
<1>4. Unspawned(d)' BY <1>1 DEF Piped, Unspawned
<1> QED BY <1>2, <1>3, <1>4 DEF Piped

\* the receiver of a connection goes, with what was in the channel and in hand
LEMMA Cut ==
  ASSUME TypeOK, NEW d \in Conn, Piped(d),
         got'[d] = got[d], hand'[d] \in {None, hand[d]}, chan'[d] = <<>>,
         sent'[d] = sent[d], ~rx'[d], task'[d] # "new", UNCHANGED <<conns, pending>>
  PROVE  Piped(d)'
<1>1. Len(got[d]) \in Nat /\ sent[d] \in Nat /\ Taken(d) \in Nat
  BY DEF TypeOK, Taken
<1>2. InOrder(d)'
  <2>1. Taken(d)' <= Taken(d) BY <1>1 DEF Taken
  <2>2. Taken(d)' \in Nat
    <3>1. CASE hand'[d] = None BY <1>1, <3>1 DEF Taken
    <3>2. CASE hand'[d] # None BY <1>1, <3>2 DEF Taken
    <3> QED BY <3>1, <3>2
  <2>3. Taken(d)' <= sent'[d] BY <1>1, <2>1, <2>2 DEF Piped, InOrder
  <2>4. hand'[d] # None => hand'[d] = Pipe!Chunk(d, Len(got'[d]) + 1)
    BY DEF Piped, InOrder
  <2>5. \A i \in 1 .. Len(got'[d]) : got'[d][i] = Pipe!Chunk(d, i)
    BY DEF Piped, InOrder
  <2>6. 1 .. Len(chan'[d]) = {} OBVIOUS
  <2> QED BY <2>3, <2>4, <2>5, <2>6 DEF InOrder
<1>3. UpToDate(d)' BY DEF Piped, UpToDate, InMap
<1> QED BY <1>2, <1>3 DEF Piped, Unspawned

\* an entry of the map is what the server means, and the only one of its connection
LEMMA OneEntry ==
  ASSUME EntryIsPeer, NEW id \in ConnId, peer[id] \in Conn, InMap(peer[id])
  PROVE  conns[id] = peer[id]
  BY ConnAssumption DEF EntryIsPeer, InMap

LEMMA NewConnPiped ==
  ASSUME TypeOK, PipeInv, NEW id \in ConnId, NEW c \in Conn, NewConn(id, c)
  PROVE  PipeInv'
<1> USE DEF NewConn, client, dispatch, serving, upward, Reading, NotSending
<1>1. EntryIsPeer' BY DEF PipeInv, EntryIsPeer, TypeOK
<1>2. ASSUME NEW d \in Conn, d # c PROVE Piped(d)'
  <2>1. InMap(d)' => InMap(d) BY <1>2 DEF InMap, TypeOK
  <2> QED BY <1>2, <2>1, Alone DEF PipeInv, TypeOK
<1>3. Piped(c)'
  <2>1. /\ sent'[c] = 0 /\ got'[c] = <<>> /\ hand'[c] = None /\ chan'[c] = <<>>
        /\ rx'[c] /\ task'[c] = "connect" /\ pending'.to # c
    BY DEF PipeInv, Piped, Unspawned, TypeOK
  <2>2. Taken(c)' = 0 BY <2>1 DEF Taken
  <2> QED BY <2>1, <2>2 DEF Piped, InOrder, UpToDate, Unspawned
<1> QED BY <1>1, <1>2, <1>3 DEF PipeInv

LEMMA DataPiped ==
  ASSUME TypeOK, PipeInv, NEW id \in ConnId, Data(id), NEW c \in Conn, c = peer[id]
  PROVE  PipeInv'
<1> USE DEF client, dispatch, serving, upward, Reading, NotSending
<1>0. /\ c \in Conn
      /\ sent' = [sent EXCEPT ![c] = @ + 1]
      /\ pending' = IF conns[id] = None THEN NotSending
                    ELSE [to |-> conns[id], item |-> Pipe!Chunk(c, sent[c] + 1)]
      /\ pending.to = None
      /\ UNCHANGED <<run, conns, peer, task, addr, rx, chan, hand, got>>
  BY DEF Data, TypeOK
<1>1. EntryIsPeer' BY <1>0 DEF PipeInv, EntryIsPeer
<1>2. pending'.to \in {None, c}
  BY <1>0 DEF PipeInv, EntryIsPeer
<1>3. ASSUME NEW d \in Conn, d # c PROVE Piped(d)'
  <2>1. InMap(d)' => InMap(d) BY <1>0 DEF InMap
  <2>2. sent'[d] = sent[d] BY <1>0, <1>3 DEF TypeOK
  <2>3. pending'.to # d /\ pending.to # d BY <1>0, <1>2, <1>3
  <2> QED BY <1>0, <2>1, <2>2, <2>3, Alone DEF PipeInv
<1>4. Piped(c)'
  <2> DEFINE k == sent[c]
  <2>1. k \in Nat /\ sent'[c] = k + 1 /\ Taken(c)' = Taken(c) /\ Taken(c) \in Nat
    BY <1>0 DEF TypeOK, Taken
  <2>2. InMap(c)' = InMap(c) /\ (InMap(c) <=> conns[id] = c)
    BY <1>0, OneEntry DEF PipeInv, InMap
  <2>3. HasSender(c)' => HasSender(c)
    BY <1>0, <2>2 DEF HasSender
  <2>4. InOrder(c)'
    <3>1. InOrder(c) BY <1>0 DEF PipeInv, Piped
    <3> QED BY <1>0, <2>1, <2>3, <3>1 DEF InOrder, TypeOK
  <2>5. UpToDate(c)'
    <3>1. UpToDate(c) BY <1>0 DEF PipeInv, Piped
    <3>2. CASE conns[id] = None
      BY <1>0, <2>1, <2>2, <3>1, <3>2 DEF UpToDate
    <3>3. CASE conns[id] = c
      <4>1. pending' = [to |-> c, item |-> Pipe!Chunk(c, k + 1)] BY <1>0, <3>3
      <4>2. pending'.item # Eof BY <4>1, <1>0 DEF Eof, Pipe!Chunk
      <4>3. rx[c] => k = Taken(c) + Len(chan[c])
        BY <1>0, <2>2, <3>1, <3>3 DEF UpToDate
      <4>4. Len(chan[c]) \in Nat BY <1>0 DEF TypeOK
      <4> QED BY <1>0, <2>1, <4>1, <4>2, <4>3, <4>4 DEF UpToDate
    <3> QED BY <1>0, <3>2, <3>3 DEF PipeInv, EntryIsPeer
  <2>6. Unspawned(c)'
    BY <1>0 DEF PipeInv, EntryIsPeer, Unspawned
  <2> QED BY <1>0, <2>4, <2>5, <2>6 DEF PipeInv, Piped
<1> QED BY <1>1, <1>3, <1>4 DEF PipeInv

LEMMA ClosePiped ==
  ASSUME TypeOK, PipeInv, NEW id \in ConnId, Close(id)
  PROVE  PipeInv'
<1> USE DEF client, dispatch, serving, upward, Reading, NotSending
<1>0. /\ conns' = [conns EXCEPT ![id] = None] /\ peer' = [peer EXCEPT ![id] = None]
      /\ pending' = [to |-> conns[id], item |-> Eof] /\ pending.to = None
      /\ UNCHANGED <<run, sent, task, addr, rx, chan, hand, got>>
  BY DEF Close
<1>1. EntryIsPeer' BY <1>0 DEF PipeInv, EntryIsPeer, TypeOK
<1>2. \A d \in Conn : InMap(d)' => InMap(d)
  BY <1>0 DEF InMap, TypeOK
<1>3. ASSUME NEW d \in Conn, d # conns[id] PROVE Piped(d)'
  BY <1>0, <1>2, <1>3, Alone DEF PipeInv
<1>4. ASSUME NEW c \in Conn, c = conns[id] PROVE Piped(c)'
  <2>1. ~InMap(c)'
    BY <1>0, <1>4 DEF PipeInv, EntryIsPeer, InMap, TypeOK
  <2>2. HasSender(c) BY <1>4 DEF HasSender, InMap
  <2>3. InOrder(c)' BY <1>0, <1>4, <2>2 DEF PipeInv, Piped, InOrder, Taken
  <2>4. UpToDate(c)' BY <1>0, <2>1 DEF UpToDate
  <2>5. Unspawned(c)' BY <1>0, <1>4, <2>2 DEF PipeInv, Piped, Unspawned
  <2> QED BY <1>0, <1>4, <2>3, <2>4, <2>5 DEF PipeInv, Piped
<1> QED BY <1>1, <1>3, <1>4 DEF PipeInv

LEMMA PushPiped == TypeOK /\ PipeInv /\ Push => PipeInv'
<1> SUFFICES ASSUME TypeOK, PipeInv, Push PROVE PipeInv'
  OBVIOUS
<1> USE DEF client, dispatch, serving, upward, NotSending
<1>0. /\ pending.to # None /\ pending' = NotSending /\ Send(pending.to)
      /\ UNCHANGED <<run, conns, peer, sent, task, addr, rx, hand, got>>
  BY DEF Push
<1>1. EntryIsPeer' BY <1>0 DEF PipeInv, EntryIsPeer
<1>2. \A d \in Conn : InMap(d)' = InMap(d)
  BY <1>0 DEF InMap
<1>3. ASSUME NEW d \in Conn, d # pending.to PROVE Piped(d)'
  <2>1. chan'[d] = chan[d] /\ pending'.to # d
    BY <1>0, <1>3 DEF Send, TypeOK
  <2> QED BY <1>0, <1>2, <1>3, <2>1, Alone DEF PipeInv
<1>4. ASSUME NEW c \in Conn, c = pending.to PROVE Piped(c)'
  <2>0. Piped(c) /\ HasSender(c) /\ Taken(c)' = Taken(c) /\ pending'.to # c
    BY <1>0, <1>4 DEF PipeInv, HasSender, Taken
  <2>1. CASE ~rx[c]
    <3>1. chan' = chan BY <1>0, <1>4, <2>1 DEF Send
    <3>2. InOrder(c)' BY <1>0, <2>0, <3>1 DEF Piped, InOrder
    <3>3. UpToDate(c)' BY <1>0, <2>0, <2>1 DEF UpToDate
    <3> QED BY <1>0, <2>0, <2>1, <3>1, <3>2, <3>3 DEF Piped, Unspawned
  <2>2. CASE rx[c]
    <3> DEFINE n == Len(chan[c])
    <3>1. chan'[c] = Append(chan[c], pending.item) /\ chan[c] \in Seq(Item) /\ pending.item \in Item
      BY <1>0, <1>4, <2>2 DEF Send, TypeOK
    <3>2. /\ n \in Nat /\ Len(chan'[c]) = n + 1
          /\ \A i \in 1 .. n : chan'[c][i] = chan[c][i]
          /\ chan'[c][n + 1] = pending.item
      BY <3>1
    <3>3. Taken(c) \in Nat /\ sent[c] \in Nat
      BY DEF Taken, TypeOK
    <3>4. \A i \in 1 .. n : chan'[c][i] = Pipe!Chunk(c, Taken(c) + i) /\ Taken(c) + i <= sent[c]
      BY <2>0, <3>2 DEF Piped, InOrder
    <3>5. CASE pending.item = Eof
      <4>1. ~InMap(c)' /\ ~HasSender(c)'
        BY <1>2, <1>4, <2>0, <3>5 DEF Piped, UpToDate, HasSender
      <4>2. \A i \in 1 .. n + 1 : i \in 1 .. n \/ i = n + 1
        BY <3>2
      <4>3. InOrder(c)'
        BY <1>0, <2>0, <3>2, <3>4, <3>5, <4>1, <4>2 DEF Piped, InOrder
      <4>4. UpToDate(c)' BY <2>0, <4>1 DEF UpToDate
      <4> QED BY <1>0, <2>0, <2>2, <4>3, <4>4 DEF Piped, Unspawned
    <3>6. CASE pending.item # Eof
      <4>1. pending.item = Pipe!Chunk(c, sent[c]) /\ sent[c] = Taken(c) + n + 1
        BY <1>4, <2>0, <2>2, <3>6 DEF Piped, UpToDate
      <4>2. \A i \in 1 .. n + 1 : i \in 1 .. n \/ i = n + 1
        BY <3>2
      <4>3. \A i \in 1 .. n + 1 :
              chan'[c][i] = Pipe!Chunk(c, Taken(c) + i) /\ Taken(c) + i <= sent[c]
        <5> SUFFICES ASSUME NEW i \in 1 .. n + 1
                     PROVE  chan'[c][i] = Pipe!Chunk(c, Taken(c) + i) /\ Taken(c) + i <= sent[c]
          OBVIOUS
        <5>1. CASE i \in 1 .. n BY <3>4, <5>1
        <5>2. CASE i = n + 1
          <6>1. Taken(c) + i = sent[c] BY <3>2, <3>3, <4>1, <5>2
          <6> QED BY <3>2, <3>3, <4>1, <5>2, <6>1
        <5> QED BY <4>2, <5>1, <5>2
      <4>4. InOrder(c)' BY <1>0, <2>0, <3>2, <4>3 DEF Piped, InOrder
      <4>5. UpToDate(c)' BY <1>0, <2>0, <3>2, <3>3, <4>1 DEF UpToDate
      <4> QED BY <1>0, <2>0, <2>2, <4>4, <4>5 DEF Piped, Unspawned
    <3> QED BY <3>5, <3>6
  <2> QED BY <2>1, <2>2
<1> QED BY <1>1, <1>3, <1>4 DEF PipeInv

LEMMA DownReceivePiped ==
  ASSUME TypeOK, PipeInv, NEW c \in Conn, DownReceive(c)
  PROVE  Piped(c)'
<1> USE DEF client, dispatch, serving, upward
<1>0. /\ task[c] = "serve" /\ hand[c] = None /\ chan[c] # <<>> /\ Head(chan[c]) # Eof
      /\ hand'[c] = Head(chan[c]) /\ chan'[c] = Tail(chan[c])
      /\ UNCHANGED <<pending, conns, sent, task, rx, got>>
  BY DEF DownReceive, TypeOK
<1>1. Piped(c) /\ chan[c] \in Seq(Item) /\ sent[c] \in Nat /\ Len(got[c]) \in Nat
  BY DEF PipeInv, TypeOK
<1> DEFINE n == Len(chan[c])
<1>2. /\ n \in Nat /\ n > 0 /\ Head(chan[c]) = chan[c][1] /\ Len(chan'[c]) = n - 1
      /\ \A i \in 1 .. n - 1 : chan'[c][i] = chan[c][i + 1]
  BY <1>0, <1>1
<1>3. Taken(c) = Len(got[c]) /\ Head(chan[c]) = Pipe!Chunk(c, Len(got[c]) + 1)
      /\ Len(got[c]) + 1 <= sent[c]
  BY <1>0, <1>1, <1>2 DEF Piped, InOrder, Taken
<1>4. hand'[c] # None
  <2>1. Pipe!Chunk(c, Len(got[c]) + 1) \in [conn : Conn, n : Nat]
    BY <1>1 DEF Pipe!Chunk
  <2> QED BY <1>0, <1>3, <2>1, ConnAssumption
<1>5. Taken(c)' = Taken(c) + 1
  BY <1>0, <1>3, <1>4 DEF Taken
<1>6. HasSender(c)' = HasSender(c) /\ InMap(c)' = InMap(c)
  BY <1>0 DEF HasSender, InMap
<1>7. ASSUME NEW i \in 1 .. n - 1
      PROVE  \/ chan'[c][i] = Pipe!Chunk(c, Taken(c)' + i) /\ Taken(c)' + i <= sent[c]
             \/ chan'[c][i] = Eof /\ i = n - 1 /\ ~HasSender(c)
  <2>0. i \in Nat /\ Taken(c) \in Nat /\ Taken(c)' = Taken(c) + 1
    BY <1>1, <1>2, <1>3, <1>5
  <2>1. i + 1 \in 1 .. n /\ Taken(c)' + i = Taken(c) + (i + 1)
    <3>1. i + 1 \in 1 .. n BY <1>2, <2>0
    <3>2. Taken(c)' + i = Taken(c) + (i + 1) BY <2>0
    <3> QED BY <3>1, <3>2
  <2>2. \/ chan[c][i + 1] = Pipe!Chunk(c, Taken(c) + (i + 1)) /\ Taken(c) + (i + 1) <= sent[c]
        \/ chan[c][i + 1] = Eof /\ i + 1 = n /\ ~HasSender(c)
    BY <1>1, <2>1 DEF Piped, InOrder
  <2> QED BY <1>2, <2>1, <2>2
<1>8. InOrder(c)'
  BY <1>0, <1>1, <1>2, <1>3, <1>5, <1>6, <1>7 DEF InOrder, Piped
<1>9. UpToDate(c)'
  <2>1. Taken(c)' + Len(chan'[c]) = Taken(c) + Len(chan[c])
    <3>1. Taken(c) \in Nat BY <1>1, <1>3
    <3> HIDE DEF n
    <3>2. Taken(c)' + (n - 1) = Taken(c) + n BY <1>2, <1>5, <3>1
    <3> QED BY <1>2, <3>2 DEF n
  <2> QED BY <1>0, <1>1, <1>6, <2>1 DEF UpToDate, Piped
<1> QED BY <1>0, <1>1, <1>8, <1>9 DEF Piped, Unspawned

LEMMA DownWritePiped ==
  ASSUME TypeOK, PipeInv, NEW c \in Conn, DownWrite(c)
  PROVE  /\ Piped(c)'
         /\ Len(got[c]) < sent[c]
         /\ got' = [got EXCEPT ![c] = Append(@, Pipe!Chunk(c, Len(@) + 1))]
<1> USE DEF client, dispatch, serving, upward
<1>0. /\ task[c] = "serve" /\ hand[c] # None
      /\ hand'[c] = None /\ got' = [got EXCEPT ![c] = Append(@, hand[c])]
      /\ UNCHANGED <<pending, conns, sent, task, rx, chan>>
  BY DEF DownWrite, TypeOK
<1>1. Piped(c) /\ got[c] \in Seq(Item) /\ sent[c] \in Nat /\ Len(got[c]) \in Nat
  BY DEF PipeInv, TypeOK
<1>2. hand[c] = Pipe!Chunk(c, Len(got[c]) + 1) /\ Taken(c) = Len(got[c]) + 1
  BY <1>0, <1>1 DEF Piped, InOrder, Taken
<1>3. got'[c] = Append(got[c], hand[c]) /\ hand[c] \in Item
  BY <1>0 DEF TypeOK
<1>4. /\ Len(got'[c]) = Len(got[c]) + 1
      /\ \A i \in 1 .. Len(got[c]) + 1 : got'[c][i] = Pipe!Chunk(c, i)
  BY <1>1, <1>2, <1>3 DEF Piped, InOrder
<1>5. Taken(c)' = Taken(c)
  BY <1>0, <1>1, <1>2, <1>4 DEF Taken
<1>6. HasSender(c)' = HasSender(c) /\ InMap(c)' = InMap(c)
  BY <1>0 DEF HasSender, InMap
<1>7. InOrder(c)' BY <1>0, <1>1, <1>4, <1>5, <1>6 DEF InOrder, Piped
<1>8. UpToDate(c)' BY <1>0, <1>1, <1>5, <1>6 DEF UpToDate, Piped
<1>9. Len(got[c]) < sent[c] BY <1>1, <1>2 DEF Piped, InOrder
<1>10. got' = [got EXCEPT ![c] = Append(@, Pipe!Chunk(c, Len(@) + 1))]
  BY <1>0, <1>2
<1>11. Piped(c)' BY <1>0, <1>1, <1>7, <1>8 DEF Piped, Unspawned
<1> QED BY <1>9, <1>10, <1>11

\* up starts with a connection that was spawned
LEMMA UpStep == TypeOK /\ UpSpawned /\ [Next]_vars => UpSpawned'
<1> SUFFICES ASSUME TypeOK, UpSpawned, [Next]_vars PROVE UpSpawned'
  OBVIOUS
<1> USE DEF client, dispatch, serving, upward, UpSpawned, TypeOK
<1>1. ASSUME UNCHANGED <<task, up>> PROVE UpSpawned'
  BY <1>1
<1>2. CASE Loop \/ Break
  BY <1>1, <1>2 DEF Loop, Connect, ConnectFails, Disconnect, Clear, Wake, Break
<1>3. CASE Server \/ Push
  <2>1. ASSUME NEW id \in ConnId, NEW c \in Conn, NewConn(id, c) PROVE UpSpawned'
    BY <2>1 DEF NewConn
  <2> QED BY <1>1, <1>3, <2>1 DEF Server, Push, Data, Close
<1>4. ASSUME NEW c \in Conn, Local(c) PROVE UpSpawned'
  BY <1>4 DEF Local, LocalConnect, LocalRefused, DownReceive, DownWrite, DownEnds, DownFails, End
<1>5. ASSUME NEW c \in Conn, Up(c) \/ Remove(c) PROVE UpSpawned'
  BY <1>5 DEF Up, UpRead, UpBegin, UpComplete, UpFails, UpCloses, Remove
<1>6. CASE PingBegin \/ PingComplete \/ UNCHANGED vars
  BY <1>1, <1>6 DEF PingBegin, PingComplete, vars
<1> QED BY <1>2, <1>3, <1>4, <1>5, <1>6 DEF Next

\* every step preserves the invariant
LEMMA PipeStep == TypeOK /\ UpSpawned /\ PipeInv /\ [Next]_vars => PipeInv'
<1> SUFFICES ASSUME TypeOK, UpSpawned, PipeInv, [Next]_vars PROVE PipeInv'
  OBVIOUS
<1> USE DEF client, dispatch, serving, upward
<1>1. ASSUME UNCHANGED <<run, dispatch, task, addr, rx, chan, hand, got>> PROVE PipeInv'
  <2>1. EntryIsPeer' BY <1>1 DEF PipeInv, EntryIsPeer
  <2>2. \A d \in Conn : InMap(d)' => InMap(d) BY <1>1 DEF InMap
  <2> QED BY <1>1, <2>1, <2>2, Alone DEF PipeInv
\* the map loses entries, and nothing else happens to a connection
<1>2. ASSUME \A d \in Conn : InMap(d)' => InMap(d),
             \A d \in Conn : task'[d] = "new" => task[d] = "new",
             UNCHANGED <<pending, sent, rx, chan, hand, got>>
      PROVE  \A d \in Conn : Piped(d)'
  BY <1>2, Alone DEF PipeInv
\* one connection changes, the others keep what they have
<1>3. ASSUME NEW c \in Conn, Piped(c)', task[c] # "new", task'[c] # "new",
             \A d \in Conn \ {c} : /\ got'[d] = got[d] /\ hand'[d] = hand[d]
                                   /\ chan'[d] = chan[d] /\ rx'[d] = rx[d]
                                   /\ task'[d] = task[d],
             UNCHANGED <<run, dispatch, addr>>
      PROVE  PipeInv'
  <2>1. ASSUME NEW d \in Conn, d # c PROVE Piped(d)'
    <3>1. InMap(d)' => InMap(d) BY <1>3 DEF InMap
    <3> QED BY <1>3, <2>1, <3>1, Alone DEF PipeInv
  <2>2. \A d \in Conn : task[d] # "new" => task'[d] # "new"
    BY <1>3
  <2>3. EntryIsPeer' BY <1>3, <2>2 DEF PipeInv, EntryIsPeer, TypeOK
  <2> QED BY <1>3, <2>1, <2>3 DEF PipeInv
<1>4. CASE Connect \/ ConnectFails \/ Disconnect \/ Clear \/ Wake
  <2>1. \A d \in Conn : InMap(d)' => InMap(d)
    BY <1>4, ConnAssumption
       DEF Connect, ConnectFails, Disconnect, Clear, Cleared, Wake, InMap
  <2>2. UNCHANGED <<pending, sent, task, addr, rx, chan, hand, got>>
    BY <1>4 DEF Connect, ConnectFails, Disconnect, Clear, Wake
  <2>3. EntryIsPeer'
    <3> USE <2>2 DEF PipeInv, EntryIsPeer
    <3>1. CASE Connect BY <3>1 DEF Connect
    <3>2. CASE ConnectFails BY <3>2 DEF ConnectFails
    <3>3. CASE Disconnect BY <3>3 DEF Disconnect
    <3>4. CASE Clear BY <3>4 DEF Clear, Cleared
    <3>5. CASE Wake BY <3>5 DEF Wake
    <3> QED BY <1>4, <3>1, <3>2, <3>3, <3>4, <3>5
  <2> QED BY <1>2, <2>1, <2>2, <2>3 DEF PipeInv
<1>5. CASE Break BY <1>1, <1>5 DEF Break
<1>6. ASSUME NEW id \in ConnId, NEW c \in Conn, NewConn(id, c) PROVE PipeInv'
  BY <1>6, NewConnPiped
<1>7. ASSUME NEW id \in ConnId, Data(id) PROVE PipeInv'
  <2>1. peer[id] \in Conn BY <1>7 DEF Data, TypeOK
  <2> QED BY <1>7, <2>1, DataPiped
<1>8. ASSUME NEW id \in ConnId, Close(id) PROVE PipeInv'
  BY <1>8, ClosePiped
<1>9. ASSUME NEW c \in Conn, LocalConnect(c) PROVE PipeInv'
  <2>1. /\ task[c] = "connect" /\ task' = [task EXCEPT ![c] = "serve"]
        /\ UNCHANGED <<run, dispatch, addr, rx, chan, hand, got>>
    BY <1>9 DEF LocalConnect
  <2>2. \A d \in Conn : task'[d] = "new" <=> task[d] = "new"
    BY <2>1 DEF TypeOK
  <2>3. \A d \in Conn : InMap(d)' => InMap(d) BY <2>1 DEF InMap
  <2>4. EntryIsPeer' BY <2>1, <2>2 DEF PipeInv, EntryIsPeer, TypeOK
  <2> QED BY <1>2, <2>1, <2>2, <2>3, <2>4 DEF PipeInv
<1>10. ASSUME NEW c \in Conn, LocalRefused(c) PROVE PipeInv'
  <2>1. /\ task[c] = "connect" /\ task' = [task EXCEPT ![c] = "failed"]
        /\ rx' = [rx EXCEPT ![c] = FALSE] /\ chan' = [chan EXCEPT ![c] = <<>>]
        /\ UNCHANGED <<run, dispatch, addr, hand, got>>
    BY <1>10 DEF LocalRefused
  <2>2. /\ task'[c] = "failed" /\ ~rx'[c] /\ chan'[c] = <<>>
        /\ \A d \in Conn \ {c} : chan'[d] = chan[d] /\ rx'[d] = rx[d] /\ task'[d] = task[d]
    BY <2>1 DEF TypeOK
  <2>3. Piped(c)' BY <2>1, <2>2, Cut DEF PipeInv
  <2> QED BY <1>3, <2>1, <2>2, <2>3
<1>11. ASSUME NEW c \in Conn, DownReceive(c) PROVE PipeInv'
  <2>1. Piped(c)' BY <1>11, DownReceivePiped
  <2>2. /\ task[c] = "serve" /\ UNCHANGED <<run, dispatch, task, addr, rx, got>>
        /\ \A d \in Conn \ {c} : chan'[d] = chan[d] /\ hand'[d] = hand[d]
    BY <1>11 DEF DownReceive, TypeOK
  <2> QED BY <1>3, <2>1, <2>2
<1>12. ASSUME NEW c \in Conn, DownWrite(c) PROVE PipeInv'
  <2>1. Piped(c)' BY <1>12, DownWritePiped
  <2>2. /\ task[c] = "serve" /\ UNCHANGED <<run, dispatch, task, addr, rx, chan>>
        /\ \A d \in Conn \ {c} : got'[d] = got[d] /\ hand'[d] = hand[d]
    BY <1>12 DEF DownWrite, TypeOK
  <2> QED BY <1>3, <2>1, <2>2
<1>13. ASSUME NEW c \in Conn, task[c] # "new", task' = [task EXCEPT ![c] = "ended"],
              DropReceiver(c), hand' = [hand EXCEPT ![c] = None],
              UNCHANGED <<run, dispatch, addr, got>>
       PROVE  PipeInv'
  <2>1. /\ task'[c] = "ended" /\ ~rx'[c] /\ chan'[c] = <<>> /\ hand'[c] = None
        /\ \A d \in Conn \ {c} : /\ chan'[d] = chan[d] /\ rx'[d] = rx[d]
                                 /\ hand'[d] = hand[d] /\ task'[d] = task[d]
    BY <1>13 DEF DropReceiver, TypeOK
  <2>2. Piped(c)' BY <1>13, <2>1, Cut DEF PipeInv
  <2> QED BY <1>3, <1>13, <2>1, <2>2
<1>14. ASSUME NEW c \in Conn, DownEnds(c) \/ DownFails(c) PROVE PipeInv'
  BY <1>13, <1>14 DEF DownEnds, DownFails, End
<1>15. ASSUME NEW c \in Conn, UpCloses(c) PROVE PipeInv'
  <2>1. task[c] # "new" BY <1>15 DEF UpCloses, UpSpawned
  <2> QED BY <1>13, <1>15, <2>1 DEF UpCloses
<1>16. ASSUME NEW c \in Conn, Remove(c) PROVE PipeInv'
  <2>1. /\ task[c] = "ended" /\ task' = [task EXCEPT ![c] = "gone"]
        /\ conns' = [conns EXCEPT ![addr[c].id] = None]
        /\ UNCHANGED <<run, pending, peer, sent, addr, rx, chan, hand, got>>
    BY <1>16 DEF Remove
  <2>2. \A d \in Conn : InMap(d)' => InMap(d) BY <2>1 DEF InMap, TypeOK
  <2>3. \A d \in Conn : task'[d] = "new" <=> task[d] = "new" BY <2>1 DEF TypeOK
  <2>4. EntryIsPeer' BY <2>1, <2>3 DEF PipeInv, EntryIsPeer, TypeOK
  <2> QED BY <1>2, <2>1, <2>2, <2>3, <2>4 DEF PipeInv
<1>17. ASSUME NEW c \in Conn, UpRead(c) \/ UpBegin(c) \/ UpComplete(c) \/ UpFails(c) PROVE PipeInv'
  BY <1>1, <1>17 DEF UpRead, UpBegin, UpComplete, UpFails
<1>18. CASE PingBegin \/ PingComplete
  BY <1>1, <1>18 DEF PingBegin, PingComplete
<1>19. CASE UNCHANGED vars BY <1>1, <1>19 DEF vars
<1> QED
  BY <1>4, <1>5, <1>6, <1>7, <1>8, <1>9, <1>10, <1>11, <1>12, <1>14, <1>15, <1>16, <1>17, <1>18,
     <1>19, PushPiped
  DEF Next, Loop, Server, Local, Up

\* a step of the tunnel is a step of the pipes: the server sends, a local end
\* receives, or neither
LEMMA PipeRefines == TypeOK /\ PipeInv /\ [Next]_vars => [Pipe!Next]_<<sent, got>>
<1> SUFFICES ASSUME TypeOK, PipeInv, [Next]_vars, UNCHANGED <<sent, got>> => FALSE
             PROVE  Pipe!Next
  OBVIOUS
<1> USE DEF client, dispatch, serving, upward
<1>1. ASSUME NEW id \in ConnId, Data(id) PROVE Pipe!Next
  <2>1. peer[id] \in Conn /\ sent' = [sent EXCEPT ![peer[id]] = @ + 1] /\ UNCHANGED got
    BY <1>1 DEF Data, TypeOK
  <2> QED BY <2>1 DEF Pipe!Next, Pipe!Send
<1>2. ASSUME NEW c \in Conn, DownWrite(c) PROVE Pipe!Next
  <2>1. UNCHANGED sent BY <1>2 DEF DownWrite
  <2> QED BY <1>2, <2>1, DownWritePiped DEF Pipe!Next, Pipe!Receive
<1>3. CASE Loop \/ Break \/ Push \/ PingBegin \/ PingComplete \/ UNCHANGED vars
  BY <1>3 DEF Loop, Connect, ConnectFails, Disconnect, Clear, Wake, Break, Push,
              PingBegin, PingComplete, vars
<1>4. ASSUME NEW id \in ConnId, Close(id) \/ \E c \in Conn : NewConn(id, c) PROVE Pipe!Next
  BY <1>4 DEF Close, NewConn
<1>5. ASSUME NEW c \in Conn,
             LocalConnect(c) \/ LocalRefused(c) \/ DownReceive(c) \/ DownEnds(c) \/ DownFails(c)
      PROVE  Pipe!Next
  BY <1>5 DEF LocalConnect, LocalRefused, DownReceive, DownEnds, DownFails, End
<1>6. ASSUME NEW c \in Conn, Up(c) \/ Remove(c) PROVE Pipe!Next
  BY <1>6 DEF Up, UpRead, UpBegin, UpComplete, UpFails, UpCloses, Remove
<1> QED BY <1>1, <1>2, <1>3, <1>4, <1>5, <1>6 DEF Next, Server, Local

\* What the local end of a connection reads is a gapless prefix of what the server
\* sent on it, for any number of connections and reused ids (the conns map and the
\* bounded channels of connect_and_serve and serve_conn).
THEOREM TunnelImplementsPipes == Spec => ImplementsPipes
<1>1. Init => PipeInv /\ UpSpawned /\ Pipe!Init
  BY DEF Init, PipeInv, EntryIsPeer, Piped, InOrder, UpToDate, Unspawned, Taken, HasSender,
         InMap, UpSpawned, NotSending, Pipe!Init
<1> QED BY <1>1, InitType, NextType, UpStep, PipeStep, PipeRefines, PTL
        DEF Spec, ImplementsPipes, Pipe!Spec
=============================================================================

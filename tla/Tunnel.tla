------------------------------- MODULE Tunnel -------------------------------
(* The tunnel client (tunnel.rs): one TLS connection to the server carries   *)
(* the traffic of many connections to local ports.  A dispatcher reads the   *)
(* frames of the server and passes their data through a bounded channel to   *)
(* the task of the connection (serve_conn), which writes it to the local     *)
(* port (down) and sends what it reads there back in frames (up).  When the  *)
(* tunnel breaks, the client connects again; tasks of the old tunnel may     *)
(* live on meanwhile.                                                        *)
EXTENDS Naturals, Sequences

CONSTANTS
  Conn,       \* connections the server may open, one per NEW_CONN frame
  ConnId,     \* the ids it gives them, reused freely
  Capacity,   \* of the channel of a connection (256)
  MaxSession, \* bound on the tunnels the client sets up
  MaxData,    \* bound on the DATA frames to one connection
  Talkers,    \* connections whose local end may send or close, and Ping
  None        \* no connection, nothing in hand

ASSUME ConnAssumption == None \notin Conn \cup [conn : Conn, n : Nat]
ASSUME BoundAssumption == Capacity \in Nat \ {0} /\ MaxSession \in Nat /\ MaxData \in Nat

VARIABLES
  run,     \* where the reconnect loop is
  session, \* number of the tunnel in use, or last in use
  broken,  \* the connection under it is gone
  conns,   \* TunnelClient.conns: connection with a channel, by id
  pending, \* what the dispatcher is sending into a channel, with conns locked
  peer,    \* peer[id]: connection the server means by id
  task,    \* task[c]: where serve_conn is
  addr,    \* addr[c]: id and tunnel of the connection
  rx,      \* rx[c]: the receiver of its channel exists
  chan,    \* chan[c]: its channel
  hand,    \* hand[c]: chunk down is writing to the local port
  up,      \* up[c]: where up is
  writer,  \* writer[s]: who has the write half of tunnel s locked
  frame,   \* frame[s]: whose frame is the last on tunnel s, begun and not complete
  dropped, \* dropped[s]: a frame on tunnel s was left incomplete
  garbled, \* garbled[s]: another frame began within it
  sent,    \* history: number of DATA frames the server sent to c
  got      \* history: chunks written to the local port of c

client == <<run, session, broken>>
dispatch == <<conns, pending, peer, sent>>
serving == <<task, addr, rx, chan, hand, got>>
upward == <<up, writer, frame, dropped, garbled>>
vars == <<client, dispatch, serving, upward>>
----------------------------------------------------------------------------
Pipe == INSTANCE TunnelPipe

Sessions == 0 .. MaxSession

\* the chunk that tells down to end: an empty vector
Eof == [conn |-> None, n |-> 0]
Item == [conn : Conn, n : 1 .. MaxData] \cup {Eof}
Ping == "ping"

TypeOK ==
  /\ run \in {"connect", "serve", "clear", "sleep"}
  /\ session \in Sessions
  /\ broken \in BOOLEAN
  /\ conns \in [ConnId -> Conn \cup {None}]
  /\ pending \in [to : Conn \cup {None}, item : Item]
  /\ peer \in [ConnId -> Conn \cup {None}]
  /\ task \in [Conn -> {"new", "connect", "serve", "ended", "gone", "failed"}]
  /\ addr \in [Conn -> [id : ConnId \cup {None}, session : Sessions]]
  /\ rx \in [Conn -> BOOLEAN]
  /\ chan \in [Conn -> Seq(Item)]
  /\ \A c \in Conn : Len(chan[c]) <= Capacity
  /\ hand \in [Conn -> Item \cup {None}]
  /\ up \in [Conn -> {"idle", "read", "data", "writing", "close", "closing"}]
  /\ writer \in [Sessions -> Conn \cup {None, Ping}]
  /\ frame \in [Sessions -> Conn \cup {None, Ping}]
  /\ dropped \in [Sessions -> BOOLEAN]
  /\ garbled \in [Sessions -> BOOLEAN]
  /\ sent \in [Conn -> 0 .. MaxData]
  /\ got \in [Conn -> Seq(Item)]

\* nothing to send: conns is not locked across an await
NotSending == [to |-> None, item |-> Eof]

Init ==
  /\ run = "connect" /\ session = 0 /\ broken = TRUE
  /\ conns = [id \in ConnId |-> None]
  /\ pending = NotSending
  /\ peer = [id \in ConnId |-> None]
  /\ task = [c \in Conn |-> "new"]
  /\ addr = [c \in Conn |-> [id |-> None, session |-> 0]]
  /\ rx = [c \in Conn |-> FALSE]
  /\ chan = [c \in Conn |-> <<>>]
  /\ hand = [c \in Conn |-> None]
  /\ up = [c \in Conn |-> "idle"]
  /\ writer = [s \in Sessions |-> None]
  /\ frame = [s \in Sessions |-> None]
  /\ dropped = [s \in Sessions |-> FALSE]
  /\ garbled = [s \in Sessions |-> FALSE]
  /\ sent = [c \in Conn |-> 0]
  /\ got = [c \in Conn |-> <<>>]
----------------------------------------------------------------------------
(* The reconnect loop.                                                       *)

\* TCP, TLS and the handshake done, or not; a new tunnel starts with no connection
Connect ==
  /\ run = "connect"
  /\ session < MaxSession
  /\ run' = "serve" /\ session' = session + 1 /\ broken' = FALSE
  /\ peer' = [id \in ConnId |-> None]
  /\ UNCHANGED <<conns, pending, sent, serving, upward>>

ConnectFails ==
  /\ run = "connect"
  /\ run' = "clear"
  /\ UNCHANGED <<session, broken, dispatch, serving, upward>>

\* the connection under the tunnel ends or fails
Break ==
  /\ ~broken
  /\ broken' = TRUE
  /\ UNCHANGED <<run, session, dispatch, serving, upward>>

\* which the dispatcher notices when it reads, not while it sends; the ping task is
\* aborted, with the write half in hand or not
Disconnect ==
  /\ run = "serve" /\ broken /\ pending = NotSending
  /\ run' = "clear"
  /\ writer' = [writer EXCEPT ![session] = IF @ = Ping THEN None ELSE @]
  /\ UNCHANGED <<session, broken, dispatch, serving, up, frame, dropped, garbled>>

\* mutant: the connections of the old tunnel are left in the map
KeepsEntries == conns

\* all channels lose their sender
Cleared == [id \in ConnId |-> None]

Clear ==
  /\ run = "clear"
  /\ run' = "sleep"
  /\ conns' = Cleared
  /\ UNCHANGED <<session, broken, pending, peer, sent, serving, upward>>

Wake ==
  /\ run = "sleep"
  /\ run' = "connect"
  /\ UNCHANGED <<session, broken, dispatch, serving, upward>>
----------------------------------------------------------------------------
(* The dispatcher: a frame of the server at a time.                          *)

Reading == run = "serve" /\ ~broken /\ pending = NotSending

\* a channel in the map, in the place of another one if the id is in use; the task
\* is spawned
NewConn(id, c) ==
  /\ Reading
  /\ task[c] = "new"
  /\ task' = [task EXCEPT ![c] = "connect"]
  /\ conns' = [conns EXCEPT ![id] = c]
  /\ peer' = [peer EXCEPT ![id] = c]
  /\ addr' = [addr EXCEPT ![c] = [id |-> id, session |-> session]]
  /\ rx' = [rx EXCEPT ![c] = TRUE]
  /\ UNCHANGED <<client, pending, sent, chan, hand, got, upward>>

\* data for an open connection, dropped when there is no entry
Data(id) ==
  /\ Reading
  /\ peer[id] # None
  /\ LET c == peer[id]
     IN  /\ sent[c] < MaxData
         /\ sent' = [sent EXCEPT ![c] = @ + 1]
         /\ pending' = IF conns[id] = None THEN NotSending
                       ELSE [to |-> conns[id], item |-> Pipe!Chunk(c, sent[c] + 1)]
  /\ UNCHANGED <<client, conns, peer, serving, upward>>

\* the entry is removed, its task told to end
Close(id) ==
  /\ Reading
  /\ peer' = [peer EXCEPT ![id] = None]
  /\ conns' = [conns EXCEPT ![id] = None]
  /\ pending' = [to |-> conns[id], item |-> Eof]
  /\ UNCHANGED <<client, sent, serving, upward>>

\* mutant: one too many
RoomForOneMore(c) == Len(chan[c]) <= Capacity

HasRoom(c) == Len(chan[c]) < Capacity

\* mutant: does not wait for room, and loses the chunk
DropsWhenFull(c) ==
  chan' = IF rx[c] /\ HasRoom(c) THEN [chan EXCEPT ![c] = Append(@, pending.item)] ELSE chan

\* send waits for room, and fails once there is no receiver
Send(c) ==
  /\ rx[c] => HasRoom(c)
  /\ chan' = IF rx[c] THEN [chan EXCEPT ![c] = Append(@, pending.item)] ELSE chan

Push ==
  /\ pending.to # None
  /\ Send(pending.to)
  /\ pending' = NotSending
  /\ UNCHANGED <<client, conns, peer, sent, task, addr, rx, hand, got, upward>>
----------------------------------------------------------------------------
(* serve_conn.                                                               *)

LocalConnect(c) ==
  /\ task[c] = "connect"
  /\ task' = [task EXCEPT ![c] = "serve"]
  /\ up' = [up EXCEPT ![c] = "read"]
  /\ UNCHANGED <<client, dispatch, addr, rx, chan, hand, got, writer, frame, dropped, garbled>>

\* returns early: no CLOSE to the server, and the entry stays
LocalRefused(c) ==
  /\ task[c] = "connect"
  /\ task' = [task EXCEPT ![c] = "failed"]
  /\ rx' = [rx EXCEPT ![c] = FALSE]
  /\ chan' = [chan EXCEPT ![c] = <<>>]
  /\ UNCHANGED <<client, dispatch, addr, hand, got, upward>>

\* mutant: the receiver lives on until the task is gone
KeepsReceiver(c) == UNCHANGED <<rx, chan>>

DropReceiver(c) ==
  /\ rx' = [rx EXCEPT ![c] = FALSE]
  /\ chan' = [chan EXCEPT ![c] = <<>>]

\* select! is over when one half is, and drops the other: the receiver goes, and up
\* lets go of the write half wherever it is in a frame
End(c) ==
  LET s == addr[c].session
  IN  /\ task' = [task EXCEPT ![c] = "ended"]
      /\ DropReceiver(c)
      /\ hand' = [hand EXCEPT ![c] = None]
      /\ up' = [up EXCEPT ![c] = "idle"]
      /\ writer' = [writer EXCEPT ![s] = IF @ = c THEN None ELSE @]
      /\ dropped' = [dropped EXCEPT ![s] = @ \/ writer[s] = c]
      /\ UNCHANGED <<client, dispatch, addr, got, frame, garbled>>

InMap(c) == \E id \in ConnId : conns[id] = c

\* mutant: the task keeps the sender it was spawned with
KeepsSender(c) == InMap(c) \/ pending.to = c \/ task[c] \in {"connect", "serve"}

HasSender(c) == InMap(c) \/ pending.to = c

DownReceive(c) ==
  /\ task[c] = "serve" /\ hand[c] = None
  /\ chan[c] # <<>> /\ Head(chan[c]) # Eof
  /\ hand' = [hand EXCEPT ![c] = Head(chan[c])]
  /\ chan' = [chan EXCEPT ![c] = Tail(@)]
  /\ UNCHANGED <<client, dispatch, task, addr, rx, got, upward>>

\* the local end takes the chunk
DownWrite(c) ==
  /\ task[c] = "serve" /\ hand[c] # None
  /\ got' = [got EXCEPT ![c] = Append(@, hand[c])]
  /\ hand' = [hand EXCEPT ![c] = None]
  /\ UNCHANGED <<client, dispatch, task, addr, rx, chan, upward>>

\* told to end, or the channel is empty and without a sender; no CLOSE follows
DownEnds(c) ==
  /\ task[c] = "serve" /\ hand[c] = None
  /\ \/ chan[c] # <<>> /\ Head(chan[c]) = Eof
     \/ chan[c] = <<>> /\ ~HasSender(c)
  /\ End(c)

DownFails(c) ==
  /\ task[c] = "serve" /\ hand[c] # None
  /\ End(c)

\* conns is locked for a moment; whatever entry has the id is removed
Remove(c) ==
  /\ task[c] = "ended" /\ pending = NotSending
  /\ task' = [task EXCEPT ![c] = "gone"]
  /\ conns' = [conns EXCEPT ![addr[c].id] = None]
  /\ UNCHANGED <<client, pending, peer, sent, addr, rx, chan, hand, got, upward>>
----------------------------------------------------------------------------
(* up and the ping task: frames on the write half of the tunnel.             *)

UpRead(c) ==
  /\ up[c] = "read" /\ c \in Talkers
  /\ \E next \in {"data", "close"} : up' = [up EXCEPT ![c] = next]
  /\ UNCHANGED <<client, dispatch, serving, writer, frame, dropped, garbled>>

\* nothing more arrives at the server
Dead(s) == s # session \/ broken

\* mutant: the write half is not locked for the whole frame
Unguarded(s) == TRUE

WriterFree(s) == writer[s] = None

Begin(w, s) ==
  /\ WriterFree(s)
  /\ writer' = [writer EXCEPT ![s] = w]
  /\ garbled' = [garbled EXCEPT ![s] = @ \/ (~Dead(s) /\ frame[s] # None)]
  /\ frame' = [frame EXCEPT ![s] = w]
  /\ UNCHANGED dropped

\* the last byte of the frame is out
Complete(w, s) ==
  /\ writer' = [writer EXCEPT ![s] = None]
  /\ frame' = [frame EXCEPT ![s] = None]
  /\ UNCHANGED <<dropped, garbled>>

UpBegin(c) ==
  /\ \/ up[c] = "data" /\ up' = [up EXCEPT ![c] = "writing"]
     \/ up[c] = "close" /\ up' = [up EXCEPT ![c] = "closing"]
  /\ Begin(c, addr[c].session)
  /\ UNCHANGED <<client, dispatch, serving>>

UpComplete(c) ==
  /\ up[c] = "writing"
  /\ up' = [up EXCEPT ![c] = "read"]
  /\ Complete(c, addr[c].session)
  /\ UNCHANGED <<client, dispatch, serving>>

\* the write fails: on to the CLOSE frame, which will not get out either
UpFails(c) ==
  /\ up[c] = "writing" /\ Dead(addr[c].session)
  /\ up' = [up EXCEPT ![c] = "close"]
  /\ writer' = [writer EXCEPT ![addr[c].session] = None]
  /\ UNCHANGED <<client, dispatch, serving, frame, dropped, garbled>>

\* CLOSE is out, or not; up is done, and with it select!
UpCloses(c) ==
  LET s == addr[c].session
  IN  /\ up[c] = "closing"
      /\ task' = [task EXCEPT ![c] = "ended"]
      /\ DropReceiver(c)
      /\ hand' = [hand EXCEPT ![c] = None]
      /\ up' = [up EXCEPT ![c] = "idle"]
      /\ Complete(c, s)
      /\ UNCHANGED <<client, dispatch, addr, got>>

PingBegin ==
  /\ run = "serve" /\ Ping \in Talkers
  /\ Begin(Ping, session)
  /\ UNCHANGED <<client, dispatch, serving, up>>

PingComplete ==
  /\ run = "serve" /\ writer[session] = Ping
  /\ Complete(Ping, session)
  /\ UNCHANGED <<client, dispatch, serving, up>>
----------------------------------------------------------------------------
Loop == Connect \/ ConnectFails \/ Disconnect \/ Clear \/ Wake

Server ==
  \/ \E id \in ConnId, c \in Conn : NewConn(id, c)
  \/ \E id \in ConnId : Data(id) \/ Close(id)

Local(c) ==
  \/ LocalConnect(c) \/ LocalRefused(c)
  \/ DownReceive(c) \/ DownWrite(c) \/ DownEnds(c) \/ DownFails(c)

Up(c) == UpRead(c) \/ UpBegin(c) \/ UpComplete(c) \/ UpFails(c) \/ UpCloses(c)

Next ==
  \/ Loop \/ Break \/ Server \/ Push
  \/ \E c \in Conn : Local(c) \/ Up(c) \/ Remove(c)
  \/ PingBegin \/ PingComplete

Spec == Init /\ [][Next]_vars

\* the runtime polls every task that can go on, and the local end of a connection
\* takes what is written to it or closes; the server owes no frame
Fairness ==
  /\ WF_vars(Disconnect) /\ WF_vars(Clear) /\ WF_vars(Push)
  /\ \A c \in Conn :
       /\ WF_vars(LocalConnect(c) \/ LocalRefused(c))
       /\ WF_vars(DownReceive(c)) /\ WF_vars(DownWrite(c) \/ DownFails(c))
       /\ WF_vars(DownEnds(c)) /\ WF_vars(Remove(c))

FairSpec == Spec /\ Fairness
----------------------------------------------------------------------------
Open(c) == task[c] \in {"connect", "serve"}

\* What the local end of a connection reads is what the server sent on that very
\* connection, in order and without a gap, although ids are reused, entries are
\* replaced and removed under the dispatcher, and tunnels are set up anew.
ImplementsPipes == Pipe!Spec

\* Frames of connections and pings never run into one another on the tunnel, unless
\* a connection whose local end is done was dropped within a frame it was sending.
FramesIntact == \A s \in Sessions : garbled[s] => dropped[s]

\* The dispatcher, which keeps the map of connections locked while it waits for room
\* in a channel, comes back, even when the connection it waits for ends meanwhile
\* and itself waits for the map.
DispatcherReturns == (pending # NotSending) ~> (pending = NotSending)

\* No connection outlives its tunnel for ever.
OrphansEnd == \A c \in Conn : (Open(c) /\ Dead(addr[c].session)) ~> ~Open(c)

\* The client keeps no local connection open that it no longer serves: a chunk the
\* server sent on a connection reaches the local end, or that local connection ends,
\* also when the cleanup of an earlier connection has removed its entry from the map
\* (tunnel.rs:315) and all later chunks are dropped (242).  This is about the client's
\* side alone: the server is not told that the connection ended, and may go on sending.
SentArrivesOrEnds ==
  \A c \in Conn, n \in 1 .. MaxData : (sent[c] >= n) ~> (Len(got[c]) >= n \/ ~Open(c))
----------------------------------------------------------------------------
(* The inductive invariants behind ImplementsPipes and FramesIntact.         *)

\* chunks of c that left its channel
Taken(c) == Len(got[c]) + (IF hand[c] = None THEN 0 ELSE 1)

\* the map leads to the connection the server means, under the id it was given
EntryIsPeer ==
  \A id \in ConnId :
    /\ conns[id] # None => conns[id] = peer[id] /\ run \in {"serve", "clear"}
    /\ peer[id] # None => addr[peer[id]].id = id /\ task[peer[id]] # "new"

\* what was received, is being written and waits in the channel are the chunks of c
\* in turn; only the last in a channel that nobody sends to any more is the end
InOrder(c) ==
  /\ \A i \in 1 .. Len(got[c]) : got[c][i] = Pipe!Chunk(c, i)
  /\ hand[c] # None => hand[c] = Pipe!Chunk(c, Len(got[c]) + 1)
  /\ \A i \in 1 .. Len(chan[c]) :
       \/ chan[c][i] = Pipe!Chunk(c, Taken(c) + i) /\ Taken(c) + i <= sent[c]
       \/ chan[c][i] = Eof /\ i = Len(chan[c]) /\ ~HasSender(c)
  /\ Taken(c) <= sent[c]

\* a connection that can still be sent to has got all there is
UpToDate(c) ==
  /\ rx[c] /\ pending.to # c /\ InMap(c) => sent[c] = Taken(c) + Len(chan[c])
  /\ pending.to = c /\ pending.item # Eof =>
       /\ pending.item = Pipe!Chunk(c, sent[c])
       /\ rx[c] => sent[c] = Taken(c) + Len(chan[c]) + 1
  /\ pending.to = c /\ pending.item = Eof => ~InMap(c)

Unspawned(c) ==
  task[c] = "new" => /\ sent[c] = 0 /\ got[c] = <<>> /\ hand[c] = None /\ chan[c] = <<>>
                     /\ ~HasSender(c)

\* only a spawned connection has an up
UpSpawned == \A c \in Conn : up[c] # "idle" => task[c] # "new"

Piped(c) == InOrder(c) /\ UpToDate(c) /\ Unspawned(c) /\ (chan[c] # <<>> => rx[c])

PipeInv == EntryIsPeer /\ \A c \in Conn : Piped(c)

\* tunnels to come are unused
FreshSessions ==
  /\ \A s \in Sessions : s > session => frame[s] = None /\ ~garbled[s]
  /\ \A c \in Conn : addr[c].session <= session

\* on a tunnel that works, frames are complete whenever the write half is free
FrameComplete ==
  \A s \in Sessions : ~Dead(s) /\ ~dropped[s] /\ writer[s] = None => frame[s] = None

FrameInv == FramesIntact /\ FreshSessions /\ FrameComplete
============================================================================

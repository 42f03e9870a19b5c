------------------------------ MODULE HubConn ------------------------------
(* The connection of a worker to the hub (run_hub_worker): connect with a    *)
(* growing pause, register, and cut what is read into lines, whose handlers  *)
(* are the steps of HubWorker.                                               *)
EXTENDS Naturals, Sequences, SequencesExt

CONSTANTS
  MinDelay, MaxDelay, \* pause between attempts, in seconds (5, 300)
  MaxConnects,        \* bound on the connections
  MaxRefused,         \* bound on the attempts refused in a row
  MaxPieces           \* bound on what the hub sends on one connection

ASSUME DelayAssumption == MinDelay \in Nat \ {0} /\ MaxDelay \in Nat /\ MinDelay <= MaxDelay
ASSUME BoundAssumption == MaxConnects \in Nat /\ MaxRefused \in Nat /\ MaxPieces \in Nat

VARIABLES
  run,      \* where run_hub_worker is
  delay,    \* reconnect_delay_secs
  conn,     \* the connection: none, open, closed or reset by the other side
  wire,     \* pieces of lines on their way
  read_buf,
  connects, \* number of connections
  said,     \* history: pieces the hub sent on this connection
  taken,    \* history: lines cut out of read_buf on this connection
  refused,  \* history: attempts refused since the last connection
  closed,   \* history: the hub closed the last connection
  slept     \* history: a pause since then

hub == <<conn, wire, said>>
pause == <<delay, refused, closed, slept>>
vars == <<run, read_buf, connects, taken, hub, pause>>

\* part of a line, the last one with the newline
Piece == [line : 1..MaxPieces, last : BOOLEAN]

\* mutant: without the limit
Twice(d) == 2 * d

Doubled(d) == IF 2 * d < MaxDelay THEN 2 * d ELSE MaxDelay

TypeOK ==
  /\ run \in {"connect", "sleep", "register", "read", "lines", "ended"}
  /\ delay \in MinDelay..MaxDelay
  /\ conn \in {"none", "open", "closed", "reset"}
  /\ wire \in Seq(Piece) /\ read_buf \in Seq(Piece) /\ said \in Seq(Piece)
  /\ taken \in Seq(Seq(Piece))
  /\ connects \in 0..MaxConnects /\ refused \in 0..MaxRefused
  /\ closed \in BOOLEAN /\ slept \in BOOLEAN

Init ==
  /\ run = "connect" /\ delay = MinDelay
  /\ conn = "none" /\ wire = <<>> /\ read_buf = <<>>
  /\ connects = 0 /\ said = <<>> /\ taken = <<>>
  /\ refused = 0 /\ closed = FALSE /\ slept = FALSE
----------------------------------------------------------------------------
Connect ==
  /\ run = "connect" /\ connects < MaxConnects
  /\ run' = "register" /\ conn' = "open" /\ connects' = connects + 1
  /\ wire' = <<>> /\ said' = <<>> /\ taken' = <<>>
  /\ delay' = MinDelay
  /\ refused' = 0 /\ closed' = FALSE /\ slept' = FALSE
  /\ UNCHANGED read_buf

Refused ==
  /\ run = "connect" /\ refused < MaxRefused
  /\ run' = "sleep" /\ refused' = refused + 1
  /\ UNCHANGED <<read_buf, connects, taken, hub, delay, closed, slept>>

\* mutant: the pause stays as it is
SamePause == delay

NextPause == Doubled(delay)

Wake ==
  /\ run = "sleep"
  /\ run' = "connect" /\ delay' = NextPause /\ slept' = TRUE
  /\ UNCHANGED <<read_buf, connects, taken, hub, refused, closed>>

\* mutant: what was left of the last connection
OldBuffer == read_buf

NewBuffer == <<>>

Register ==
  /\ run = "register"
  /\ run' = "read" /\ read_buf' = NewBuffer
  /\ UNCHANGED <<connects, taken, hub, pause>>

\* the write fails, which ends run_hub_worker
RegisterFails ==
  /\ run = "register" /\ conn # "open"
  /\ run' = "ended"
  /\ UNCHANGED <<read_buf, connects, taken, hub, pause>>
----------------------------------------------------------------------------
(* The hub and the network.                                                  *)

\* the number of the line under way
LineNo == IF said = <<>> THEN 1 ELSE Last(said).line + (IF Last(said).last THEN 1 ELSE 0)

HubWrites(last) ==
  /\ conn = "open" /\ Len(said) < MaxPieces
  /\ LET piece == [line |-> LineNo, last |-> last]
     IN  wire' = Append(wire, piece) /\ said' = Append(said, piece)
  /\ UNCHANGED <<run, read_buf, connects, taken, conn, pause>>

\* the hub closes, within a line or not, or the connection is reset
HubLeaves(how) ==
  /\ conn = "open" /\ conn' = how
  /\ UNCHANGED <<run, read_buf, connects, taken, wire, said, pause>>
----------------------------------------------------------------------------
(* The read loop.                                                            *)

\* as much as has come, or part of it
Read ==
  /\ run = "read"
  /\ \E n \in 1..Len(wire) : /\ read_buf' = read_buf \o SubSeq(wire, 1, n)
                             /\ wire' = SubSeq(wire, n + 1, Len(wire))
  /\ run' = "lines"
  /\ UNCHANGED <<connects, taken, conn, said, pause>>

Newline == SelectInSeq(read_buf, LAMBDA p : p.last)

\* mutant: one line for each read
OneLine == "read"

MoreLines == "lines"

\* the next line is drained and handled; one that is empty or does not parse is skipped
TakeLine ==
  /\ run = "lines" /\ Newline > 0
  /\ taken' = Append(taken, SubSeq(read_buf, 1, Newline))
  /\ read_buf' = SubSeq(read_buf, Newline + 1, Len(read_buf))
  /\ run' = MoreLines
  /\ UNCHANGED <<connects, hub, pause>>

NoLine ==
  /\ run = "lines" /\ Newline = 0
  /\ run' = "read"
  /\ UNCHANGED <<read_buf, connects, taken, hub, pause>>

\* end of file: the pause is doubled, and the loop connects
Eof ==
  /\ run = "read" /\ conn = "closed" /\ wire = <<>>
  /\ run' = "connect" /\ conn' = "none"
  /\ delay' = Doubled(delay) /\ closed' = TRUE
  /\ UNCHANGED <<read_buf, connects, taken, wire, said, refused, slept>>

ReadFails ==
  /\ run = "read" /\ conn = "reset"
  /\ run' = "connect" /\ conn' = "none"
  /\ UNCHANGED <<read_buf, connects, taken, wire, said, pause>>
----------------------------------------------------------------------------
Worker ==
  \/ Connect \/ Refused \/ Wake \/ Register \/ RegisterFails
  \/ Read \/ TakeLine \/ NoLine \/ Eof \/ ReadFails

Next == Worker \/ (\E last \in BOOLEAN : HubWrites(last)) \/ (\E how \in {"closed", "reset"} : HubLeaves(how))

Spec == Init /\ [][Next]_vars

\* the loop is never stuck in a handler (LoopReturns of HubWorker), and what has been
\* sent is read sooner or later
FairSpec == Spec /\ WF_vars(Worker)
----------------------------------------------------------------------------
\* line n as the hub sent it on this connection: all pieces of it, up to the newline
IsLine(n, pieces) ==
  \E j \in 1..Len(said) : \E i \in 1..j :
    /\ pieces = SubSeq(said, i, j) /\ said[j].last
    /\ \A k \in 1..Len(said) : said[k].line = n <=> k \in i..j

\* However TCP cuts and joins what the hub writes, and however often the connection is
\* lost within a line: the lines taken are the lines the hub sent on this connection,
\* whole, each once and in order.
LinesIntact == \A n \in 1..Len(taken) : IsLine(n, taken[n])

\* Every whole line is taken without another one having to come, also when the hub
\* closes the connection behind it; only a reset, or a failed registration, loses lines.
WholeLinesTaken ==
  \A n \in 1..MaxPieces :
    conn \in {"open", "closed"} /\ (\E i \in 1..Len(said) : said[i].line = n /\ said[i].last)
      ~> (Len(taken) >= n \/ conn = "reset" \/ run = "ended")

\* the first pause, doubled n times
Doublings[n \in Nat] == IF n = 0 THEN MinDelay ELSE 2 * Doublings[n - 1]
Limited(d) == IF d < MaxDelay THEN d ELSE MaxDelay

\* Attempts refused in a row wait twice as long each time, up to the limit, starting
\* anew with every connection, and one step further if the hub closed it.
BackoffGrows ==
  run = "sleep" => delay = Limited(Doublings[refused - (IF closed THEN 0 ELSE 1)])

\* What the log says when the hub closes the connection, "will retry in {}s, then
\* increasing" (hub_worker.rs 110): the worker connects again after a pause.
PausesAfterClose == [][Connect /\ closed => slept]_vars
----------------------------------------------------------------------------
(* The inductive invariants behind BackoffGrows and LinesIntact.             *)

\* a connection sets the pause back; each attempt refused since doubles it
PauseInv ==
  LET before == IF closed THEN 1 ELSE 0
  IN  /\ run = "connect" => delay = Limited(Doublings[refused + before])
      /\ run = "sleep" => refused > 0 /\ delay = Limited(Doublings[refused - 1 + before])
      /\ run \in {"register", "read", "lines"} => delay = MinDelay /\ refused = 0 /\ ~closed

\* lines are numbered from 1, and a number changes behind a newline only
NumberInv ==
  /\ said # <<>> => said[1].line = 1
  /\ \A i \in 1..Len(said) : said[i].line <= i
  /\ \A i \in 2..Len(said) : said[i].line = said[i - 1].line + (IF said[i - 1].last THEN 1 ELSE 0)
  /\ \A i, j \in 1..Len(said) : i <= j =>
       /\ said[i].line <= said[j].line
       /\ said[i].line = said[j].line <=> \A k \in i..(j - 1) : ~said[k].last

\* what has been taken, what is in read_buf and what is on its way make up what was said
Drained == Len(said) - Len(wire) - Len(read_buf)
Reading == run \in {"read", "lines"}
StreamInv ==
  /\ run = "register" => wire = said /\ taken = <<>>
  /\ run \in {"connect", "sleep", "ended"} => conn # "open"
  /\ Reading =>
       /\ Drained >= 0
       /\ \A i \in 1..Len(read_buf) : read_buf[i] = said[Drained + i]
       /\ \A i \in 1..Len(wire) : wire[i] = said[Drained + Len(read_buf) + i]
       /\ IF Drained = 0 THEN taken = <<>>
          ELSE said[Drained].last /\ said[Drained].line = Len(taken)

LineInv == NumberInv /\ StreamInv /\ LinesIntact
============================================================================

---------------------------- MODULE MCHubWorker ----------------------------
(* Small instances of HubWorker: two layer ranges, one model, one            *)
(* neighbour, two or three setup tasks.                                      *)
EXTENDS HubWorker, TLC

CONSTANTS t1, t2, t3, h, n1, f1

Low  == [offset |-> 0, num |-> 2]
High == [offset |-> 2, num |-> 2]

\* this worker alone, and at either end of two
Alone(r) == [layers |-> r, last_hop |-> None, next_hop |-> None, is_first |-> TRUE, is_last |-> TRUE]
Head(r)  == [Alone(r) EXCEPT !.next_hop = h, !.is_last = FALSE]
Tail(r)  == [Alone(r) EXCEPT !.last_hop = h, !.is_first = FALSE]

With(e) == [own |-> TRUE, entry |-> e]

Resp(r, reassign, f, hash, p) ==
  [layers |-> r, reassign |-> reassign, model_name |-> n1, model_url |-> f,
   model_hash |-> hash, pipeline |-> p]

\* what a hub sends that assigns one model, in two ranges
OneModel ==
  {Resp(r, TRUE, f1, f1, With(Alone(r))) : r \in {Low, High}}

\* a first assignment in a pipeline this worker is not in yet, without a model; then
\* the model without a hash and a position; then another range at another position
\* with the hash; and a message that asks for nothing
Staged ==
  {Resp(Low, FALSE, None, None, [own |-> FALSE, entry |-> Head(Low)]),
   Resp(Low, TRUE, f1, None, With(Head(Low))), Resp(High, TRUE, f1, f1, With(Tail(High))),
   Resp(High, FALSE, f1, f1, None)}

\* the circulating heartbeat comes before the reassignment it goes with
Ends == {Head(High)}
NoEntries == {}

AllFaults == FaultKind
BrokenModel == {"load"}
NoFaults == {}

Sym == Permutations({t1, t2, t3})
Sym2 == Permutations({t1, t2})
============================================================================

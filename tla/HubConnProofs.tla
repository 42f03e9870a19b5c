---------------------------- MODULE HubConnProofs ----------------------------
(* Theorems about HubConn, for any delays and any bounds.                    *)
EXTENDS HubConn, WellFoundedInduction, SequenceTheorems, TLAPS

(* Induction over the natural numbers, for a set instead of a predicate.     *)

LEMMA LeastElement ==
  ASSUME NEW T, T \subseteq Nat, T # {}
  PROVE  \E n \in T : \A m \in T : n <= m
<1>1. PICK n \in T : \A m \in T : ~ (<<m, n>> \in OpToRel(<, Nat))
  BY NatLessThanWellFounded, WFMin
<1>2. ASSUME NEW m \in T PROVE n <= m
  <2>1. ~ (m < n) BY <1>1 DEF OpToRel
  <2> QED BY <2>1
<1> QED BY <1>2

LEMMA InductionOnSet ==
  ASSUME NEW S, 0 \in S, \A n \in Nat : n \in S => n + 1 \in S
  PROVE  Nat \subseteq S
<1> DEFINE T == Nat \ S
<1>1. SUFFICES ASSUME T # {} PROVE FALSE OBVIOUS
<1>2. PICK n \in T : \A m \in T : n <= m BY <1>1, LeastElement
<1>3. n \in Nat /\ n # 0 OBVIOUS
<1>4. n - 1 \in Nat /\ n - 1 \notin T /\ (n - 1) + 1 = n BY <1>2, <1>3
<1> QED BY <1>4
----------------------------------------------------------------------------
(* The recursive definition of the pauses.                                   *)

\* doublings up to the n-th
Doubles(f, n) == /\ f \in [0..n -> Nat] /\ f[0] = MinDelay
                 /\ \A i \in 1..n : f[i] = 2 * f[i - 1]

LEMMA SomeDoubles == \A n \in Nat : \E f : Doubles(f, n)
<1> DEFINE S == {n \in Nat : \E f : Doubles(f, n)}
<1>1. 0 \in S
  <2>1. Doubles([i \in 0..0 |-> MinDelay], 0) BY DelayAssumption DEF Doubles
  <2> QED BY <2>1
<1>2. ASSUME NEW n \in Nat, n \in S PROVE n + 1 \in S
  <2>1. PICK f : Doubles(f, n) BY <1>2
  <2> DEFINE g == [i \in 0..(n + 1) |-> IF i \in 0..n THEN f[i] ELSE 2 * f[n]]
  <2>2. f[n] \in Nat /\ \A i \in 0..n : f[i] \in Nat BY <2>1 DEF Doubles
  <2>3. g \in [0..(n + 1) -> Nat] BY <2>2
  <2>4. g[0] = MinDelay BY <2>1 DEF Doubles
  <2>5. ASSUME NEW i \in 1..(n + 1) PROVE g[i] = 2 * g[i - 1]
    <3>1. CASE i \in 1..n BY <2>1, <3>1 DEF Doubles
    <3>2. CASE i = n + 1 BY <3>2
    <3> QED BY <3>1, <3>2
  <2>6. Doubles(g, n + 1)
    <3> HIDE DEF g
    <3> QED BY <2>3, <2>4, <2>5 DEF Doubles
  <2> QED BY <2>6
<1> HIDE DEF S
<1>3. Nat \subseteq S BY <1>1, <1>2, InductionOnSet
<1> QED BY <1>3 DEF S

LEMMA OneDoubles ==
  ASSUME NEW m \in Nat, NEW n \in Nat, NEW f, NEW g, Doubles(f, m), Doubles(g, n)
  PROVE  \A i \in Nat : i <= m /\ i <= n => f[i] = g[i]
<1> DEFINE S == {i \in Nat : i <= m /\ i <= n => f[i] = g[i]}
<1>1. 0 \in S BY DEF Doubles
<1>2. ASSUME NEW i \in Nat, i \in S PROVE i + 1 \in S
  <2> SUFFICES ASSUME i + 1 <= m, i + 1 <= n PROVE f[i + 1] = g[i + 1] OBVIOUS
  <2>1. i + 1 \in 1..m /\ i + 1 \in 1..n /\ (i + 1) - 1 = i /\ f[i] = g[i] BY <1>2
  <2> QED BY <2>1 DEF Doubles
<1> HIDE DEF S
<1>3. Nat \subseteq S BY <1>1, <1>2, InductionOnSet
<1> QED BY <1>3 DEF S

\* the pause doubles, every time
LEMMA DoublingsFacts ==
  /\ Doublings \in [Nat -> Nat] /\ Doublings[0] = MinDelay
  /\ \A n \in Nat : Doublings[n + 1] = 2 * Doublings[n]
<1> DEFINE F(n) == CHOOSE f : Doubles(f, n)
           D == [n \in Nat |-> F(n)[n]]
<1>1. \A n \in Nat : Doubles(F(n), n) BY SomeDoubles
<1> HIDE DEF F
<1>2. \A n \in Nat : D[n] \in Nat BY <1>1 DEF Doubles
<1>3. D[0] = MinDelay BY <1>1 DEF Doubles
<1>4. ASSUME NEW n \in Nat PROVE D[n + 1] = 2 * D[n]
  <2>1. Doubles(F(n), n) /\ Doubles(F(n + 1), n + 1) BY <1>1
  <2>2. F(n + 1)[n] = F(n)[n] BY <2>1, OneDoubles
  <2>3. n + 1 \in 1..(n + 1) /\ (n + 1) - 1 = n OBVIOUS
  <2>4. F(n + 1)[n + 1] = 2 * F(n + 1)[n] BY <2>1, <2>3 DEF Doubles
  <2> QED BY <2>2, <2>4
<1>5. D = [n \in Nat |-> IF n = 0 THEN MinDelay ELSE 2 * D[n - 1]]
  <2>1. ASSUME NEW n \in Nat PROVE D[n] = IF n = 0 THEN MinDelay ELSE 2 * D[n - 1]
    <3>1. CASE n = 0 BY <1>3, <3>1
    <3>2. CASE n # 0
      <4>1. n - 1 \in Nat /\ (n - 1) + 1 = n BY <3>2
      <4> QED BY <1>4, <3>2, <4>1
    <3> QED BY <3>1, <3>2
  <2>2. D = [n \in Nat |-> D[n]] OBVIOUS
  <2> HIDE DEF D
  <2> QED BY <2>1, <2>2
<1> HIDE DEF D
<1>6. Doublings = [n \in Nat |-> IF n = 0 THEN MinDelay ELSE 2 * Doublings[n - 1]]
  BY <1>5 DEF Doublings
<1>7. \A n \in Nat : Doublings[n] = IF n = 0 THEN MinDelay ELSE 2 * Doublings[n - 1]
  BY <1>6
<1>8. Doublings[0] = MinDelay BY <1>7
<1>9. \A n \in Nat : Doublings[n + 1] = 2 * Doublings[n] BY <1>7
<1>10. \A n \in Nat : Doublings[n] \in Nat
  <2> DEFINE S == {n \in Nat : Doublings[n] \in Nat}
  <2>1. 0 \in S BY <1>8, DelayAssumption
  <2>2. \A n \in Nat : n \in S => n + 1 \in S BY <1>9
  <2> HIDE DEF S
  <2>3. Nat \subseteq S BY <2>1, <2>2, InductionOnSet
  <2> QED BY <2>3 DEF S
<1> QED BY <1>6, <1>8, <1>9, <1>10
----------------------------------------------------------------------------
(* Operators.                                                                *)

\* the newline found is the first one
LEMMA NewlineFacts ==
  ASSUME TypeOK
  PROVE  /\ Newline \in 0..Len(read_buf)
         /\ Newline > 0 => /\ read_buf[Newline].last
                           /\ \A i \in 1..(Newline - 1) : ~read_buf[i].last
<1> DEFINE I == {i \in 1..Len(read_buf) : read_buf[i].last}
<1>1. Newline = IF I # {} THEN Min(I) ELSE 0 BY DEF Newline, SelectInSeq
<1>2. Len(read_buf) \in Nat BY DEF TypeOK
<1>3. CASE I = {} BY <1>1, <1>2, <1>3
<1>4. CASE I # {}
  <2>1. I \subseteq Nat BY <1>2
  <2>2. \A n : n \in I <=> n \in 1..Len(read_buf) /\ read_buf[n].last OBVIOUS
  <2> HIDE DEF I
  <2>3. \E n \in I : \A m \in I : n <= m BY <1>4, <2>1, LeastElement
  <2>4. Min(I) \in I /\ \A m \in I : Min(I) <= m BY <2>3 DEF Min
  <2>5. Newline = Min(I) BY <1>1, <1>4
  <2>6. Newline \in 1..Len(read_buf) /\ read_buf[Newline].last BY <2>2, <2>4, <2>5
  <2>7. ASSUME NEW i \in 1..(Newline - 1) PROVE ~read_buf[i].last
    <3>1. i \in 1..Len(read_buf) /\ ~ (Newline <= i) BY <1>2, <2>6
    <3> QED BY <2>2, <2>4, <2>5, <3>1
  <2> QED BY <1>2, <2>6, <2>7
<1> QED BY <1>3, <1>4

\* the pieces of what is said, and the number of the next one
LEMMA SaidFacts ==
  ASSUME TypeOK, NumberInv
  PROVE  /\ Len(said) \in Nat
         /\ \A i \in 1..Len(said) : said[i] \in Piece /\ said[i].line \in Nat \ {0}
                                    /\ said[i].last \in BOOLEAN
         /\ LineNo \in 1..(Len(said) + 1)
         /\ IF said = <<>> THEN LineNo = 1
            ELSE LineNo = said[Len(said)].line + (IF said[Len(said)].last THEN 1 ELSE 0)
<1>1. Len(said) \in Nat /\ \A i \in 1..Len(said) : said[i] \in Piece BY DEF TypeOK
<1>2. \A i \in 1..Len(said) : said[i].line \in Nat \ {0} /\ said[i].last \in BOOLEAN
  BY <1>1, BoundAssumption DEF Piece
<1>3. CASE said = <<>> BY <1>1, <1>2, <1>3 DEF LineNo
<1>4. CASE said # <<>>
  <2>1. Len(said) \in 1..Len(said) BY <1>4, EmptySeq DEF TypeOK
  <2>2. said[Len(said)].line <= Len(said) BY <2>1 DEF NumberInv
  <2>3. LineNo = said[Len(said)].line + (IF said[Len(said)].last THEN 1 ELSE 0)
    BY <1>4 DEF LineNo, Last
  <2> QED BY <1>1, <1>2, <1>4, <2>1, <2>2, <2>3
<1> QED BY <1>3, <1>4
----------------------------------------------------------------------------
(* Types.                                                                    *)

LEMMA InitInv == Init => TypeOK /\ NumberInv
<1> SUFFICES ASSUME Init PROVE TypeOK /\ NumberInv OBVIOUS
<1>1. Len(said) = 0 BY DEF Init
<1>2. NumberInv BY <1>1 DEF Init, NumberInv
<1>3. delay \in MinDelay..MaxDelay /\ connects \in 0..MaxConnects /\ refused \in 0..MaxRefused
  BY DelayAssumption, BoundAssumption DEF Init
<1>4. taken \in Seq(Seq(Piece)) BY EmptySeq DEF Init
<1> QED BY <1>2, <1>3, <1>4, EmptySeq DEF Init, TypeOK

LEMMA WriteType ==
  ASSUME TypeOK, NumberInv, NEW last \in BOOLEAN, HubWrites(last)
  PROVE  /\ TypeOK'
         /\ Len(said') = Len(said) + 1 /\ Len(wire') = Len(wire) + 1
         /\ \A i \in 1..Len(said) : said'[i] = said[i]
         /\ \A i \in 1..Len(wire) : wire'[i] = wire[i]
         /\ said'[Len(said) + 1] = [line |-> LineNo, last |-> last]
         /\ wire'[Len(wire) + 1] = [line |-> LineNo, last |-> last]
<1> DEFINE piece == [line |-> LineNo, last |-> last]
<1>1. LineNo \in 1..MaxPieces BY SaidFacts, BoundAssumption DEF HubWrites
<1>2. piece \in Piece BY <1>1 DEF Piece
<1>3. wire' = Append(wire, piece) /\ said' = Append(said, piece) BY DEF HubWrites
<1> HIDE DEF piece
<1>4. TypeOK' BY <1>2, <1>3 DEF TypeOK, HubWrites, pause
<1> QED BY <1>2, <1>3, <1>4, AppendProperties DEF TypeOK, piece

LEMMA TypeStep == TypeOK /\ NumberInv /\ [Next]_vars => TypeOK'
<1> SUFFICES ASSUME TypeOK, NumberInv, [Next]_vars PROVE TypeOK'
  OBVIOUS
<1> USE DelayAssumption, BoundAssumption
<1>1. \A d \in MinDelay..MaxDelay : Doubled(d) \in MinDelay..MaxDelay BY DEF Doubled
<1>2. CASE Connect
  <2>1. connects' \in 0..MaxConnects /\ delay' \in MinDelay..MaxDelay /\ refused' \in 0..MaxRefused
    BY <1>2 DEF Connect, TypeOK
  <2>2. taken' \in Seq(Seq(Piece)) /\ wire' \in Seq(Piece) /\ said' \in Seq(Piece)
    BY <1>2, EmptySeq DEF Connect
  <2> QED BY <1>2, <2>1, <2>2 DEF Connect, TypeOK
<1>3. CASE Refused BY <1>3 DEF Refused, TypeOK, hub
<1>4. CASE Wake BY <1>1, <1>4 DEF Wake, TypeOK, hub, NextPause
<1>5. CASE Register BY <1>5 DEF Register, TypeOK, hub, pause, NewBuffer
<1>6. CASE RegisterFails BY <1>6 DEF RegisterFails, TypeOK, hub, pause
<1>7. CASE Read
  <2>1. PICK n \in 1..Len(wire) : /\ read_buf' = read_buf \o SubSeq(wire, 1, n)
                                  /\ wire' = SubSeq(wire, n + 1, Len(wire))
    BY <1>7 DEF Read
  <2>2. wire \in Seq(Piece) /\ read_buf \in Seq(Piece) /\ Len(wire) \in Nat BY DEF TypeOK
  <2>3. SubSeq(wire, 1, n) \in Seq(Piece) /\ SubSeq(wire, n + 1, Len(wire)) \in Seq(Piece)
    BY <2>2, SubSeqProperties
  <2>4. read_buf' \in Seq(Piece) /\ wire' \in Seq(Piece) BY <2>1, <2>2, <2>3, ConcatProperties
  <2> QED BY <1>7, <2>4 DEF Read, TypeOK, pause
<1>8. CASE TakeLine
  <2>1. read_buf \in Seq(Piece) /\ taken \in Seq(Seq(Piece)) BY DEF TypeOK
  <2>2. SubSeq(read_buf, 1, Newline) \in Seq(Piece)
        /\ SubSeq(read_buf, Newline + 1, Len(read_buf)) \in Seq(Piece)
    BY <2>1, NewlineFacts, SubSeqProperties
  <2>3. taken' \in Seq(Seq(Piece)) /\ read_buf' \in Seq(Piece)
    BY <1>8, <2>1, <2>2, AppendProperties DEF TakeLine
  <2> QED BY <1>8, <2>3 DEF TakeLine, MoreLines, TypeOK, hub, pause
<1>9. CASE NoLine BY <1>9 DEF NoLine, TypeOK, hub, pause
<1>10. CASE Eof BY <1>1, <1>10 DEF Eof, TypeOK
<1>11. CASE ReadFails BY <1>11 DEF ReadFails, TypeOK, pause
<1>12. ASSUME NEW last \in BOOLEAN, HubWrites(last) PROVE TypeOK' BY <1>12, WriteType
<1>13. ASSUME NEW how \in {"closed", "reset"}, HubLeaves(how) PROVE TypeOK'
  BY <1>13 DEF HubLeaves, TypeOK, pause
<1>14. CASE UNCHANGED vars BY <1>14 DEF vars, hub, pause, TypeOK
<1> QED BY <1>2, <1>3, <1>4, <1>5, <1>6, <1>7, <1>8, <1>9, <1>10, <1>11, <1>12, <1>13, <1>14
       DEF Next, Worker

\* a piece that is written goes on with the line, or begins the next one
LEMMA NumberStep == TypeOK /\ NumberInv /\ [Next]_vars => NumberInv'
<1> SUFFICES ASSUME TypeOK, NumberInv, [Next]_vars PROVE NumberInv'
  OBVIOUS
<1>1. CASE UNCHANGED said BY <1>1 DEF NumberInv
<1>2. CASE Connect BY <1>2 DEF Connect, NumberInv
<1>3. ASSUME NEW last \in BOOLEAN, HubWrites(last) PROVE NumberInv'
  <2> DEFINE n == Len(said) + 1
  <2>1. /\ Len(said') = n /\ said'[n].line = LineNo
        /\ \A i \in 1..Len(said) : said'[i] = said[i]
    <3>1. /\ Len(said') = n /\ said'[n] = [line |-> LineNo, last |-> last]
          /\ \A i \in 1..Len(said) : said'[i] = said[i]
      BY <1>3, WriteType
    <3>2. said'[n].line = LineNo BY <3>1
    <3> QED BY <3>1, <3>2
  <2>2. /\ Len(said) \in Nat /\ LineNo \in 1..n
        /\ \A i \in 1..Len(said) : said[i].line \in Nat \ {0} /\ said[i].last \in BOOLEAN
    BY SaidFacts
  <2>3. said' # <<>> => said'[1].line = 1
    <3>1. CASE said = <<>> BY <2>1, <2>2, <3>1, SaidFacts
    <3>2. CASE said # <<>>
      <4>1. 1 \in 1..Len(said) BY <3>2, EmptySeq DEF TypeOK
      <4> QED BY <2>1, <3>2, <4>1 DEF NumberInv
    <3> QED BY <3>1, <3>2
  <2>4. \A i \in 1..Len(said') : said'[i].line <= i
    <3> SUFFICES ASSUME NEW i \in 1..Len(said') PROVE said'[i].line <= i OBVIOUS
    <3>1. CASE i \in 1..Len(said) BY <2>1, <3>1 DEF NumberInv
    <3>2. CASE i = n BY <2>1, <2>2, <3>2
    <3> QED BY <2>1, <2>2, <3>1, <3>2
  <2>6. ASSUME NEW i \in 2..Len(said')
        PROVE  said'[i].line = said'[i - 1].line + (IF said'[i - 1].last THEN 1 ELSE 0)
    <3>1. CASE i \in 2..Len(said)
      <4>1. i - 1 \in 1..Len(said) /\ i \in 1..Len(said) BY <2>2, <3>1
      <4> QED BY <2>1, <3>1, <4>1 DEF NumberInv
    <3>2. CASE i = n
      <4>1. i - 1 = Len(said) /\ Len(said) \in 1..Len(said) /\ said # <<>> BY <2>1, <2>2, <3>2
      <4> QED BY <2>1, <3>2, <4>1, SaidFacts
    <3> QED BY <2>1, <2>2, <3>1, <3>2
  <2>5. ASSUME NEW i \in 1..Len(said'), NEW j \in 1..Len(said'), i <= j
        PROVE  /\ said'[i].line <= said'[j].line
               /\ said'[i].line = said'[j].line <=> \A k \in i..(j - 1) : ~said'[k].last
    <3>1. CASE j \in 1..Len(said)
      <4>1. i \in 1..Len(said) /\ \A k \in i..(j - 1) : k \in 1..Len(said)
        BY <2>1, <2>2, <2>5, <3>1
      <4>2. said'[i] = said[i] /\ said'[j] = said[j] /\ \A k \in i..(j - 1) : said'[k] = said[k]
        BY <2>1, <3>1, <4>1
      <4>3. /\ said[i].line <= said[j].line
            /\ said[i].line = said[j].line <=> \A k \in i..(j - 1) : ~said[k].last
        BY <2>5, <3>1, <4>1 DEF NumberInv
      <4> QED BY <4>2, <4>3
    <3>2. CASE i = n /\ j = n BY <2>1, <2>2, <3>2
    <3>3. CASE i \in 1..Len(said) /\ j = n
      <4> DEFINE l == Len(said)
      <4>1. l \in 1..Len(said) /\ i <= l /\ l = j - 1 /\ said # <<>> BY <2>2, <3>3
      <4>2. LineNo = said[l].line + (IF said[l].last THEN 1 ELSE 0) BY <4>1, SaidFacts
      <4>3. /\ said[i].line <= said[l].line
            /\ said[i].line = said[l].line <=> \A k \in i..(l - 1) : ~said[k].last
        BY <3>3, <4>1 DEF NumberInv
      <4>4. /\ said'[i] = said[i] /\ said'[j].line = LineNo
            /\ \A k \in i..(j - 1) : said'[k] = said[k]
        BY <2>1, <3>3, <4>1
      <4>5. (\A k \in i..(j - 1) : ~said[k].last)
              <=> (\A k \in i..(l - 1) : ~said[k].last) /\ ~said[l].last
        BY <2>2, <3>3, <4>1
      <4>6. said[i].line \in Nat /\ said[l].line \in Nat BY <2>2, <3>3, <4>1
      <4> HIDE DEF l
      <4> QED BY <4>2, <4>3, <4>4, <4>5, <4>6
    <3> QED BY <2>1, <2>2, <2>5, <3>1, <3>2, <3>3
  <2> QED BY <2>3, <2>4, <2>5, <2>6 DEF NumberInv
<1> QED BY <1>1, <1>2, <1>3
       DEF Next, Worker, Refused, Wake, Register, RegisterFails, Read, TakeLine, NoLine, Eof,
           ReadFails, HubLeaves, vars, hub

\* Pauses, connections, buffers and lines have their types; the lines are numbered within
\* the bound although a line goes on over any number of writes (run_hub_worker).
THEOREM TypeCorrect == Spec => []TypeOK
<1>1. Spec => [](TypeOK /\ NumberInv)
  BY InitInv, TypeStep, NumberStep, PTL DEF Spec
<1> QED BY <1>1, PTL
----------------------------------------------------------------------------
(* Lines.                                                                    *)

\* two stretches with the same pieces, d further on in one of the sequences
LEMMA SameStretch ==
  ASSUME NEW s, NEW t, NEW m \in Int, NEW n \in Int, NEW d \in Int,
         \A k \in m..n : s[k] \in Piece /\ t[d + k] = s[k]
  PROVE  SubSeq(t, d + m, d + n) = SubSeq(s, m, n)
<1> DEFINE a == d + m
           b == d + n
<1>1. ASSUME NEW k \in a..b PROVE t[k] \in Piece
  <2>1. k - d \in m..n /\ d + (k - d) = k OBVIOUS
  <2> QED BY <2>1
<1>2. a \in Int /\ b \in Int /\ b - a + 1 = n - m + 1 /\ (a <= b <=> m <= n) OBVIOUS
<1>3. ASSUME NEW i \in 1..(n - m + 1) PROVE t[a + i - 1] = s[m + i - 1]
  <2>1. m + i - 1 \in m..n /\ d + (m + i - 1) = a + i - 1 OBVIOUS
  <2> QED BY <2>1
<1> HIDE DEF a, b
<1>4. /\ SubSeq(s, m, n) \in Seq(Piece)
      /\ Len(SubSeq(s, m, n)) = IF m <= n THEN n - m + 1 ELSE 0
      /\ \A i \in 1..(n - m + 1) : SubSeq(s, m, n)[i] = s[m + i - 1]
  BY SubSeqProperties
<1>5. /\ SubSeq(t, a, b) \in Seq(Piece)
      /\ Len(SubSeq(t, a, b)) = IF a <= b THEN b - a + 1 ELSE 0
      /\ \A i \in 1..(b - a + 1) : SubSeq(t, a, b)[i] = t[a + i - 1]
  BY <1>1, <1>2, SubSeqProperties
<1>6. \A i \in 1..Len(SubSeq(t, a, b)) : SubSeq(t, a, b)[i] = SubSeq(s, m, n)[i]
  <2>1. \A i \in 1..Len(SubSeq(t, a, b)) : i \in 1..(n - m + 1) BY <1>2, <1>5
  <2> QED BY <1>2, <1>3, <1>4, <1>5, <2>1
<1>7. SubSeq(t, a, b) = SubSeq(s, m, n) BY <1>2, <1>4, <1>5, <1>6, SeqEqual
<1> QED BY <1>7 DEF a, b

\* what the hub writes belongs to no line taken before
LEMMA WriteKeepsLines ==
  ASSUME TypeOK, NumberInv, NumberInv', LinesIntact, NEW last \in BOOLEAN, HubWrites(last)
  PROVE  LinesIntact'
<1> SUFFICES ASSUME NEW n \in 1..Len(taken) PROVE IsLine(n, taken[n])'
  BY DEF LinesIntact, HubWrites
<1>0. PICK j \in 1..Len(said) : \E i \in 1..j :
        /\ taken[n] = SubSeq(said, i, j) /\ said[j].last
        /\ \A k \in 1..Len(said) : said[k].line = n <=> k \in i..j
  BY DEF LinesIntact, IsLine
<1>1. PICK i \in 1..j :
        /\ taken[n] = SubSeq(said, i, j) /\ said[j].last
        /\ \A k \in 1..Len(said) : said[k].line = n <=> k \in i..j
  BY <1>0
<1>2. taken' = taken /\ Len(said) \in Nat BY SaidFacts DEF HubWrites
<1>3. Len(said') = Len(said) + 1 /\ \A k \in 1..Len(said) : said'[k] = said[k]
  BY WriteType
<1>4. SubSeq(said', i, j) = SubSeq(said, i, j)
  <2>1. \A k \in i..j : said[k] \in Piece /\ said'[0 + k] = said[k] BY <1>2, <1>3, SaidFacts
  <2>2. i \in Int /\ j \in Int /\ 0 + i = i /\ 0 + j = j BY <1>2
  <2>3. SubSeq(said', 0 + i, 0 + j) = SubSeq(said, i, j) BY <2>1, <2>2, SameStretch
  <2> QED BY <2>2, <2>3
<1>5. ASSUME NEW k \in 1..Len(said') PROVE said'[k].line = n <=> k \in i..j
  <2>1. CASE k \in 1..Len(said) BY <1>1, <1>3, <2>1
  <2>2. CASE k = Len(said) + 1
    <3>1. j \in 1..Len(said') /\ j <= k /\ j \in j..(k - 1) /\ k \notin i..j
      BY <1>2, <1>3, <2>2
    <3>2. said'[j] = said[j] /\ said[j].last BY <1>1, <1>3
    <3>3. said'[j].line # said'[k].line BY <3>1, <3>2 DEF NumberInv
    <3>4. j \in i..j BY <1>2
    <3>5. said[j].line = n BY <1>1, <3>4
    <3> QED BY <3>1, <3>2, <3>3, <3>5
  <2> QED BY <1>2, <1>3, <2>1, <2>2
<1>6. j \in 1..Len(said') /\ taken'[n] = SubSeq(said', i, j) /\ said'[j].last
  BY <1>1, <1>2, <1>3, <1>4
<1> HIDE DEF HubWrites
<1> QED BY <1>5, <1>6 DEF IsLine

\* pieces have the same number if no newline is between them
LEMMA SameNumber ==
  ASSUME NumberInv, NEW i \in 1..Len(said), NEW j \in 1..Len(said), i <= j
  PROVE  /\ said[i].line <= said[j].line
         /\ (\A k \in i..(j - 1) : ~said[k].last) => said[i].line = said[j].line
         /\ (\E k \in i..(j - 1) : said[k].last) => said[i].line # said[j].line
BY DEF NumberInv

\* the line drained from read_buf is the next one the hub sent
LEMMA DrainsNextLine ==
  ASSUME TypeOK, NumberInv, StreamInv, run = "lines", Newline > 0
  PROVE  /\ IsLine(Len(taken) + 1, SubSeq(read_buf, 1, Newline))
         /\ Drained + Newline \in 1..Len(said)
         /\ said[Drained + Newline].last /\ said[Drained + Newline].line = Len(taken) + 1
<1> DEFINE d == Drained
           n == Len(taken) + 1
           i == d + 1
           j == d + Newline
<1>1. /\ Len(said) \in Nat /\ Len(wire) \in Nat /\ Len(read_buf) \in Nat /\ Len(taken) \in Nat
      /\ Newline \in 1..Len(read_buf) /\ read_buf[Newline].last
      /\ \A k \in 1..(Newline - 1) : ~read_buf[k].last
  BY NewlineFacts DEF TypeOK
<1>2. /\ d \in Nat /\ d + Len(read_buf) <= Len(said)
      /\ \A k \in 1..Len(read_buf) : said[d + k] = read_buf[k]
      /\ IF d = 0 THEN taken = <<>> ELSE said[d].last /\ said[d].line = Len(taken)
  BY <1>1 DEF StreamInv, Reading, Drained
<1> HIDE DEF d
<1>a. i = d + 1 /\ j = d + Newline /\ n = Len(taken) + 1 OBVIOUS
<1> HIDE DEF i, j, n
<1>3. j \in 1..Len(said) /\ i \in 1..j /\ i \in 1..Len(said) BY <1>1, <1>2, <1>a
<1>4. said[j].last /\ \A k \in i..(j - 1) : ~said[k].last
  <2>1. said[j] = read_buf[Newline] BY <1>1, <1>2, <1>a
  <2>2. ASSUME NEW k \in i..(j - 1) PROVE ~said[k].last
    <3>1. k - d \in 1..(Newline - 1) /\ k - d \in 1..Len(read_buf) /\ d + (k - d) = k
      BY <1>1, <1>2, <1>a
    <3> QED BY <1>1, <1>2, <3>1
  <2> QED BY <1>1, <2>1, <2>2
<1>5. said[i].line = n
  <2>1. CASE d = 0
    <3>1. said # <<>> /\ i = 1 /\ Len(taken) = 0 BY <1>2, <1>3, <1>a, <2>1
    <3> QED BY <1>a, <3>1 DEF NumberInv
  <2>2. CASE d # 0
    <3>1. i \in 2..Len(said) /\ i - 1 = d BY <1>2, <1>3, <1>a, <2>2
    <3>2. said[i].line = said[d].line + (IF said[d].last THEN 1 ELSE 0) BY <3>1 DEF NumberInv
    <3> QED BY <1>2, <1>a, <2>2, <3>2
  <2> QED BY <2>1, <2>2
<1>6. ASSUME NEW k \in 1..Len(said) PROVE said[k].line = n <=> k \in i..j
  <2>0. k \in Nat /\ said[k].line \in Nat /\ n \in Nat BY <1>1, <1>a, SaidFacts
  <2>1. CASE k \in i..j
    <3>1. i \in 1..Len(said) /\ i <= k /\ \A h \in i..(k - 1) : h \in i..(j - 1)
      BY <1>1, <1>3, <2>0, <2>1
    <3>2. said[i].line = said[k].line BY <1>4, <3>1, SameNumber
    <3> QED BY <1>5, <2>1, <3>2
  <2>2. CASE k < i
    <3>1. d \in 1..Len(said) /\ k <= d BY <1>2, <1>3, <1>a, <2>0, <2>2
    <3>2. said[k].line <= said[d].line BY <3>1, SameNumber
    <3>3. said[d].line = Len(taken) BY <1>2, <3>1
    <3>4. said[k].line # n BY <1>1, <1>a, <2>0, <3>2, <3>3
    <3>5. k \notin i..j BY <1>3, <2>0, <2>2
    <3> QED BY <3>4, <3>5
  <2>3. CASE j < k
    <3>1. j <= k /\ j \in j..(k - 1) BY <1>3, <2>0, <2>3
    <3>2. said[j].line # said[k].line BY <1>3, <1>4, <3>1, SameNumber
    <3>3. i <= j /\ i \in 1..Len(said) BY <1>1, <1>3
    <3>4. said[i].line = said[j].line BY <1>3, <1>4, <3>3, SameNumber
    <3>5. k \notin i..j BY <1>3, <2>0, <2>3
    <3> QED BY <1>5, <3>2, <3>4, <3>5
  <2>4. i \in Nat /\ j \in Nat BY <1>3
  <2> QED BY <2>0, <2>1, <2>2, <2>3, <2>4
<1>7. SubSeq(read_buf, 1, Newline) = SubSeq(said, i, j)
  <2>1. ASSUME NEW k \in 1..Newline PROVE read_buf[k] \in Piece /\ said[d + k] = read_buf[k]
    <3>1. k \in 1..Len(read_buf) BY <1>1
    <3>2. read_buf[k] \in Piece BY <3>1 DEF TypeOK
    <3> QED BY <1>2, <3>1, <3>2
  <2>2. Newline \in Int /\ d \in Int /\ 1 \in Int BY <1>1, <1>2
  <2>3. SubSeq(said, d + 1, d + Newline) = SubSeq(read_buf, 1, Newline)
    BY <2>1, <2>2, SameStretch
  <2> QED BY <1>a, <2>3
<1>8. said[j].line = n
  <2>1. j \in i..j BY <1>3
  <2> QED BY <1>3, <1>6, <2>1
<1>9. IsLine(n, SubSeq(read_buf, 1, Newline)) BY <1>3, <1>4, <1>6, <1>7 DEF IsLine
<1> QED BY <1>3, <1>4, <1>8, <1>9, <1>a DEF d

\* the part of LineInv that is about the stream and the lines, in one step
Lines == StreamInv /\ LinesIntact

LEMMA SameLines == UNCHANGED <<said, taken>> /\ LinesIntact => LinesIntact'
  BY DEF LinesIntact, IsLine

LEMMA WriteLines ==
  ASSUME TypeOK, NumberInv, NumberInv', Lines, NEW last \in BOOLEAN, HubWrites(last)
  PROVE  Lines'
<1>1. LinesIntact' BY WriteKeepsLines DEF Lines
<1>2. /\ run' = run /\ read_buf' = read_buf /\ taken' = taken /\ conn' = conn /\ conn = "open"
      /\ wire' = Append(wire, [line |-> LineNo, last |-> last])
      /\ said' = Append(said, [line |-> LineNo, last |-> last])
  BY DEF HubWrites
<1>3. /\ Len(said) \in Nat /\ Len(wire) \in Nat /\ Len(read_buf) \in Nat
      /\ Len(said') = Len(said) + 1 /\ Len(wire') = Len(wire) + 1
      /\ \A k \in 1..Len(said) : said'[k] = said[k]
      /\ \A k \in 1..Len(wire) : wire'[k] = wire[k]
      /\ said'[Len(said) + 1] = wire'[Len(wire) + 1]
  <2>1. Len(said) \in Nat /\ Len(wire) \in Nat /\ Len(read_buf) \in Nat BY DEF TypeOK
  <2>2. /\ Len(said') = Len(said) + 1 /\ Len(wire') = Len(wire) + 1
        /\ \A k \in 1..Len(said) : said'[k] = said[k]
        /\ \A k \in 1..Len(wire) : wire'[k] = wire[k]
        /\ said'[Len(said) + 1] = [line |-> LineNo, last |-> last]
        /\ wire'[Len(wire) + 1] = [line |-> LineNo, last |-> last]
    BY WriteType
  <2> QED BY <2>1, <2>2
<1>4. run \notin {"connect", "sleep", "ended"} BY <1>2 DEF Lines, StreamInv
<1>5. run' = "register" => wire' = said' /\ taken' = <<>> BY <1>2 DEF Lines, StreamInv
<1>6. ASSUME Reading
      PROVE  /\ Drained' >= 0
             /\ \A k \in 1..Len(read_buf') : read_buf'[k] = said'[Drained' + k]
             /\ \A k \in 1..Len(wire') : wire'[k] = said'[Drained' + Len(read_buf') + k]
             /\ IF Drained' = 0 THEN taken' = <<>>
                ELSE said'[Drained'].last /\ said'[Drained'].line = Len(taken')
  <2> DEFINE d == Drained
  <2>1. /\ d \in Nat /\ d + Len(read_buf) + Len(wire) = Len(said) /\ Drained' = d
        /\ \A k \in 1..Len(read_buf) : read_buf[k] = said[d + k]
        /\ \A k \in 1..Len(wire) : wire[k] = said[d + Len(read_buf) + k]
        /\ IF d = 0 THEN taken = <<>> ELSE said[d].last /\ said[d].line = Len(taken)
    BY <1>2, <1>3, <1>6 DEF Lines, StreamInv, Drained
  <2> HIDE DEF d
  <2>2. \A k \in 1..Len(read_buf') : read_buf'[k] = said'[d + k] BY <1>2, <1>3, <2>1
  <2>3. ASSUME NEW k \in 1..Len(wire') PROVE wire'[k] = said'[d + Len(read_buf) + k]
    <3>1. CASE k \in 1..Len(wire) BY <1>3, <2>1, <3>1
    <3>2. CASE k = Len(wire) + 1
      <4>1. d + Len(read_buf) + k = Len(said) + 1 BY <1>3, <2>1, <3>2
      <4> QED BY <1>3, <3>2, <4>1
    <3> QED BY <1>3, <3>1, <3>2
  <2>4. d # 0 => said'[d] = said[d] BY <1>3, <2>1
  <2>5. taken' = taken /\ read_buf' = read_buf BY <1>2
  <2>6. IF d = 0 THEN taken' = <<>> ELSE said'[d].last /\ said'[d].line = Len(taken')
    BY <2>1, <2>4, <2>5
  <2> QED BY <2>1, <2>2, <2>3, <2>5, <2>6
<1> QED BY <1>1, <1>2, <1>4, <1>5, <1>6 DEF Lines, StreamInv, Reading

LEMMA ReadLines ==
  ASSUME TypeOK, NumberInv, Lines, Read
  PROVE  Lines'
<1>1. PICK n \in 1..Len(wire) : /\ read_buf' = read_buf \o SubSeq(wire, 1, n)
                                /\ wire' = SubSeq(wire, n + 1, Len(wire))
  BY DEF Read
<1>2. run = "read" /\ run' = "lines" /\ said' = said /\ taken' = taken BY DEF Read
<1>3. /\ wire \in Seq(Piece) /\ read_buf \in Seq(Piece)
      /\ Len(said) \in Nat /\ Len(wire) \in Nat /\ Len(read_buf) \in Nat
  BY DEF TypeOK
<1>4. /\ SubSeq(wire, 1, n) \in Seq(Piece) /\ Len(SubSeq(wire, 1, n)) = n
      /\ \A k \in 1..n : SubSeq(wire, 1, n)[k] = wire[k]
  BY <1>3, SubSeqProperties
<1>5. /\ Len(wire') = Len(wire) - n
      /\ \A k \in 1..(Len(wire) - n) : wire'[k] = wire[n + k]
  <2>1. /\ Len(wire') = IF n + 1 <= Len(wire) THEN Len(wire) - (n + 1) + 1 ELSE 0
        /\ \A k \in 1..(Len(wire) - (n + 1) + 1) : wire'[k] = wire[(n + 1) + k - 1]
    BY <1>1, <1>3, SubSeqProperties
  <2> QED BY <1>3, <2>1
<1>6. /\ Len(read_buf') = Len(read_buf) + n
      /\ \A k \in 1..(Len(read_buf) + n) :
           read_buf'[k] = IF k <= Len(read_buf) THEN read_buf[k] ELSE wire[k - Len(read_buf)]
  BY <1>1, <1>3, <1>4, ConcatProperties
<1> DEFINE d == Drained
<1>7. /\ d \in Nat /\ d + Len(read_buf) + Len(wire) = Len(said) /\ Drained' = d
      /\ \A k \in 1..Len(read_buf) : read_buf[k] = said[d + k]
      /\ \A k \in 1..Len(wire) : wire[k] = said[d + Len(read_buf) + k]
      /\ IF d = 0 THEN taken = <<>> ELSE said[d].last /\ said[d].line = Len(taken)
  BY <1>2, <1>3, <1>5, <1>6 DEF Lines, StreamInv, Reading, Drained
<1> HIDE DEF d
<1>8. ASSUME NEW k \in 1..Len(read_buf') PROVE read_buf'[k] = said[d + k]
  <2>1. CASE k <= Len(read_buf) BY <1>3, <1>6, <1>7, <2>1
  <2>2. CASE k > Len(read_buf)
    <3>1. k - Len(read_buf) \in 1..Len(wire) BY <1>3, <1>6, <2>2
    <3>2. d + Len(read_buf) + (k - Len(read_buf)) = d + k BY <1>3, <1>7
    <3> QED BY <1>6, <1>7, <2>2, <3>1, <3>2
  <2> QED BY <1>3, <2>1, <2>2
<1>9. ASSUME NEW k \in 1..Len(wire') PROVE wire'[k] = said[d + Len(read_buf') + k]
  <2>1. n + k \in 1..Len(wire) /\ d + Len(read_buf) + (n + k) = d + Len(read_buf') + k
    BY <1>3, <1>5, <1>6, <1>7
  <2> QED BY <1>5, <1>7, <2>1
<1>10. StreamInv' BY <1>2, <1>7, <1>8, <1>9 DEF StreamInv, Reading
<1>11. LinesIntact'
  <2>1. UNCHANGED <<said, taken>> BY <1>2
  <2> QED BY <2>1, SameLines DEF Lines
<1> QED BY <1>10, <1>11 DEF Lines

LEMMA TakeLines ==
  ASSUME TypeOK, NumberInv, Lines, TakeLine
  PROVE  Lines'
<1> DEFINE n == Newline
           d == Drained
<1>1. /\ run = "lines" /\ n > 0 /\ run' = "lines" /\ wire' = wire /\ said' = said
      /\ taken' = Append(taken, SubSeq(read_buf, 1, n))
      /\ read_buf' = SubSeq(read_buf, n + 1, Len(read_buf))
  BY DEF TakeLine, MoreLines, hub
<1>2. /\ read_buf \in Seq(Piece) /\ taken \in Seq(Seq(Piece)) /\ n \in 1..Len(read_buf)
      /\ Len(said) \in Nat /\ Len(wire) \in Nat /\ Len(read_buf) \in Nat /\ Len(taken) \in Nat
  <2>1. Newline \in 0..Len(read_buf) BY NewlineFacts
  <2>2. /\ read_buf \in Seq(Piece) /\ taken \in Seq(Seq(Piece))
        /\ Len(said) \in Nat /\ Len(wire) \in Nat /\ Len(read_buf) \in Nat /\ Len(taken) \in Nat
    BY DEF TypeOK
  <2>3. n > 0 BY <1>1
  <2> QED BY <2>1, <2>2, <2>3
<1>3. /\ IsLine(Len(taken) + 1, SubSeq(read_buf, 1, n))
      /\ said[d + n].last /\ said[d + n].line = Len(taken) + 1
  BY <1>1, DrainsNextLine DEF Lines
<1>4. /\ d \in Nat /\ d + Len(read_buf) + Len(wire) = Len(said)
      /\ \A k \in 1..Len(read_buf) : read_buf[k] = said[d + k]
      /\ \A k \in 1..Len(wire) : wire[k] = said[d + Len(read_buf) + k]
  BY <1>1, <1>2 DEF Lines, StreamInv, Reading, Drained
<1> HIDE DEF n
<1>5. /\ SubSeq(read_buf, 1, n) \in Seq(Piece)
      /\ Len(taken') = Len(taken) + 1 /\ taken'[Len(taken) + 1] = SubSeq(read_buf, 1, n)
      /\ \A k \in 1..Len(taken) : taken'[k] = taken[k]
  <2>1. SubSeq(read_buf, 1, n) \in Seq(Piece) BY <1>2, SubSeqProperties
  <2> QED BY <1>1, <1>2, <2>1, AppendProperties
<1>6. /\ Len(read_buf') = Len(read_buf) - n
      /\ \A k \in 1..(Len(read_buf) - n) : read_buf'[k] = read_buf[n + k]
  <2>1. /\ Len(read_buf') = IF n + 1 <= Len(read_buf) THEN Len(read_buf) - (n + 1) + 1 ELSE 0
        /\ \A k \in 1..(Len(read_buf) - (n + 1) + 1) : read_buf'[k] = read_buf[(n + 1) + k - 1]
    BY <1>1, <1>2, SubSeqProperties
  <2> QED BY <1>2, <2>1
<1>7. Drained' = d + n /\ d + n # 0 /\ d + n >= 0
  <2>1. Len(said') = Len(said) /\ Len(wire') = Len(wire) BY <1>1
  <2> QED BY <1>2, <1>4, <1>6, <2>1 DEF Drained
<1> HIDE DEF d
<1>8. ASSUME NEW k \in 1..Len(read_buf') PROVE read_buf'[k] = said[(d + n) + k]
  <2>1. n + k \in 1..Len(read_buf) /\ k \in 1..(Len(read_buf) - n) /\ d + (n + k) = (d + n) + k
    BY <1>2, <1>4, <1>6
  <2> QED BY <1>4, <1>6, <2>1
<1>9. ASSUME NEW k \in 1..Len(wire') PROVE wire'[k] = said[(d + n) + Len(read_buf') + k]
  <2>1. k \in 1..Len(wire) /\ d + Len(read_buf) + k = (d + n) + Len(read_buf') + k
    <3>1. wire' = wire BY <1>1
    <3> QED BY <1>2, <1>4, <1>6, <3>1
  <2>2. wire' = wire BY <1>1
  <2> QED BY <1>4, <2>1, <2>2
<1>10. StreamInv'
  BY <1>1, <1>3, <1>5, <1>7, <1>8, <1>9 DEF StreamInv, Reading
<1>11. ASSUME NEW k \in 1..Len(taken') PROVE IsLine(k, taken'[k])
  <2>1. CASE k \in 1..Len(taken) BY <1>5, <2>1 DEF Lines, LinesIntact
  <2>2. CASE k = Len(taken) + 1 BY <1>3, <1>5, <2>2
  <2> QED BY <1>2, <1>5, <2>1, <2>2
<1>12. LinesIntact' BY <1>1, <1>11 DEF LinesIntact, IsLine
<1> QED BY <1>10, <1>12 DEF Lines

LEMMA LineStep ==
  TypeOK /\ NumberInv /\ NumberInv' /\ Lines /\ [Next]_vars => Lines'
<1> SUFFICES ASSUME TypeOK, NumberInv, NumberInv', Lines, [Next]_vars PROVE Lines'
  OBVIOUS
<1> USE DEF Lines, LinesIntact
<1>1. UNCHANGED <<said, taken>> => (\A n \in 1..Len(taken) : IsLine(n, taken[n]))'
  BY DEF IsLine
<1>2. CASE Connect BY <1>2 DEF Connect, StreamInv, Reading
<1>3. CASE Refused \/ Wake \/ RegisterFails
  <2>1. run' \in {"connect", "sleep", "ended"} /\ conn' = conn /\ conn # "open"
    BY <1>3 DEF Refused, Wake, RegisterFails, hub, StreamInv
  <2> QED BY <1>1, <1>3, <2>1 DEF Refused, Wake, RegisterFails, hub, StreamInv, Reading
<1>4. CASE Register
  <2>1. /\ run' = "read" /\ read_buf' = <<>> /\ UNCHANGED <<said, wire, taken>>
        /\ wire = said /\ taken = <<>> /\ Len(said) \in Nat
    BY <1>4 DEF Register, NewBuffer, hub, StreamInv, TypeOK
  <2>2. Drained' = 0 /\ Len(read_buf') = 0
    <3>1. Len(read_buf') = 0 /\ Len(wire') = Len(said') /\ Len(said') \in Nat BY <2>1
    <3> QED BY <3>1 DEF Drained
  <2>3. \A k \in 1..Len(wire') : wire'[k] = said'[Drained' + Len(read_buf') + k]
    BY <2>1, <2>2
  <2> QED BY <1>1, <2>1, <2>2, <2>3 DEF StreamInv, Reading
<1>5. CASE NoLine
  <2>1. run = "lines" /\ run' = "read" /\ UNCHANGED <<said, wire, taken, read_buf, conn>>
    BY <1>5 DEF NoLine, hub
  <2> QED BY <1>1, <2>1 DEF StreamInv, Reading, Drained
<1>6. CASE Eof \/ ReadFails
  <2>1. run' = "connect" /\ conn' = "none" /\ UNCHANGED <<said, taken>>
    BY <1>6 DEF Eof, ReadFails
  <2> QED BY <1>1, <2>1 DEF StreamInv, Reading
<1>7. ASSUME NEW how \in {"closed", "reset"}, HubLeaves(how) PROVE Lines'
  <2>1. conn' # "open" /\ UNCHANGED <<run, said, wire, taken, read_buf>>
    BY <1>7 DEF HubLeaves
  <2> QED BY <1>1, <2>1 DEF StreamInv, Reading, Drained
<1>8. CASE UNCHANGED vars
  BY <1>1, <1>8 DEF vars, hub, StreamInv, Reading, Drained
<1> QED BY <1>2, <1>3, <1>4, <1>5, <1>6, <1>7, <1>8, ReadLines, TakeLines, WriteLines
       DEF Next, Worker

\* Whatever is cut, joined or lost on the way, the lines that the read loop takes are
\* lines of the hub on this connection, whole, each once and in order: for any number of
\* connections and of pieces.
THEOREM LinesStayIntact == Spec => []LinesIntact
<1>1. Init => Lines BY DEF Init, Lines, StreamInv, Reading, LinesIntact
<1>2. Spec => [](TypeOK /\ NumberInv /\ Lines)
  BY <1>1, InitInv, TypeStep, NumberStep, LineStep, PTL DEF Spec
<1>3. Lines => LinesIntact BY DEF Lines
<1> QED BY <1>2, <1>3, PTL
----------------------------------------------------------------------------
(* Pauses.                                                                   *)

\* doubling a pause is one more doubling
LEMMA DoublesPause ==
  ASSUME NEW n \in Nat
  PROVE  Doubled(Limited(Doublings[n])) = Limited(Doublings[n + 1])
<1>1. Doublings[n] \in Nat /\ Doublings[n + 1] = 2 * Doublings[n] BY DoublingsFacts
<1> QED BY <1>1, DelayAssumption DEF Doubled, Limited

LEMMA PauseStep == TypeOK /\ PauseInv /\ [Next]_vars => PauseInv'
<1> SUFFICES ASSUME TypeOK, PauseInv, [Next]_vars PROVE PauseInv'
  OBVIOUS
<1> DEFINE before == IF closed THEN 1 ELSE 0
<1>0. refused \in Nat /\ closed \in BOOLEAN /\ before \in {0, 1} BY BoundAssumption DEF TypeOK
<1>1. Doublings[0] = MinDelay BY DoublingsFacts
<1>2. CASE Connect BY <1>2 DEF Connect, PauseInv
<1>3. CASE Refused
  <2>1. /\ run = "connect" /\ run' = "sleep" /\ refused' = refused + 1
        /\ delay' = delay /\ closed' = closed
    BY <1>3 DEF Refused
  <2>2. delay = Limited(Doublings[refused + before]) BY <2>1 DEF PauseInv
  <2>3. refused' > 0 /\ refused' - 1 = refused BY <1>0, <2>1
  <2> QED BY <2>1, <2>2, <2>3 DEF PauseInv
<1>4. CASE Wake
  <2>1. /\ run = "sleep" /\ run' = "connect" /\ delay' = Doubled(delay)
        /\ refused' = refused /\ closed' = closed
    BY <1>4 DEF Wake, NextPause
  <2>2. refused > 0 /\ delay = Limited(Doublings[refused - 1 + before]) BY <2>1 DEF PauseInv
  <2>3. refused - 1 + before \in Nat /\ (refused - 1 + before) + 1 = refused + before
    BY <1>0, <2>2
  <2>4. delay' = Limited(Doublings[refused + before])
    <3> HIDE DEF before
    <3> QED BY <2>1, <2>2, <2>3, DoublesPause
  <2> QED BY <2>1, <2>4 DEF PauseInv
<1>5. CASE Eof
  <2>1. /\ run = "read" /\ run' = "connect" /\ delay' = Doubled(delay) /\ closed' = TRUE
        /\ refused' = refused
    BY <1>5 DEF Eof
  <2>2. delay = MinDelay /\ refused = 0 BY <2>1 DEF PauseInv
  <2>3. Limited(Doublings[0]) = MinDelay BY <1>1, DelayAssumption DEF Limited
  <2>4. delay' = Limited(Doublings[0 + 1]) BY <2>1, <2>2, <2>3, DoublesPause
  <2> QED BY <2>1, <2>2, <2>4 DEF PauseInv
<1>6. CASE ReadFails
  <2>1. /\ run = "read" /\ run' = "connect" /\ delay' = delay /\ closed' = closed
        /\ refused' = refused
    BY <1>6 DEF ReadFails, pause
  <2>2. delay = MinDelay /\ refused = 0 /\ ~closed BY <2>1 DEF PauseInv
  <2>3. Limited(Doublings[0]) = MinDelay BY <1>1, DelayAssumption DEF Limited
  <2>4. refused + 0 = 0 BY <2>2
  <2> QED BY <2>1, <2>2, <2>3, <2>4 DEF PauseInv
<1>7. CASE /\ UNCHANGED <<delay, closed, refused>>
           /\ run' = "ended" \/ run' = run
              \/ {run, run'} \subseteq {"register", "read", "lines"}
  BY <1>7 DEF PauseInv
<1>8. CASE Register \/ RegisterFails \/ Read \/ TakeLine \/ NoLine
           \/ (\E last \in BOOLEAN : HubWrites(last))
           \/ (\E how \in {"closed", "reset"} : HubLeaves(how)) \/ UNCHANGED vars
  BY <1>7, <1>8 DEF Register, RegisterFails, Read, TakeLine, MoreLines, NoLine, HubWrites, HubLeaves,
                    vars, pause
<1> QED BY <1>2, <1>3, <1>4, <1>5, <1>6, <1>8 DEF Next, Worker

\* Attempts refused in a row wait twice as long each time, up to the limit, starting
\* anew with every connection: for any delays and any number of attempts.
THEOREM BackoffDoubles == Spec => []BackoffGrows
<1>1. Init => PauseInv
  <2>1. Limited(Doublings[0]) = MinDelay BY DoublingsFacts, DelayAssumption DEF Limited
  <2>2. 0 + 0 = 0 OBVIOUS
  <2> QED BY <2>1, <2>2 DEF Init, PauseInv
<1>2. TypeOK /\ PauseInv => BackoffGrows
  <2> SUFFICES ASSUME TypeOK, PauseInv, run = "sleep"
               PROVE  delay = Limited(Doublings[refused - (IF closed THEN 0 ELSE 1)])
    BY DEF BackoffGrows
  <2>1. refused \in Nat /\ closed \in BOOLEAN BY BoundAssumption DEF TypeOK
  <2>2. refused - 1 + (IF closed THEN 1 ELSE 0) = refused - (IF closed THEN 0 ELSE 1) BY <2>1
  <2> QED BY <2>2 DEF PauseInv
<1>3. Spec => [](TypeOK /\ NumberInv /\ PauseInv)
  BY <1>1, InitInv, TypeStep, NumberStep, PauseStep, PTL DEF Spec
<1> QED BY <1>2, <1>3, PTL
=============================================================================

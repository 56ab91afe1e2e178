--------------------------- MODULE SessionProofs ---------------------------
(* Proofs about a session.  First its approval cards: what outlives a restart, *)
(* and what is executed when the user's answers come again.  Then its history, *)
(* in stories that are Orderly: the messages of a history that grows, what of  *)
(* a run's stream is in the files and in the memory, and from that, that a run *)
(* which was cancelled is gone, one that ended ends once and whole, and that   *)
(* summaries say what they stand for.                                          *)
EXTENDS SessionInvariants, TLAPS, FiniteSetTheorems, SequenceTheorems

-----------------------------------------------------------------------------
(* Sequences and writes.                                                   *)

\* A finite set in a sequence: each element once.
LEMMA SetToSeqFacts ==
  ASSUME NEW S, IsFiniteSet(S)
  PROVE  /\ SetToSeq(S) \in Seq(S) /\ Len(SetToSeq(S)) = Cardinality(S) /\ Cardinality(S) \in Nat
         /\ \A i, j \in 1..Cardinality(S) : SetToSeq(S)[i] = SetToSeq(S)[j] => i = j
         /\ \A x \in S : \E i \in 1..Cardinality(S) : SetToSeq(S)[i] = x
<1> DEFINE n == Cardinality(S)
           f == SetToSeq(S)
<1>1. n \in Nat /\ ExistsBijection(1..n, S) BY FS_CardinalityType
<1>2. \E g \in [1..n -> S] : IsInjective(g)
  BY <1>1 DEF ExistsBijection, Bijection, Injection
<1>3. f \in [1..n -> S] /\ IsInjective(f) BY <1>2 DEF SetToSeq
<1>4. IsFiniteSet(1..n) /\ Cardinality(1..n) = n BY <1>1, FS_Interval
<1>5. f \in Injection(1..n, S) BY <1>3 DEF Injection
<1>6. f \in Surjection(1..n, S) BY <1>4, <1>5, FS_Injection
<1>7. \A x \in S : \E i \in 1..n : f[i] = x BY <1>6 DEF Surjection
<1>8. f \in Seq(S) /\ Len(f) = n BY <1>1, <1>3
<1> QED BY <1>1, <1>3, <1>7, <1>8 DEF IsInjective

\* The runs of a session can be counted.
LEMMA RunSetsFinite ==
  ASSUME NEW S, S \subseteq Runs
  PROVE  IsFiniteSet(S)
<1>1. MaxRuns \in Nat BY RunsAssumption
<1>2. IsFiniteSet(Runs) BY <1>1, FS_Interval DEF Runs
<1> QED BY <1>2, FS_Subset

\* A set of natural numbers with an upper bound in it has that as its greatest.
LEMMA MaxIs ==
  ASSUME NEW S, S \subseteq Nat, NEW m \in S, \A k \in S : k <= m
  PROVE  Max(S) = m
<1>1. \A x \in S : (\A y \in S : x >= y) => x = m
  <2> SUFFICES ASSUME NEW x \in S, \A y \in S : x >= y PROVE x = m OBVIOUS
  <2>1. x >= m /\ x <= m /\ x \in Nat /\ m \in Nat OBVIOUS
  <2> QED BY <2>1
<1>2. \A y \in S : m >= y OBVIOUS
<1> QED BY <1>1, <1>2 DEF Max

\* A set of numbers with a bound has a greatest.
LEMMA MaxIn ==
  ASSUME NEW S, S \subseteq Nat, NEW n \in Nat, \A k \in S : k <= n, S # {}
  PROVE  Max(S) \in S /\ \A k \in S : k <= Max(S)
<1> DEFINE T == {n - k : k \in S}
<1>1. T \subseteq Nat /\ T # {}
  <2>1. \A k \in S : n - k \in Nat OBVIOUS
  <2> QED BY <2>1
<1>2. PICK t \in T : \A y \in T : ~ (<<y, t>> \in OpToRel(<, Nat))
  BY <1>1, NatLessThanWellFounded, WFMin
<1>3. PICK m \in S : t = n - m OBVIOUS
<1>4. \A k \in S : k <= m
  <2> SUFFICES ASSUME NEW k \in S, ~ (k <= m) PROVE FALSE OBVIOUS
  <2>1. n - k \in T /\ n - k \in Nat /\ t \in Nat /\ n - k < t BY <1>1, <1>3
  <2>2. <<n - k, t>> \in OpToRel(<, Nat) BY <2>1 DEF OpToRel
  <2> QED BY <1>2, <2>1, <2>2
<1> QED BY <1>4, MaxIs

\* A file is as some write left it, or as it was.
LEMMA WrittenIs ==
  ASSUME NEW d, NEW f \in DOMAIN d, NEW ws, NEW l \in Nat, DOMAIN ws = 1..l
  PROVE  \/ Written(d, ws)[f] = d[f] /\ \A n \in 1..l : ws[n][1] # f
         \/ \E n \in 1..l : ws[n][1] = f /\ Written(d, ws)[f] = ws[n][2] /\ \A k \in (n + 1)..l : ws[k][1] # f
<1> DEFINE to == {n \in DOMAIN ws : ws[n][1] = f}
<1>1. Written(d, ws)[f] = IF to = {} THEN d[f] ELSE ws[Max(to)][2] BY DEF Written
<1>2. CASE to = {} BY <1>1, <1>2
<1>3. CASE to # {}
  <2>1. Max(to) \in to /\ \A k \in to : k <= Max(to) BY <1>3, MaxIn
  <2> DEFINE m == Max(to)
  <2>2. m \in 1..l /\ ws[m][1] = f /\ \A k \in 1..l : ws[k][1] = f => k <= m BY <2>1
  <2>3. Written(d, ws)[f] = ws[m][2] BY <1>1, <1>3
  <2> HIDE DEF m
  <2>4. \A k \in (m + 1)..l : k \in 1..l /\ ~ (k <= m) BY <2>2
  <2> QED BY <2>2, <2>3, <2>4
<1> QED BY <1>2, <1>3

\* A row is a sequence of its own elements.
LEMMA RowIsSeq ==
  ASSUME NEW s, Row(s)
  PROVE  s \in Seq({s[n] : n \in 1..Len(s)}) /\ DOMAIN s = 1..Len(s)
BY DEF Row

\* Every sequence is a row.
LEMMA SeqIsRow ==
  ASSUME NEW S, NEW s \in Seq(S)
  PROVE  Row(s)
BY LenProperties DEF Row

\* A function on the first numbers is a row.
LEMMA RowOfFunction ==
  ASSUME NEW l \in Nat, NEW s, s = [n \in 1..l |-> s[n]]
  PROVE  Row(s) /\ Len(s) = l
BY DEF Row

\* Sequences one behind the other.
LEMMA RowJoin ==
  ASSUME NEW a, NEW b, Row(a), Row(b)
  PROVE  /\ Row(a \o b) /\ Len(a \o b) = Len(a) + Len(b)
         /\ \A n \in 1..Len(a) : (a \o b)[n] = a[n]
         /\ \A n \in 1..Len(b) : (a \o b)[Len(a) + n] = b[n]
         /\ \A n \in 1..(Len(a) + Len(b)) : n \in 1..Len(a) \/ n - Len(a) \in 1..Len(b)
         /\ \A n \in 1..(Len(a) + Len(b)) : n > Len(a) => (a \o b)[n] = b[n - Len(a)]
<1> DEFINE S == {a[n] : n \in 1..Len(a)} \cup {b[n] : n \in 1..Len(b)}
<1>1. a \in Seq(S) /\ b \in Seq(S) BY DEF Row
<1>2. Len(a) \in Nat /\ Len(b) \in Nat BY DEF Row
<1> HIDE DEF S
<1>3. /\ a \o b \in Seq(S) /\ Len(a \o b) = Len(a) + Len(b)
      /\ \A n \in 1..(Len(a) + Len(b)) : (a \o b)[n] = IF n <= Len(a) THEN a[n] ELSE b[n - Len(a)]
  BY <1>1, ConcatProperties
<1>4. Row(a \o b) BY <1>3, SeqIsRow
<1>5. \A n \in 1..Len(a) : n \in 1..(Len(a) + Len(b)) /\ n <= Len(a) BY <1>2
<1>6. \A n \in 1..Len(b) : Len(a) + n \in 1..(Len(a) + Len(b)) /\ ~ (Len(a) + n <= Len(a)) /\ Len(a) + n - Len(a) = n
  BY <1>2
<1>7. \A n \in 1..Len(b) : (a \o b)[Len(a) + n] = b[n] BY <1>3, <1>6
<1>8. \A n \in 1..(Len(a) + Len(b)) : n \in 1..Len(a) \/ n - Len(a) \in 1..Len(b) BY <1>2
<1>9. \A n \in 1..(Len(a) + Len(b)) : n > Len(a) => (a \o b)[n] = b[n - Len(a)] BY <1>2, <1>3
<1> QED BY <1>3, <1>4, <1>5, <1>7, <1>8, <1>9

\* The first writes of an operation.
LEMMA RowCut ==
  ASSUME NEW a, Row(a), NEW l \in 0..Len(a)
  PROVE  /\ Row(SubSeq(a, 1, l)) /\ Len(SubSeq(a, 1, l)) = l
         /\ \A n \in 1..l : SubSeq(a, 1, l)[n] = a[n]
<1> DEFINE S == {a[n] : n \in 1..Len(a)}
<1>1. Len(a) \in Nat /\ l \in Nat BY DEF Row
<1>2. \A i \in 1..l : a[i] \in S BY <1>1
<1> HIDE DEF S
<1>3. /\ SubSeq(a, 1, l) \in Seq(S)
      /\ Len(SubSeq(a, 1, l)) = IF 1 <= l THEN l - 1 + 1 ELSE 0
      /\ \A i \in 1..(l - 1 + 1) : SubSeq(a, 1, l)[i] = a[1 + i - 1]
  BY <1>1, <1>2, SubSeqProperties
<1>4. l - 1 + 1 = l /\ \A i \in 1..l : 1 + i - 1 = i BY <1>1
<1>5. \A i \in 1..l : SubSeq(a, 1, l)[i] = a[i] BY <1>3, <1>4
<1>6. Len(SubSeq(a, 1, l)) = l BY <1>1, <1>3
<1> QED BY <1>3, <1>5, <1>6, SeqIsRow

-----------------------------------------------------------------------------
(* What the operations write.                                              *)

\* Such writes, all or the first few, leave the cards alone.
LEMMA HarmlessWrites ==
  ASSUME NEW d, Shape(d), NEW ws, Harmless(ws), NEW l \in 0..Len(ws)
  PROVE  SameCards(d, Written(d, SubSeq(ws, 1, l))) /\ SameCards(d, Written(d, ws))
<1>1. ASSUME NEW vs, Harmless(vs) PROVE SameCards(d, Written(d, vs))
  <2> DEFINE e == Written(d, vs)
  <2>1. DOMAIN e = DOMAIN d BY DEF Written
  <2>2. DOMAIN vs = 1..Len(vs) /\ Len(vs) \in Nat /\ \A n \in 1..Len(vs) : vs[n][1] \in {"history", "context"}
    BY <1>1, RowIsSeq DEF Harmless, Row
  <2>3. \A f \in {"open", "cards", "intents"} : e[f] = d[f]
    BY <2>2, WrittenIs DEF Shape
  <2>4. e.open = d.open /\ e.cards = d.cards /\ e.intents = d.intents BY <2>3
  <2> HIDE DEF e
  <2> QED BY <2>1, <2>4 DEF SameCards, Shape, St, e
<1>2. Harmless(SubSeq(ws, 1, l)) BY RowCut DEF Harmless, Row
<1> QED BY <1>1, <1>2

\* A file that is not written stays; else it is as the last write of it says.
LEMMA FileStays ==
  ASSUME NEW d, NEW ws, Row(ws), NEW f \in DOMAIN d, \A n \in 1..Len(ws) : ws[n][1] # f
  PROVE  Written(d, ws)[f] = d[f]
<1>1. Len(ws) \in Nat /\ DOMAIN ws = 1..Len(ws) BY RowIsSeq DEF Row
<1> QED BY <1>1, WrittenIs

\* A file is as its last write says.
LEMMA LastWrite ==
  ASSUME NEW d, NEW ws, Row(ws), NEW f \in DOMAIN d, NEW m \in 1..Len(ws), ws[m][1] = f,
         \A k \in 1..Len(ws) : k > m => ws[k][1] # f
  PROVE  Written(d, ws)[f] = ws[m][2]
<1>1. Len(ws) \in Nat /\ DOMAIN ws = 1..Len(ws) BY RowIsSeq DEF Row
<1>2. PICK n \in 1..Len(ws) : /\ ws[n][1] = f /\ Written(d, ws)[f] = ws[n][2]
                              /\ \A k \in (n + 1)..Len(ws) : ws[k][1] # f
  BY <1>1, WrittenIs
<1>3. ~ (n > m) BY <1>2
<1>4. ~ (m > n) BY <1>1, <1>2
<1>5. n = m BY <1>1, <1>3, <1>4
<1> QED BY <1>2, <1>5

\* Writes that turn cards turn the cards.
LEMMA CardWrites ==
  ASSUME NEW d, Shape(d), NEW ws, Row(ws), NEW ids, NEW s,
         \A n \in 1..Len(ws) : ws[n][1] = "cards" => Turn(ws[n][2], d, ids, s)
  PROVE  Turn(Written(d, ws).cards, d, ids, s)
<1>1. Len(ws) \in Nat /\ DOMAIN ws = 1..Len(ws) BY RowIsSeq DEF Row
<1>2. Turn(d.cards, d, ids, s) BY DEF Shape, St, Turn
<1>3. \/ Written(d, ws)["cards"] = d["cards"]
      \/ \E n \in 1..Len(ws) : ws[n][1] = "cards" /\ Written(d, ws)["cards"] = ws[n][2]
  BY <1>1, WrittenIs DEF Shape
<1> QED BY <1>2, <1>3

\* What is appended to the history is harmless to the cards.
LEMMA OneWrite ==
  ASSUME NEW x
  PROVE  Row(<<x>>) /\ Len(<<x>>) = 1 /\ <<x>>[1] = x
<1>1. <<x>> \in Seq({x}) /\ Len(<<x>>) = 1 /\ <<x>>[1] = x OBVIOUS
<1> QED BY <1>1, SeqIsRow

\* The row of no writes.
LEMMA NoWrite == Row(<<>>) /\ Len(<<>>) = 0
<1>1. <<>> \in Seq({}) /\ Len(<<>>) = 0 OBVIOUS
<1> QED BY <1>1, SeqIsRow

\* No write does no harm.
LEMMA NothingIsHarmless == Harmless(<<>>)
BY NoWrite DEF Harmless

\* Nor does one of the history or the context.
LEMMA OneIsHarmless ==
  ASSUME NEW x, x[1] \in {"history", "context"}
  PROVE  Harmless(<<x>>)
BY OneWrite DEF Harmless

\* Nor does appending to the history.
LEMMA FlushHarmless ==
  ASSUME NEW d, NEW m
  PROVE  Harmless(Flush(d, m).writes)
<1> DEFINE tail == SubSeq(m.events, m.count + 1, Len(m.events))
           named == {i \in DOMAIN tail : Named(tail[i])}
           r == IF named = {} THEN m.active ELSE tail[Min(named)][2]
           w == <<"history", Append(d.history, Record("events", r, tail))>>
<1>1. Flush(d, m).writes = IF tail = <<>> THEN <<>> ELSE << w >> BY DEF Flush, Outcome
<1>2. w[1] = "history" OBVIOUS
<1> HIDE DEF w, tail
<1> QED BY <1>1, <1>2, NothingIsHarmless, OneIsHarmless

-----------------------------------------------------------------------------
(* Settling cards, and taking them up.                                     *)

\* Card files v that differ from those of d in the first n of cards, whose status is s.
LEMMA TurnsUpTo ==
  ASSUME NEW d, Shape(d), NEW ids, NEW cards \in Seq(ids), NEW s, NEW n \in 0..Len(cards),
         NEW v, DOMAIN v = Runs,
         \A i \in Runs : (\E j \in 1..n : cards[j] = i) => "status" \in DOMAIN v[i] /\ v[i].status = s,
         \A i \in Runs : ~ (\E j \in 1..n : cards[j] = i) => v[i] = d.cards[i]
  PROVE  /\ Turn(v, d, ids, s)
         /\ \A j \in 1..n : cards[j] \in Runs => v[cards[j]].status = s
<1>1. \A i \in Runs : "status" \in DOMAIN d.cards[i] BY DEF Shape
<1>2. ASSUME NEW i \in Runs, \E j \in 1..n : cards[j] = i
      PROVE  "status" \in DOMAIN v[i] /\ v[i].status = s /\ i \in ids
  <2>1. PICK j \in 1..n : cards[j] = i BY <1>2
  <2>2. Len(cards) \in Nat BY LenProperties
  <2>3. j \in 1..Len(cards) BY <2>2
  <2>4. i \in ids BY <2>1, <2>3, ElementOfSeq
  <2> QED BY <1>2, <2>4
<1>3. ASSUME NEW i \in Runs, ~ \E j \in 1..n : cards[j] = i
      PROVE  "status" \in DOMAIN v[i] /\ v[i].status = St(d, i)
  BY <1>1, <1>3 DEF St
<1>4. Turn(v, d, ids, s) BY <1>2, <1>3 DEF Turn
<1> QED BY <1>2, <1>4

\* Settled files are turned.
LEMMA TurnedToTurns ==
  ASSUME NEW d, Shape(d), NEW ids, NEW cards \in Seq(ids), NEW s, NEW n \in 0..Len(cards)
  PROVE  /\ Turn(TurnedTo(d, cards, s, n), d, ids, s)
         /\ \A j \in 1..n : cards[j] \in Runs => TurnedTo(d, cards, s, n)[cards[j]].status = s
<1> DEFINE v == TurnedTo(d, cards, s, n)
<1>1. \A i \in Runs : "status" \in DOMAIN d.cards[i] BY DEF Shape
<1>2. DOMAIN v = Runs BY DEF TurnedTo
<1>3. \A i \in Runs : v[i] = IF \E j \in 1..n : cards[j] = i
                             THEN [d.cards[i] EXCEPT !.status = s] ELSE d.cards[i]
  BY DEF TurnedTo
<1>4. \A i \in Runs : LET u == [d.cards[i] EXCEPT !.status = s] IN "status" \in DOMAIN u /\ u.status = s
  BY <1>1
<1> HIDE DEF v
<1>5. /\ \A i \in Runs : (\E j \in 1..n : cards[j] = i) => "status" \in DOMAIN v[i] /\ v[i].status = s
      /\ \A i \in Runs : ~ (\E j \in 1..n : cards[j] = i) => v[i] = d.cards[i]
  BY <1>3, <1>4
<1>6. Turn(v, d, ids, s) /\ \A j \in 1..n : cards[j] \in Runs => v[cards[j]].status = s
  BY <1>2, <1>5, TurnsUpTo
<1> QED BY <1>6 DEF v

\* Files taken up are turned.
LEMMA ClaimedToTurns ==
  ASSUME NEW d, Shape(d), NEW ids, NEW cards \in Seq(ids), NEW r, NEW n \in 0..Len(cards)
  PROVE  /\ Turn(ClaimedTo(d, cards, r, n), d, ids, "resuming")
         /\ \A j \in 1..n : cards[j] \in Runs => ClaimedTo(d, cards, r, n)[cards[j]].status = "resuming"
<1> DEFINE v == ClaimedTo(d, cards, r, n)
<1>1. \A i \in Runs : "status" \in DOMAIN d.cards[i] BY DEF Shape
<1>2. DOMAIN v = Runs BY DEF ClaimedTo
<1>3. \A i \in Runs : v[i] = IF \E j \in 1..n : cards[j] = i
                             THEN [d.cards[i] EXCEPT !.status = "resuming", !.by = r] ELSE d.cards[i]
  BY DEF ClaimedTo
<1>4. \A i \in Runs : LET u == [d.cards[i] EXCEPT !.status = "resuming", !.by = r]
                      IN "status" \in DOMAIN u /\ u.status = "resuming"
  BY <1>1
<1> HIDE DEF v
<1>5. /\ \A i \in Runs : (\E j \in 1..n : cards[j] = i) => "status" \in DOMAIN v[i] /\ v[i].status = "resuming"
      /\ \A i \in Runs : ~ (\E j \in 1..n : cards[j] = i) => v[i] = d.cards[i]
  BY <1>3, <1>4
<1>6. Turn(v, d, ids, "resuming") /\ \A j \in 1..n : cards[j] \in Runs => v[cards[j]].status = "resuming"
  BY <1>2, <1>5, TurnsUpTo
<1> QED BY <1>6 DEF v

\* finish_resume and ensure_accepts_new_input: each card of ids has the status at the
\* end, the closed ones are open no longer; before the last write they still are.
LEMMA SettleWrites ==
  ASSUME NEW d, Shape(d), NEW m, NEW ids, ids \subseteq Runs, NEW s, NEW closed
  PROVE  LET ws == Settle(d, m, ids, s, closed).writes
             e == Written(d, ws)
         IN /\ Row(ws)
            /\ Shape(e) /\ e.open = d.open \ closed /\ e.intents = d.intents
            /\ Turn(e.cards, d, ids, s) /\ \A i \in ids : St(e, i) = s
            /\ \A l \in 0..(Len(ws) - 1) : Turned(d, Written(d, SubSeq(ws, 1, l)), ids, s)
<1> DEFINE cards == SetToSeq(ids)
           c == Cardinality(ids)
           a == [n \in DOMAIN cards |-> <<"cards", TurnedTo(d, cards, s, n)>>]
           b == Flush(d, [m EXCEPT !.events = @ \o CardSnapshots(ids)]).writes
           z == <<"open", d.open \ closed>>
           ws == Settle(d, m, ids, s, closed).writes
           e == Written(d, ws)
<1>1. ws = (a \o b) \o << z >> BY DEF Settle, Outcome, TurnedTo
<1>2. /\ cards \in Seq(ids) /\ Len(cards) = c /\ c \in Nat
      /\ \A x \in ids : \E i \in 1..c : cards[i] = x
  <2>1. IsFiniteSet(ids) BY RunSetsFinite
  <2> HIDE DEF cards, c
  <2> QED BY <2>1, SetToSeqFacts DEF cards, c
<1>3. Harmless(b) BY FlushHarmless
<1>4. DOMAIN cards = 1..c
  <2> HIDE DEF cards, c
  <2> QED BY <1>2, LenProperties
<1>5. Row(a) /\ Len(a) = c /\ \A n \in 1..c : a[n] = <<"cards", TurnedTo(d, cards, s, n)>>
  <2>1. a = [n \in 1..c |-> <<"cards", TurnedTo(d, cards, s, n)>>] BY <1>4
  <2>2. a = [n \in 1..c |-> a[n]] BY <2>1
  <2>3. \A n \in 1..c : a[n] = <<"cards", TurnedTo(d, cards, s, n)>> BY <2>1
  <2> HIDE DEF a, c, cards
  <2> QED BY <1>2, <2>2, <2>3, RowOfFunction
<1>6. Row(<< z >>) /\ Len(<< z >>) = 1 /\ << z >>[1] = z BY OneWrite
<1>z. z[1] = "open" /\ z[2] = d.open \ closed OBVIOUS
<1>t. \A n \in 1..c : /\ a[n][1] = "cards" /\ Turn(a[n][2], d, ids, s)
                      /\ \A j \in 1..n : cards[j] \in Runs => a[n][2][cards[j]].status = s
  <2> SUFFICES ASSUME NEW n \in 1..c
      PROVE /\ a[n][1] = "cards" /\ Turn(a[n][2], d, ids, s)
            /\ \A j \in 1..n : cards[j] \in Runs => a[n][2][cards[j]].status = s
    OBVIOUS
  <2>1. a[n][1] = "cards" /\ a[n][2] = TurnedTo(d, cards, s, n) BY <1>5
  <2>2. n \in 0..Len(cards) BY <1>2
  <2> HIDE DEF a, cards, c
  <2> QED BY <1>2, <2>1, <2>2, TurnedToTurns
<1> HIDE DEF a, b, z, c, cards, ws
<1>7. /\ Row(a \o b) /\ Len(a \o b) = c + Len(b) /\ Len(b) \in Nat
      /\ \A n \in 1..c : (a \o b)[n] = a[n]
      /\ \A n \in 1..(c + Len(b)) : n > c => (a \o b)[n] = b[n - c] /\ n - c \in 1..Len(b)
  <2>1. Row(b) /\ Len(b) \in Nat BY <1>3 DEF Harmless, Row
  <2>2. \A n \in 1..(c + Len(b)) : n > c => n - c \in 1..Len(b) BY <1>2, <2>1
  <2> QED BY <1>5, <2>1, <2>2, RowJoin
<1> DEFINE l == c + Len(b)
<1>8. /\ Row(ws) /\ l \in Nat /\ Len(ws) = l + 1 /\ ws[l + 1] = z
      /\ \A n \in 1..l : ws[n] = (a \o b)[n]
  <2>0. l \in Nat /\ Len(a \o b) = l BY <1>2, <1>7
  <2> HIDE DEF l
  <2>1. Row(ws) /\ Len(ws) = l + 1 /\ \A n \in 1..l : ws[n] = (a \o b)[n]
    BY <1>1, <1>6, <1>7, <2>0, RowJoin
  <2>2. ws[l + 1] = << z >>[1] BY <1>1, <1>6, <1>7, <2>0, RowJoin
  <2> QED BY <1>6, <2>0, <2>1, <2>2
\* the writes, one by one
<1>9. \A n \in 1..l : \/ n \in 1..c /\ ws[n] = a[n]
                      \/ n > c /\ ws[n][1] \in {"history", "context"}
  <2> SUFFICES ASSUME NEW n \in 1..l
      PROVE (n \in 1..c /\ ws[n] = a[n]) \/ (n > c /\ ws[n][1] \in {"history", "context"})
    OBVIOUS
  <2>1. CASE n > c BY <1>7, <1>8, <2>1, <1>3 DEF Harmless
  <2>2. CASE ~ (n > c) BY <1>2, <1>8, <2>2, <1>7
  <2> QED BY <2>1, <2>2
<1>10. ASSUME NEW k \in 1..(l + 1), ws[k][1] = "cards" PROVE k \in 1..c /\ ws[k] = a[k] BY <1>8, <1>9, <1>10, <1>z
<1>11. \A k \in 1..(l + 1) : ws[k][1] = "open" => k = l + 1
  <2> SUFFICES ASSUME NEW k \in 1..(l + 1), k # l + 1 PROVE ws[k][1] # "open" OBVIOUS
  <2>1. k \in 1..l BY <1>8
  <2> QED BY <1>9, <1>t, <2>1
<1>12. \A k \in 1..(l + 1) : ws[k][1] # "intents"
  <2> SUFFICES ASSUME NEW k \in 1..(l + 1) PROVE ws[k][1] # "intents" OBVIOUS
  <2>1. k \in 1..l \/ k = l + 1 BY <1>8
  <2> QED BY <1>8, <1>9, <1>t, <1>z, <2>1
\* all of them
<1> DEFINE w == Written(d, ws)
<1>13. DOMAIN w = DOMAIN d BY DEF Written
<1>14. w["intents"] = d["intents"] BY <1>8, <1>12, FileStays DEF Shape
<1>15. w["open"] = d.open \ closed BY <1>8, <1>z, LastWrite DEF Shape
<1>16. Turn(w.cards, d, ids, s) BY <1>8, <1>10, <1>t, CardWrites
<1>17. ASSUME NEW i \in ids PROVE St(w, i) = s
  <2>1. PICK j \in 1..c : cards[j] = i BY <1>2
  <2>2. c \in 1..c /\ c \in 1..Len(ws) /\ c \in 1..l BY <1>7, <1>2, <1>8
  <2>3. ws[c] = a[c] /\ ws[c][1] = "cards" BY <1>2, <1>9, <1>t, <2>2
  <2>4. \A k \in 1..Len(ws) : k > c => ws[k][1] # "cards" BY <1>2, <1>8, <1>10
  <2>5. w["cards"] = ws[c][2] BY SMTT(30), <1>8, <2>2, <2>3, <2>4, LastWrite DEF Shape
  <2>6. i \in Runs /\ a[c][2][i].status = s BY <1>t, <2>1, <2>2
  <2> HIDE DEF w
  <2> QED BY <2>3, <2>5, <2>6 DEF St
\* some of them
<1>18. ASSUME NEW k \in 0..(Len(ws) - 1) PROVE Turned(d, Written(d, SubSeq(ws, 1, k)), ids, s)
  <2> DEFINE vs == SubSeq(ws, 1, k)
             v == Written(d, vs)
  <2>1. k \in Nat /\ k <= l /\ k \in 0..Len(ws) BY <1>8
  <2>2. Row(vs) /\ Len(vs) = k /\ \A n \in 1..k : vs[n] = ws[n] BY <1>8, <2>1, RowCut
  <2>3. \A n \in 1..k : n \in 1..(l + 1) /\ n # l + 1 BY <1>8, <2>1
  <2> HIDE DEF vs
  <2>4. DOMAIN v = DOMAIN d BY DEF Written
  <2>5. v["intents"] = d["intents"] BY <1>12, <2>2, <2>3, FileStays DEF Shape
  <2>6. v["open"] = d["open"] BY <1>11, <2>2, <2>3, FileStays DEF Shape
  <2>7. \A n \in 1..Len(vs) : vs[n][1] = "cards" => Turn(vs[n][2], d, ids, s) BY <1>10, <1>t, <2>2, <2>3
  <2>8. Turn(v.cards, d, ids, s) BY <2>2, <2>7, CardWrites
  <2> HIDE DEF v
  <2>9. Shape(v) BY <2>4, <2>6, <2>8 DEF Shape, Turn
  <2> QED BY <2>5, <2>6, <2>8, <2>9 DEF Turned, v, vs
<1>19. Shape(w)
  <2> HIDE DEF w
  <2> QED BY <1>13, <1>15, <1>16 DEF Shape, Turn
<1> HIDE DEF w
<1>20. w.open = d.open \ closed /\ w.intents = d.intents BY <1>14, <1>15
<1> QED BY <1>8, <1>16, <1>17, <1>18, <1>19, <1>20 DEF ws, w

\* prepare_resume of a decision that was not claimed: the claim is written first, then
\* every open card is taken up.
LEMMA ClaimWrites ==
  ASSUME NEW d, Shape(d), NEW m, NEW decision, NEW r, Claim(decision, r) \notin d.intents
  PROVE  LET ws == PrepareResume(d, m, decision, r).writes
             e == Written(d, ws)
             more == d.intents \cup {Claim(decision, r)}
         IN /\ Row(ws)
            /\ Shape(e) /\ e.open = d.open /\ e.intents = more
            /\ Turn(e.cards, d, d.open, "resuming") /\ \A i \in d.open : St(e, i) = "resuming"
            /\ \A l \in 0..(Len(ws) - 1) :
                 LET v == Written(d, SubSeq(ws, 1, l))
                 IN /\ Shape(v) /\ v.open = d.open /\ v.intents \subseteq more
                    /\ Turn(v.cards, d, d.open, "resuming")
<1> DEFINE cards == SetToSeq(d.open)
           c == Cardinality(d.open)
           a == [n \in DOMAIN cards |-> <<"cards", ClaimedTo(d, cards, r, n)>>]
           more == d.intents \cup {Claim(decision, r)}
           z == <<"intents", more>>
           ws == PrepareResume(d, m, decision, r).writes
           w == Written(d, ws)
<1>1. ws = << z >> \o a BY DEF PrepareResume, Outcome, ClaimedTo
<1>2. /\ cards \in Seq(d.open) /\ Len(cards) = c /\ c \in Nat
      /\ \A x \in d.open : \E i \in 1..c : cards[i] = x
  <2>1. IsFiniteSet(d.open) BY RunSetsFinite DEF Shape
  <2> HIDE DEF cards, c
  <2> QED BY <2>1, SetToSeqFacts DEF cards, c
<1>3. DOMAIN cards = 1..c
  <2> HIDE DEF cards, c
  <2> QED BY <1>2, LenProperties
<1>4. Row(a) /\ Len(a) = c /\ \A n \in 1..c : a[n] = <<"cards", ClaimedTo(d, cards, r, n)>>
  <2>1. a = [n \in 1..c |-> <<"cards", ClaimedTo(d, cards, r, n)>>] BY <1>3
  <2>2. a = [n \in 1..c |-> a[n]] BY <2>1
  <2>3. \A n \in 1..c : a[n] = <<"cards", ClaimedTo(d, cards, r, n)>> BY <2>1
  <2> HIDE DEF a, c, cards
  <2> QED BY <1>2, <2>2, <2>3, RowOfFunction
<1>5. Row(<< z >>) /\ Len(<< z >>) = 1 /\ << z >>[1] = z BY OneWrite
<1>z. z[1] = "intents" /\ z[2] = more OBVIOUS
<1>t. \A n \in 1..c : /\ a[n][1] = "cards" /\ Turn(a[n][2], d, d.open, "resuming")
                      /\ \A j \in 1..n : cards[j] \in Runs => a[n][2][cards[j]].status = "resuming"
  <2> SUFFICES ASSUME NEW n \in 1..c
      PROVE /\ a[n][1] = "cards" /\ Turn(a[n][2], d, d.open, "resuming")
            /\ \A j \in 1..n : cards[j] \in Runs => a[n][2][cards[j]].status = "resuming"
    OBVIOUS
  <2>1. a[n][1] = "cards" /\ a[n][2] = ClaimedTo(d, cards, r, n) BY <1>4
  <2>2. n \in 0..Len(cards) BY <1>2
  <2> HIDE DEF a, cards, c
  <2> QED BY <1>2, <2>1, <2>2, ClaimedToTurns
<1> HIDE DEF a, z, c, cards, ws, more
<1>6. /\ Row(ws) /\ Len(ws) = c + 1 /\ ws[1] = z
      /\ \A n \in 1..c : ws[n + 1] = a[n]
      /\ \A n \in 1..(c + 1) : n = 1 \/ (n - 1 \in 1..c /\ ws[n] = a[n - 1]) BY <1>1, <1>4, <1>5, RowJoin, <1>2
<1>7. \A n \in 1..(c + 1) : /\ ws[n][1] = "cards" => Turn(ws[n][2], d, d.open, "resuming")
                            /\ ws[n][1] = "intents" => ws[n][2] = more
                            /\ ws[n][1] # "open"
  <2> SUFFICES ASSUME NEW n \in 1..(c + 1)
      PROVE /\ ws[n][1] = "cards" => Turn(ws[n][2], d, d.open, "resuming")
            /\ ws[n][1] = "intents" => ws[n][2] = more
            /\ ws[n][1] # "open"
    OBVIOUS
  <2>1. CASE n = 1 BY <1>6, <1>z, <2>1
  <2>2. CASE n - 1 \in 1..c /\ ws[n] = a[n - 1] BY <1>t, <2>2
  <2> QED BY <1>6, <2>1, <2>2
\* however many of them
<1>8. ASSUME NEW vs, Row(vs), Len(vs) <= c + 1, \A n \in 1..Len(vs) : vs[n] = ws[n]
      PROVE  LET v == Written(d, vs)
             IN /\ Shape(v) /\ v.open = d.open /\ v.intents \subseteq more
                /\ Turn(v.cards, d, d.open, "resuming")
  <2> DEFINE v == Written(d, vs)
  <2>1. \A n \in 1..Len(vs) : n \in 1..(c + 1) BY <1>2, <1>8 DEF Row
  <2>2. DOMAIN v = DOMAIN d BY DEF Written
  <2>3. v["open"] = d["open"] BY <1>7, <1>8, <2>1, FileStays DEF Shape
  <2>4. Turn(v.cards, d, d.open, "resuming") BY <1>7, <1>8, <2>1, CardWrites
  <2>5. v["intents"] = d["intents"] \/ v["intents"] = more BY <1>8, RowIsSeq, WrittenIs, <1>7, <2>1 DEF Row, Shape
  <2>6. v.intents \subseteq more BY <2>5 DEF more
  <2> HIDE DEF v
  <2>7. Shape(v) BY <2>2, <2>3, <2>4 DEF Shape, Turn
  <2> QED BY <2>3, <2>4, <2>6, <2>7 DEF v
<1>9. Len(ws) <= c + 1 /\ \A n \in 1..Len(ws) : ws[n] = ws[n] BY <1>2, <1>6
<1>10. Shape(w) /\ w.open = d.open /\ w.intents \subseteq more /\ Turn(w.cards, d, d.open, "resuming")
  BY <1>6, <1>8, <1>9
<1>11. w["intents"] = more
  <2>1. 1 \in 1..Len(ws) /\ ws[1][1] = "intents" BY <1>2, <1>6, <1>z
  <2>2. \A k \in 1..Len(ws) : k > 1 => ws[k][1] # "intents" BY <1>2, <1>6, <1>t
  <2>3. w["intents"] = ws[1][2] BY <1>6, <2>1, <2>2, LastWrite DEF Shape
  <2> QED BY <1>6, <1>z, <2>3
<1>12. ASSUME NEW i \in d.open PROVE St(w, i) = "resuming"
  <2>1. PICK j \in 1..c : cards[j] = i BY <1>2
  <2>2. c \in 1..c /\ c + 1 \in 1..Len(ws) BY <1>2, <1>6
  <2>3. ws[c + 1] = a[c] /\ ws[c + 1][1] = "cards" BY <1>6, <1>t, <2>2
  <2>4. \A k \in 1..Len(ws) : k > c + 1 => ws[k][1] # "cards" BY <1>2, <1>6
  <2>5. w["cards"] = ws[c + 1][2] BY <1>6, <2>2, <2>3, <2>4, LastWrite DEF Shape
  <2>6. i \in Runs /\ a[c][2][i].status = "resuming" BY <1>t, <2>1, <2>2 DEF Shape
  <2> HIDE DEF w
  <2> QED BY <2>3, <2>5, <2>6 DEF St
<1>13. ASSUME NEW k \in 0..(Len(ws) - 1)
       PROVE  LET v == Written(d, SubSeq(ws, 1, k))
              IN /\ Shape(v) /\ v.open = d.open /\ v.intents \subseteq more
                 /\ Turn(v.cards, d, d.open, "resuming")
  <2>1. k \in 0..Len(ws) /\ k <= c + 1 BY <1>2, <1>6
  <2>2. Row(SubSeq(ws, 1, k)) /\ Len(SubSeq(ws, 1, k)) = k /\ \A n \in 1..k : SubSeq(ws, 1, k)[n] = ws[n]
    BY <1>6, <2>1, RowCut
  <2> QED BY <1>8, <2>1, <2>2
<1> HIDE DEF w
<1>14. w.intents = more BY <1>11
<1> QED BY <1>6, <1>10, <1>12, <1>13, <1>14 DEF ws, w, more

\* persist_interrupt: the card is there before session.json names it.
LEMMA InterruptWrites ==
  ASSUME NEW d, Shape(d), NEW m, NEW r \in Runs
  PROVE  LET ws == PersistInterrupt(d, m, r).writes
             e == Written(d, ws)
             Raised(v) == /\ Shape(v) /\ v.intents = d.intents
                          /\ \A i \in Runs : \/ St(v, i) = St(d, i)
                                             \/ i = r /\ St(d, r) = "none" /\ St(v, r) = "pending"
         IN /\ Len(ws) = 3 /\ Raised(e) /\ e.open = d.open \cup {r} /\ St(e, r) # "none"
            /\ \A l \in 0..2 : LET v == Written(d, SubSeq(ws, 1, l)) IN Raised(v) /\ v.open = d.open
<1> DEFINE x == <<"context", Validated(d.context, d.history)>>
           card == [status |-> "pending", gen |-> Validated(d.context, d.history).gen, by |-> None]
           cards == [d.cards EXCEPT ![r] = IF @.status = "none" THEN card ELSE @]
           y == <<"cards", cards>>
           z == <<"open", d.open \cup {r}>>
           ws == PersistInterrupt(d, m, r).writes
           Raised(v) == /\ Shape(v) /\ v.intents = d.intents
                        /\ \A i \in Runs : \/ St(v, i) = St(d, i)
                                           \/ i = r /\ St(d, r) = "none" /\ St(v, r) = "pending"
           Carded(c) == /\ DOMAIN c = Runs /\ \A i \in Runs : "status" \in DOMAIN c[i]
                     /\ \A i \in Runs : \/ c[i].status = St(d, i)
                                        \/ i = r /\ St(d, r) = "none" /\ c[i].status = "pending"
<1>1. ws = <<x, y, z>> BY DEF PersistInterrupt, Outcome
<1>2. x[1] = "context" /\ y[1] = "cards" /\ y[2] = cards /\ z[1] = "open" /\ z[2] = d.open \cup {r} OBVIOUS
<1>3. Carded(cards) /\ cards[r].status # "none"
  <2>1. DOMAIN d.cards = Runs /\ \A i \in Runs : "status" \in DOMAIN d.cards[i] BY DEF Shape
  <2>2. "status" \in DOMAIN card /\ card.status = "pending" OBVIOUS
  <2>3. DOMAIN cards = Runs BY <2>1
  <2>4. \A i \in Runs : cards[i] = IF i = r /\ d.cards[i].status = "none" THEN card ELSE d.cards[i]
    BY <2>1
  <2> HIDE DEF card, cards
  <2>5. \A i \in Runs : /\ "status" \in DOMAIN cards[i]
                        /\ \/ cards[i].status = St(d, i)
                           \/ i = r /\ St(d, r) = "none" /\ cards[i].status = "pending"
    BY <2>1, <2>2, <2>4 DEF St
  <2>6. cards[r].status # "none" BY <2>1, <2>2, <2>4
  <2> QED BY <2>3, <2>5, <2>6
<1>4. Carded(d.cards) BY DEF St, Shape
<1> HIDE DEF x, y, z, cards
<1>5. Row(ws) /\ Len(ws) = 3 /\ ws[1] = x /\ ws[2] = y /\ ws[3] = z
  <2>1. <<x, y, z>> \in Seq({x, y, z}) OBVIOUS
  <2>2. Len(<<x, y, z>>) = 3 /\ <<x, y, z>>[1] = x /\ <<x, y, z>>[2] = y /\ <<x, y, z>>[3] = z OBVIOUS
  <2> QED BY <1>1, <2>1, <2>2, SeqIsRow
<1> HIDE DEF ws
\* however many of them
<1>6. ASSUME NEW vs, Row(vs), Len(vs) <= 3, \A n \in 1..Len(vs) : vs[n] = ws[n]
      PROVE  LET v == Written(d, vs)
             IN /\ v.open = d.open \/ v.open = d.open \cup {r}
                /\ Raised(v) /\ (Len(vs) < 3 => v.open = d.open)
  <2> DEFINE v == Written(d, vs)
  <2>1. Len(vs) \in Nat /\ DOMAIN vs = 1..Len(vs) BY <1>6, RowIsSeq DEF Row
  <2>2. \A n \in 1..Len(vs) : \/ n = 1 /\ vs[n] = x
                              \/ n = 2 /\ vs[n] = y
                              \/ n = 3 /\ vs[n] = z BY <1>6, <2>1, <1>5
  <2>3. DOMAIN v = DOMAIN d BY DEF Written
  <2>4. v["intents"] = d["intents"] BY <1>2, <2>2, <1>6, FileStays DEF Shape
  <2>5. \/ v["open"] = d["open"]
        \/ \E n \in 1..Len(vs) : vs[n][1] = "open" /\ v["open"] = vs[n][2]
    BY <2>1, WrittenIs DEF Shape
  <2>6. v["open"] = d["open"] \/ (v["open"] = d.open \cup {r} /\ 3 \in 1..Len(vs)) BY <1>2, <2>2, <2>5
  <2>7. v["cards"] = d["cards"] \/ v["cards"] = cards BY <2>1, WrittenIs, <1>2, <2>2 DEF Shape
  <2>8. Carded(v.cards) BY <1>3, <1>4, <2>7
  <2> HIDE DEF v
  <2>9. Shape(v) BY <2>3, <2>6, <2>8 DEF Shape
  <2>10. Raised(v) BY <2>4, <2>8, <2>9 DEF St
  <2>11. Len(vs) < 3 => v.open = d.open BY <2>1, <2>6
  <2>12. v.open = d.open \/ v.open = d.open \cup {r} BY <2>6
  <2> HIDE DEF Raised
  <2> QED BY <2>10, <2>11, <2>12 DEF v
<1> DEFINE w == Written(d, ws)
<1> HIDE DEF Raised
<1>7. Raised(w)
  <2>1. Len(ws) <= 3 /\ \A n \in 1..Len(ws) : ws[n] = ws[n] BY <1>5
  <2> QED BY <1>5, <1>6, <2>1
<1>8. w["open"] = d.open \cup {r} BY <1>5, <1>2, LastWrite DEF Shape
<1>9. w["cards"] = cards BY <1>5, <1>2, LastWrite DEF Shape
<1>10. ASSUME NEW l \in 0..2
       PROVE  LET v == Written(d, SubSeq(ws, 1, l)) IN Raised(v) /\ v.open = d.open
  <2>1. l \in 0..Len(ws) /\ l <= 3 /\ l < 3 BY <1>5
  <2>2. Row(SubSeq(ws, 1, l)) /\ Len(SubSeq(ws, 1, l)) = l /\ \A n \in 1..l : SubSeq(ws, 1, l)[n] = ws[n]
    BY <1>5, <2>1, RowCut
  <2> QED BY <1>6, <2>1, <2>2
<1> HIDE DEF w
<1>11. w.open = d.open \cup {r} /\ St(w, r) # "none" BY <1>3, <1>8, <1>9 DEF St
<1> QED BY <1>5, <1>7, <1>10, <1>11 DEF ws, w, Raised

\* An operation that first drops a summary leaves the cards as it would without.
LEMMA CheckingWrites ==
  ASSUME NEW d, Shape(d), NEW op, Row(op.writes)
  PROVE  LET e == Written(d, Checking(d, op).writes)
             v == Written(d, op.writes)
         IN DOMAIN e = DOMAIN v /\ e.open = v.open /\ e.cards = v.cards /\ e.intents = v.intents
<1> DEFINE x == <<"context", Validated(d.context, d.history)>>
           ws == Checking(d, op).writes
           us == op.writes
<1>1. ws = << x >> \o us BY DEF Checking, Outcome
<1>2. x[1] = "context" OBVIOUS
<1>3. Row(<< x >>) /\ Len(<< x >>) = 1 /\ << x >>[1] = x BY OneWrite
<1> HIDE DEF x, ws
<1>4. Len(us) \in Nat /\ DOMAIN us = 1..Len(us) BY RowIsSeq DEF Row
<1> HIDE DEF us
<1>5. /\ Row(ws) /\ Len(ws) = 1 + Len(us) /\ ws[1] = x
      /\ \A n \in 1..Len(us) : ws[1 + n] = us[n]
      /\ \A n \in 1..(1 + Len(us)) : n = 1 \/ (n - 1 \in 1..Len(us) /\ ws[n] = us[n - 1])
  BY <1>1, <1>3, RowJoin, <1>4 DEF us
<1>6. ASSUME NEW f \in DOMAIN d, f # "context" PROVE Written(d, ws)[f] = Written(d, us)[f]
  <2>1. CASE \A n \in 1..Len(us) : us[n][1] # f
    <3>1. \A n \in 1..Len(ws) : ws[n][1] # f BY <1>2, <1>5, <1>6, <2>1
    <3> QED BY <1>5, <2>1, <3>1, FileStays DEF us
  <2>2. CASE \E n \in 1..Len(us) : us[n][1] = f
    <3>1. PICK n \in 1..Len(us) : /\ us[n][1] = f /\ Written(d, us)[f] = us[n][2]
                                  /\ \A k \in (n + 1)..Len(us) : us[k][1] # f
      BY <1>4, <2>2, WrittenIs
    <3>2. 1 + n \in 1..Len(ws) /\ ws[1 + n] = us[n] /\ ws[1 + n][1] = f BY <1>4, <1>5, <3>1
    <3>3. \A k \in 1..Len(ws) : k > 1 + n => ws[k][1] # f
      <4> SUFFICES ASSUME NEW k \in 1..Len(ws), k > 1 + n PROVE ws[k][1] # f OBVIOUS
      <4>1. k # 1 /\ k - 1 \in (n + 1)..Len(us) BY <1>4, <1>5
      <4> QED BY <1>5, <3>1, <4>1
    <3>4. ASSUME NEW m \in 1..Len(ws), m = 1 + n PROVE Written(d, ws)[f] = ws[m][2]
      <4>1. ws[m][1] = f /\ \A k \in 1..Len(ws) : k > m => ws[k][1] # f BY <3>2, <3>3, <3>4
      <4>2. Row(ws) BY <1>5
      <4> QED BY <4>1, <4>2, LastWrite
    <3> QED BY <3>1, <3>2, <3>4
  <2> QED BY <2>1, <2>2
<1>7. DOMAIN Written(d, ws) = DOMAIN Written(d, us) BY DEF Written
<1>8. \A f \in {"open", "cards", "intents"} : Written(d, ws)[f] = Written(d, us)[f] BY <1>6 DEF Shape
<1> QED BY <1>7, <1>8 DEF ws, us

\* A restarted process: what was being executed is of unknown outcome.
LEMMA RestartedFacts ==
  ASSUME NEW d, Shape(d)
  PROVE  LET e == Restarted(d)
         IN /\ Shape(e) /\ e.open = d.open /\ e.intents = d.intents
            /\ \A i \in Runs : \/ St(e, i) = St(d, i)
                               \/ i \in d.open /\ St(d, i) = "resuming" /\ St(e, i) = "unknown_outcome"
<1> DEFINE e == Restarted(d)
           cards == [i \in Runs |-> IF i \in d.open /\ d.cards[i].status = "resuming"
                                    THEN [d.cards[i] EXCEPT !.status = "unknown_outcome"] ELSE d.cards[i]]
<1>1. e = [d EXCEPT !.cards = cards] BY DEF Restarted
<1>2. \A i \in Runs : "status" \in DOMAIN d.cards[i] BY DEF Shape
<1>3. DOMAIN cards = Runs OBVIOUS
<1>4. \A i \in Runs : \/ cards[i] = d.cards[i]
                      \/ /\ i \in d.open /\ d.cards[i].status = "resuming"
                         /\ cards[i] = [d.cards[i] EXCEPT !.status = "unknown_outcome"]
  OBVIOUS
<1> HIDE DEF cards, e
<1>5. \A i \in Runs : /\ "status" \in DOMAIN cards[i]
                      /\ \/ cards[i].status = d.cards[i].status
                         \/ /\ i \in d.open /\ d.cards[i].status = "resuming"
                            /\ cards[i].status = "unknown_outcome"
  BY <1>2, <1>4
<1>6. DOMAIN e = DOMAIN d /\ e.cards = cards /\ e.open = d.open /\ e.intents = d.intents
  BY <1>1 DEF Shape
<1>7. Shape(e) BY <1>3, <1>5, <1>6 DEF Shape
<1> QED BY <1>5, <1>6, <1>7 DEF e, St

-----------------------------------------------------------------------------
(* What a step may do to the cards.                                        *)

\* Onward and onward again.
LEMMA OnwardOnward ==
  ASSUME NEW c, NEW d, NEW e, Onward(c, d), Onward(d, e)
  PROVE  Onward(c, e)
BY DEF Onward

\* The same cards are onward.
LEMMA SameOnward ==
  ASSUME NEW d, NEW e, Shape(d), SameCards(d, e)
  PROVE  Onward(d, e)
BY DEF Onward, SameCards

\* A restart goes onward.
LEMMA RestartedOnward ==
  ASSUME NEW d, Shape(d)
  PROVE  Onward(d, Restarted(d))
BY RestartedFacts DEF Onward, Settled, Fresh

\* So does turning open cards to a status that is not fresh, if those closed are settled.
LEMMA TurnedOnward ==
  ASSUME NEW d, Shape(d), NEW e, Shape(e), NEW ids, ids \subseteq d.open, NEW s, s \notin Fresh,
         Turn(e.cards, d, ids, s), e.open \subseteq d.open,
         \A i \in d.open \ e.open : i \in ids /\ St(e, i) = s /\ s \in Settled
  PROVE  Onward(d, e)
<1>1. \A i \in Runs : St(e, i) = St(d, i) \/ (i \in d.open /\ St(e, i) = s) BY DEF Turn, St
<1>2. s # "none" BY DEF Fresh
<1>3. ASSUME NEW i \in Runs
      PROVE  /\ St(d, i) \notin Fresh => St(e, i) \notin Fresh
             /\ St(d, i) # "none" => St(e, i) # "none"
             /\ i \in e.open => i \in d.open \/ St(e, i) # "none"
             /\ i \notin e.open /\ (i \in d.open \/ St(d, i) \in Settled) => St(e, i) \in Settled BY <1>2, <1>1
<1> QED BY <1>3 DEF Onward

\* Settling open cards, to its end or broken off.
LEMMA SettleOnward ==
  ASSUME NEW d, Shape(d), NEW m, NEW ids, ids \subseteq d.open, NEW s, s \notin Fresh,
         NEW closed, closed \subseteq ids, closed = {} \/ s \in Settled
  PROVE  LET ws == Settle(d, m, ids, s, closed).writes
             e == Written(d, ws)
         IN /\ Row(ws) /\ Onward(d, e) /\ e.open = d.open \ closed /\ e.intents = d.intents
            /\ \A l \in 0..(Len(ws) - 1) :
                 LET v == Written(d, SubSeq(ws, 1, l)) IN Onward(d, v) /\ v.intents = d.intents
<1> DEFINE ws == Settle(d, m, ids, s, closed).writes
           e == Written(d, ws)
<1>0. ids \subseteq Runs BY DEF Shape
<1>1. /\ Row(ws)
      /\ Shape(e) /\ e.open = d.open \ closed /\ e.intents = d.intents
      /\ Turn(e.cards, d, ids, s) /\ \A i \in ids : St(e, i) = s
      /\ \A l \in 0..(Len(ws) - 1) : Turned(d, Written(d, SubSeq(ws, 1, l)), ids, s)
  BY <1>0, SettleWrites
<1> HIDE DEF ws, e
<1>2. \A i \in d.open \ e.open : i \in ids /\ St(e, i) = s /\ s \in Settled BY <1>1
<1>3. e.open \subseteq d.open BY <1>1
<1>4. Onward(d, e) BY <1>1, <1>2, <1>3, TurnedOnward
<1>5. ASSUME NEW l \in 0..(Len(ws) - 1)
      PROVE  LET v == Written(d, SubSeq(ws, 1, l)) IN Onward(d, v) /\ v.intents = d.intents
  <2> DEFINE v == Written(d, SubSeq(ws, 1, l))
  <2>1. Shape(v) /\ v.open = d.open /\ v.intents = d.intents /\ Turn(v.cards, d, ids, s)
    BY <1>1 DEF Turned
  <2> HIDE DEF v
  <2>2. v.open \subseteq d.open /\ d.open \ v.open = {} BY <2>1
  <2>3. Onward(d, v) BY <2>1, <2>2, TurnedOnward
  <2> QED BY <2>1, <2>3 DEF v
<1> QED BY <1>1, <1>4, <1>5 DEF ws, e

\* finish_resume, to its end or broken off.
LEMMA FinishOnward ==
  ASSUME NEW d, Shape(d), NEW m, NEW decision, decision.cards \subseteq d.open,
         NEW ok, NEW unknown, ~ (ok /\ unknown)
  PROVE  LET ws == FinishResume(d, m, decision, ok, unknown).writes
             e == Written(d, ws)
         IN /\ Onward(d, e) /\ e.intents = d.intents
            /\ \A l \in 0..(Len(ws) - 1) :
                 LET v == Written(d, SubSeq(ws, 1, l)) IN Onward(d, v) /\ v.intents = d.intents
<1> DEFINE s == IF unknown THEN "unknown_outcome"
                ELSE IF ~ok THEN "resume_failed"
                ELSE IF decision.yes THEN "approved" ELSE "denied"
           closed == IF ok THEN decision.cards ELSE {}
           Kept(ws) == LET e == Written(d, ws)
                       IN /\ Onward(d, e) /\ e.intents = d.intents
                          /\ \A l \in 0..(Len(ws) - 1) :
                               LET v == Written(d, SubSeq(ws, 1, l)) IN Onward(d, v) /\ v.intents = d.intents
<1>1. FinishResume(d, m, decision, ok, unknown) = Settle(d, m, decision.cards, s, closed)
  BY DEF FinishResume
<1>2. s \notin Fresh BY DEF Fresh
<1>3. closed \subseteq decision.cards /\ (closed = {} \/ s \in Settled) BY DEF Settled
<1> HIDE DEF s, closed
<1>4. ASSUME NEW ids, ids \subseteq d.open, NEW t, t \notin Fresh,
             NEW c, c \subseteq ids, c = {} \/ t \in Settled
      PROVE  Kept(Settle(d, m, ids, t, c).writes)
  BY <1>4, SettleOnward
<1> HIDE DEF Kept
<1>5. Kept(Settle(d, m, decision.cards, s, closed).writes) BY <1>2, <1>3, <1>4
<1>6. Kept(FinishResume(d, m, decision, ok, unknown).writes) BY <1>1, <1>5
<1> QED BY <1>6 DEF Kept

\* ensure_accepts_new_input, to its end or broken off.
LEMMA DismissOnward ==
  ASSUME NEW d, Shape(d), NEW m
  PROVE  LET ws == DismissCards(d, m).writes
             e == Written(d, ws)
         IN /\ Row(ws) /\ Onward(d, e) /\ e.intents = d.intents
            /\ \A l \in 0..(Len(ws) - 1) :
                 LET v == Written(d, SubSeq(ws, 1, l)) IN Onward(d, v) /\ v.intents = d.intents
<1>1. CASE d.open = {}
  BY <1>1, NoWrite, NothingIsHarmless, HarmlessWrites, SameOnward DEF DismissCards, Outcome, SameCards
<1>2. CASE d.open # {}
  <2>1. DismissCards(d, m) = Settle(d, m, d.open, "cancelled", d.open) BY <1>2 DEF DismissCards
  <2>2. "cancelled" \notin Fresh /\ "cancelled" \in Settled BY DEF Fresh, Settled
  <2>3. LET ws == Settle(d, m, d.open, "cancelled", d.open).writes
            e == Written(d, ws)
        IN /\ Row(ws) /\ Onward(d, e) /\ e.intents = d.intents
           /\ \A l \in 0..(Len(ws) - 1) :
                LET v == Written(d, SubSeq(ws, 1, l)) IN Onward(d, v) /\ v.intents = d.intents
    BY <2>2, SettleOnward
  <2> QED BY <2>1, <2>3
<1> QED BY <1>1, <1>2

\* prepare_resume, to its end or broken off.
LEMMA ClaimOnward ==
  ASSUME NEW d, Shape(d), NEW m, NEW decision, NEW r, Claim(decision, r) \notin d.intents
  PROVE  LET ws == PrepareResume(d, m, decision, r).writes
             e == Written(d, ws)
             more == d.intents \cup {Claim(decision, r)}
         IN /\ Row(ws) /\ Onward(d, e) /\ e.open = d.open /\ e.intents = more
            /\ \A i \in d.open : St(e, i) = "resuming"
            /\ \A l \in 0..(Len(ws) - 1) :
                 LET v == Written(d, SubSeq(ws, 1, l)) IN Onward(d, v) /\ v.intents \subseteq more
<1> DEFINE ws == PrepareResume(d, m, decision, r).writes
           e == Written(d, ws)
           more == d.intents \cup {Claim(decision, r)}
<1>1. /\ Row(ws)
      /\ Shape(e) /\ e.open = d.open /\ e.intents = more
      /\ Turn(e.cards, d, d.open, "resuming") /\ \A i \in d.open : St(e, i) = "resuming"
      /\ \A l \in 0..(Len(ws) - 1) :
           LET v == Written(d, SubSeq(ws, 1, l))
           IN /\ Shape(v) /\ v.open = d.open /\ v.intents \subseteq more
              /\ Turn(v.cards, d, d.open, "resuming")
  BY ClaimWrites
<1>2. "resuming" \notin Fresh BY DEF Fresh
<1> HIDE DEF ws, e, more
<1>3. ASSUME NEW v, Shape(v), v.open = d.open, Turn(v.cards, d, d.open, "resuming") PROVE Onward(d, v)
  BY <1>3, <1>2, TurnedOnward
<1>4. Onward(d, e) BY <1>1, <1>3
<1>5. ASSUME NEW l \in 0..(Len(ws) - 1)
      PROVE  LET v == Written(d, SubSeq(ws, 1, l)) IN Onward(d, v) /\ v.intents \subseteq more BY <1>1, <1>3
<1> QED BY <1>1, <1>4, <1>5 DEF ws, e, more

\* persist_interrupt, to its end or broken off.
LEMMA InterruptOnward ==
  ASSUME NEW d, Shape(d), NEW m, NEW r \in Runs
  PROVE  LET ws == PersistInterrupt(d, m, r).writes
             e == Written(d, ws)
         IN /\ Onward(d, e) /\ e.open = d.open \cup {r} /\ e.intents = d.intents
            /\ \A l \in 0..(Len(ws) - 1) :
                 LET v == Written(d, SubSeq(ws, 1, l)) IN Onward(d, v) /\ v.intents = d.intents
<1> DEFINE ws == PersistInterrupt(d, m, r).writes
           Raised(v) == /\ Shape(v) /\ v.intents = d.intents
                        /\ \A i \in Runs : \/ St(v, i) = St(d, i)
                                           \/ i = r /\ St(d, r) = "none" /\ St(v, r) = "pending"
           e == Written(d, ws)
<1>1. /\ Len(ws) = 3 /\ Raised(e) /\ e.open = d.open \cup {r} /\ St(e, r) # "none"
      /\ \A l \in 0..2 : LET v == Written(d, SubSeq(ws, 1, l)) IN Raised(v) /\ v.open = d.open
  BY InterruptWrites
<1> HIDE DEF ws, e
<1>2. ASSUME NEW v, Raised(v), d.open \subseteq v.open, v.open \subseteq d.open \cup {r},
             r \in v.open => r \in d.open \/ St(v, r) # "none"
      PROVE  Onward(d, v)
  BY <1>2 DEF Onward, Fresh, Settled, Shape
<1>3. Onward(d, e) BY <1>1, <1>2
<1>4. ASSUME NEW l \in 0..(Len(ws) - 1)
      PROVE  LET v == Written(d, SubSeq(ws, 1, l)) IN Onward(d, v) /\ v.intents = d.intents
  <2>1. l \in 0..2 BY <1>1
  <2> DEFINE v == Written(d, SubSeq(ws, 1, l))
  <2>2. Raised(v) /\ v.open = d.open BY <1>1, <2>1
  <2> HIDE DEF v
  <2>3. Onward(d, v) BY <1>2, <2>2
  <2> QED BY <2>2, <2>3 DEF v
<1> QED BY <1>1, <1>3, <1>4 DEF ws, e

-----------------------------------------------------------------------------
(* The steps that leave the cards alone.                                   *)

\* A new context leaves the cards alone.
LEMMA ContextOnly ==
  ASSUME Shape(disk), NEW x, disk' = [disk EXCEPT !.context = x]
  PROVE  SameCards(disk, disk')
BY DEF SameCards, Shape, St

\* So does a step that writes nothing.
LEMMA DiskStays ==
  ASSUME Shape(disk), disk' = disk
  PROVE  SameCards(disk, disk')
BY DEF SameCards, Shape, St

\* So does an operation of harmless writes.
LEMMA HarmlessOp ==
  ASSUME Shape(disk), NEW op, Harmless(op.writes), Perform(op)
  PROVE  SameCards(disk, disk')
BY HarmlessWrites DEF Perform, Harmless, Row

\* stop_run is one.
LEMMA StopHarmless ==
  ASSUME NEW d, NEW m, NEW r
  PROVE  Harmless(StopRun(d, m, r).writes)
<1> DEFINE kept == Sealed(m, r)
           started == \E i \in DOMAIN kept.events : kept.events[i] = Says("run_started", r)
           ends == IF started THEN <<Says("run_finished", r)>>
                   ELSE <<Says("run_started", r), Says("run_finished", r)>>
           n == [kept EXCEPT !.stopped = @ \cup {r}, !.stoppedActive = r, !.active = None,
                             !.inputs = @ \ {r}, !.events = @ \o ends,
                             !.tool = {b \in @ : b.run # r}]
<1>1. StopRun(d, m, r) = IF Ended(m, r) THEN Outcome(m, <<>>) ELSE Flush(d, n) BY DEF StopRun
<1>2. Harmless(Flush(d, n).writes) BY FlushHarmless
<1>3. Outcome(m, <<>>).writes = <<>> BY DEF Outcome
<1> HIDE DEF n
<1> QED BY <1>1, <1>2, <1>3, NothingIsHarmless

\* cancel_run is one, of two writes.
LEMMA CancelHarmless ==
  ASSUME NEW d, NEW m, NEW r
  PROVE  Harmless(CancelRun(d, m, r).writes) /\ Len(CancelRun(d, m, r).writes) = 2
<1> DEFINE history == Append(d.history, Record("remove", r, <<>>))
           x == <<"history", history>>
           y == <<"context", Validated(d.context, history)>>
<1>1. CancelRun(d, m, r).writes = <<x, y>> BY DEF CancelRun, Outcome
<1>2. x[1] = "history" /\ y[1] = "context" OBVIOUS
<1> HIDE DEF x, y
<1>3. <<x, y>> \in Seq({x, y}) /\ Len(<<x, y>>) = 2 /\ <<x, y>>[1] = x /\ <<x, y>>[2] = y OBVIOUS
<1>4. \A n \in 1..2 : n = 1 \/ n = 2 OBVIOUS
<1>5. Row(<<x, y>>) BY <1>3, SeqIsRow
<1> QED BY <1>1, <1>2, <1>3, <1>4, <1>5 DEF Harmless

\* save_run_start is one.
LEMMA StartHarmless ==
  ASSUME NEW d, NEW m, NEW r
  PROVE  Harmless(SaveRunStart(d, m, r).writes)
<1> DEFINE x == <<"history", Append(d.history, Record("input", r, <<Says("input", r)>>))>>
<1>1. SaveRunStart(d, m, r).writes = IF <<"U", r>> \notin m.messages THEN << x >> ELSE <<>>
  BY DEF SaveRunStart, Outcome
<1>2. x[1] = "history" OBVIOUS
<1> HIDE DEF x
<1> QED BY <1>1, <1>2, OneIsHarmless, NothingIsHarmless

\* append_event is one, also when it fails.
LEMMA AppendHarmless ==
  ASSUME NEW d, NEW m, NEW e
  PROVE  Harmless(AppendEvent(d, m, e).writes) /\ Harmless(AppendFails(d, m, e).writes)
BY NothingIsHarmless, FlushHarmless DEF Outcome, AppendEvent, AppendFails

\* So is dropping a summary.
LEMMA CheckingHarmless ==
  ASSUME NEW d, NEW m
  PROVE  Harmless(Checking(d, Outcome(m, <<>>)).writes)
<1> DEFINE x == <<"context", Validated(d.context, d.history)>>
<1>1. Checking(d, Outcome(m, <<>>)).writes = << x >> \o <<>> BY DEF Checking, Outcome
<1>2. x[1] = "context" OBVIOUS
<1> HIDE DEF x
<1>3. << x >> \o <<>> = << x >> OBVIOUS
<1>4. Harmless(<< x >>) BY <1>2, OneIsHarmless
<1>5. Checking(d, Outcome(m, <<>>)).writes = << x >> BY <1>1, <1>3
<1> QED BY <1>4, <1>5

\* The fields of a run that has just got the lock, or of none.
LEMMA IdleFlows ==
  ASSUME NEW r, NEW phase
  PROVE  LET c == Holding(r, phase) IN Keys(c) /\ c.run = r /\ c.phase = phase /\ c.again = FALSE
BY DEF Holding, Keys

\* The lock is given back.
LEMMA ReleaseFlows ==
  ASSUME cur' = Idle
  PROVE  Flows
BY IdleFlows DEF Idle, Flows

\* The run stays where it is.
LEMMA StayFlows ==
  ASSUME Keys(cur), Keys(cur'), cur'.run = cur.run, cur'.again = cur.again, cur'.phase = cur.phase
  PROVE  Flows
BY DEF Flows

\* The run goes about its stream.
LEMMA MoveFlows ==
  ASSUME Keys(cur), Keys(cur'), cur'.run = cur.run, cur'.again = cur.again,
         cur.phase \in Recovering, cur'.phase \in Recovering \cup {"closing"},
         cur.again => cur'.phase # "closing"
  PROVE  Flows
BY DEF Flows

\* An event is queued: the run stays where it is.
LEMMA QueuedFacts ==
  ASSUME Keys(cur), NEW e
  PROVE  LET c == Queued(e)
         IN Keys(c) /\ c.run = cur.run /\ c.again = cur.again /\ c.phase = cur.phase
BY DEF Keys, Queued

\* So it does when a card is queued.
LEMMA CardQueuedFacts ==
  ASSUME Keys(cur), NEW r, CardQueued(r)
  PROVE  Keys(cur') /\ cur'.run = cur.run /\ cur'.again = cur.again /\ cur'.phase = cur.phase
BY DEF Keys, CardQueued

\* So it does when something the backend sent is noted.
LEMMA MarkedFacts ==
  ASSUME Keys(cur), NEW type, NEW r, Marked(type, r)
  PROVE  Keys(cur') /\ cur'.run = cur.run /\ cur'.again = cur.again /\ cur'.phase = cur.phase
BY DEF Keys, Marked

\* A summary is committed: the stream is to be opened again.
LEMMA CompactingFacts ==
  ASSUME Shape(disk), Keys(cur), NEW r, NEW n, Compacting(r, n)
  PROVE  /\ SameCards(disk, disk')
         /\ Keys(cur') /\ cur'.run = cur.run /\ cur'.again = cur.again /\ cur'.phase = "reopening"
BY ContextOnly DEF Compacting, Keys

\* The stop button, and cancelling.
LEMMA StopIsCalm ==
  ASSUME Shaped, NEW r \in Runs, Stop(r) \/ Cancel(r)
  PROVE  Calm
<1>1. SameCards(disk, disk') BY StopHarmless, HarmlessOp, CancelHarmless DEF Stop, Shaped, Cancel
<1>2. cur' = cur /\ UNCHANGED <<request, waiting, shown, begun>> BY DEF Stop, Cancel, clientVars, ghosts
<1>3. Flows BY <1>2, StayFlows DEF Shaped, Keys
<1> QED BY <1>1, <1>2, <1>3 DEF Calm

\* A refusal, and a call of the store that fails.
LEMMA RefuseIsCalm ==
  ASSUME Shaped, NEW r \in Runs, Refuse(r) \/ StoreFails(r)
  PROVE  Calm
<1>1. CASE Refuse(r)
  BY <1>1, CheckingHarmless, HarmlessOp, ReleaseFlows DEF Refuse, Shaped, Release, Calm, clientVars, ghosts
<1>2. CASE StoreFails(r)
  BY <1>2, DiskStays, ReleaseFlows DEF StoreFails, CallFailed, Shaped, Release, Calm, clientVars, ghosts
<1> QED BY <1>1, <1>2

\* An event is sent on.
LEMMA RelayIsCalm ==
  ASSUME Shaped, NEW r \in Runs, Relay(r) \/ LoseCard(r)
  PROVE  Calm
<1>1. SameCards(disk, disk') /\ UNCHANGED <<request, waiting, shown, begun>>
  BY DiskStays DEF Relay, LoseCard, clientVars, ghosts, Shaped
<1>2. Keys(cur') /\ cur'.run = cur.run /\ cur'.again = cur.again /\ cur'.phase = cur.phase
  <2>1. CASE Relay(r)
    <3>1. PICK type \in Relayable, x \in Calls(r) : cur' = Queued(<<type, x>>) BY <2>1 DEF Relay
    <3> QED BY <3>1, QueuedFacts DEF Shaped
  <2>2. CASE LoseCard(r) BY <2>2, CardQueuedFacts DEF LoseCard, Shaped
  <2> QED BY <2>1, <2>2
<1>3. Flows BY <1>2, StayFlows DEF Shaped
<1> QED BY <1>1, <1>3 DEF Calm

\* The terminal of a continuation is sent on.
LEMMA RelayLastIsCalm ==
  ASSUME Shaped, NEW r \in Runs, RelayLast(r)
  PROVE  Calm
<1>1. PICK type \in {"run_finished", "run_error"} :
        IF CanClear(disk.context, cur.view.context.gen)
        THEN /\ disk' = [disk EXCEPT !.context = Cleared(@)]
             /\ cur' = Queued(<<type, r>>)
        ELSE /\ cur' = [Queued(<<type, r>>) EXCEPT !.phase = "closing"]
             /\ UNCHANGED disk
  BY DEF RelayLast
<1> DEFINE c == Queued(<<type, r>>)
<1>2. Keys(c) /\ c.run = cur.run /\ c.again = cur.again /\ c.phase = cur.phase
  BY QueuedFacts DEF Shaped
<1> HIDE DEF c
<1>3. cur.phase = "streaming" /\ ~cur.again /\ UNCHANGED <<request, waiting, shown, begun>>
  BY DEF RelayLast, Live, clientVars, ghosts
<1>4. CASE disk' = [disk EXCEPT !.context = Cleared(@)] /\ cur' = c
  BY <1>4, ContextOnly, <1>2, StayFlows, <1>3 DEF Shaped, Calm
<1>5. CASE cur' = [c EXCEPT !.phase = "closing"] /\ UNCHANGED disk
  BY <1>5, DiskStays, <1>2, <1>3, MoveFlows DEF Shaped, Keys, Recovering, Calm
<1> QED BY <1>1, <1>4, <1>5 DEF c

\* A compaction.
LEMMA CompactIsCalm ==
  ASSUME Shaped, NEW r \in Runs, Compact(r)
  PROVE  Calm
<1>1. PICK n \in Older : Compacting(r, n) BY DEF Compact
<1>2. cur.phase = "streaming" /\ UNCHANGED <<request, waiting, shown, begun>>
  BY DEF Compact, CanPropose, Live, clientVars, ghosts
<1>3. /\ SameCards(disk, disk')
      /\ Keys(cur') /\ cur'.run = cur.run /\ cur'.again = cur.again /\ cur'.phase = "reopening"
  BY <1>1, CompactingFacts DEF Shaped
<1>4. Flows BY <1>2, <1>3, MoveFlows DEF Shaped, Recovering
<1> QED BY <1>2, <1>3, <1>4 DEF Calm

\* A compaction that is refused.
LEMMA CompactRefusedIsCalm ==
  ASSUME Shaped, NEW r \in Runs, CompactRefused(r)
  PROVE  Calm
<1>1. disk' = disk \/ disk' = [disk EXCEPT !.context = Validated(@, disk.history)] BY DEF CompactRefused
<1>2. SameCards(disk, disk') BY <1>1, DiskStays, ContextOnly DEF Shaped
<1>3. cur.phase = "streaming" /\ UNCHANGED <<request, waiting, shown, begun>>
  BY DEF CompactRefused, CanPropose, Live, clientVars, ghosts
<1>4. Flows
  <2>1. CASE cur.again BY <2>1, ReleaseFlows DEF CompactRefused
  <2>2. CASE ~cur.again BY <2>2, <1>3, MoveFlows DEF CompactRefused, Keys, Shaped, Recovering
  <2> QED BY <2>1, <2>2
<1> QED BY <1>2, <1>3, <1>4 DEF Calm

\* The stream is opened again.
LEMMA ReopenIsCalm ==
  ASSUME Shaped, NEW r \in Runs, Reopen(r)
  PROVE  Calm
BY ContextOnly, MoveFlows DEF Reopen, Shaped, Keys, Recovering, Calm, clientVars, ghosts

\* A failure to compact, and a patch.
LEMMA MarkIsCalm ==
  ASSUME Shaped, NEW r \in Runs, Failure(r) \/ Patch(r)
  PROVE  Calm
<1>1. disk' = disk \/ disk' = [disk EXCEPT !.context = Revised(@)] BY DEF Failure, Patch
<1>2. SameCards(disk, disk') BY <1>1, DiskStays, ContextOnly DEF Shaped
<1>3. Marked("failure", r) \/ Marked("patch", r) BY DEF Failure, Patch
<1>4. Flows BY <1>3, MarkedFacts, StayFlows DEF Shaped
<1> QED BY <1>2, <1>4 DEF Calm, Failure, Patch, clientVars, ghosts

\* The stream's end, and the browser's leaving.
LEMMA EndIsCalm ==
  ASSUME Shaped, NEW r \in Runs, StreamEnds(r) \/ Leave(r)
  PROVE  Calm
<1>1. SameCards(disk, disk') BY DiskStays DEF StreamEnds, Leave, Shaped
<1>2. \/ /\ cur.phase \in Recovering /\ ~cur.again
         /\ \/ cur' = [cur EXCEPT !.phase = "closing"]
            \/ cur' = [cur EXCEPT !.phase = "closing", !.left = TRUE]
      \/ cur' = Idle \/ cur' = Holding(None, "lost")
  BY DEF StreamEnds, Leave, Release, Recovering
<1>3. ASSUME /\ cur.phase \in Recovering /\ ~cur.again
             /\ \/ cur' = [cur EXCEPT !.phase = "closing"]
                \/ cur' = [cur EXCEPT !.phase = "closing", !.left = TRUE]
      PROVE  Flows
  <2>1. Keys(cur') /\ cur'.run = cur.run /\ cur'.again = cur.again /\ cur'.phase = "closing"
    BY <1>3 DEF Keys, Shaped
  <2> QED BY <1>3, <2>1, MoveFlows DEF Shaped
<1>4. ASSUME cur' = Holding(None, "lost") PROVE Flows
  <2> DEFINE c == Holding(None, "lost")
  <2>1. Keys(c) /\ c.run = None /\ c.again = FALSE BY ZenonT(30), IdleFlows
  <2>2. cur' = c BY <1>4
  <2> HIDE DEF c
  <2> QED BY <2>1, <2>2 DEF Flows
<1>5. Flows BY <1>2, <1>3, <1>4, ReleaseFlows
<1> QED BY <1>1, <1>5 DEF Calm, StreamEnds, Leave, clientVars, ghosts

\* The worker persists an event, or fails to.
LEMMA PersistIsCalm ==
  ASSUME Shaped, Persist \/ PersistFails
  PROVE  Calm
<1>1. SameCards(disk, disk') BY AppendHarmless, HarmlessOp DEF Persist, PersistFails, Shaped
<1>2. Flows
  <2>1. CASE cur' = Idle BY <2>1, ReleaseFlows
  <2>2. CASE \/ cur' = [cur EXCEPT !.queue = Tail(@)]
             \/ cur' = [cur EXCEPT !.queue = Tail(@), !.deaf = TRUE] BY <2>2, StayFlows DEF Keys, Shaped
  <2> QED BY <2>1, <2>2 DEF Persist, PersistFails
<1> QED BY <1>1, <1>2 DEF Calm, Persist, PersistFails, clientVars, ghosts

\* The clean-up is cut short, the context compacted or reset, a recovery ends.
LEMMA RestIsCalm ==
  ASSUME Shaped, CutShort \/ ManualBegin \/ ManualEnd \/ Reset \/ Recover
  PROVE  Calm
<1>1. SameCards(disk, disk') BY DiskStays, ContextOnly DEF CutShort, ManualBegin, ManualEnd, Reset, Recover, Shaped
<1>2. Flows
  <2>1. CASE cur' = Idle BY <2>1, ReleaseFlows
  <2>2. CASE cur' = cur BY <2>2, StayFlows DEF Shaped, Keys
  <2>3. CASE ManualBegin
    <3> DEFINE c == Holding(None, "manual")
    <3>1. Keys(c) /\ c.run = None /\ c.again = FALSE BY ZenonT(30), IdleFlows
    <3>2. cur' = [c EXCEPT !.view = View(disk)] BY <2>3 DEF ManualBegin
    <3> HIDE DEF c
    <3>3. Keys(cur') /\ cur'.run = None /\ cur'.again = FALSE BY <3>1, <3>2 DEF Keys
    <3> QED BY <3>3 DEF Flows
  <2> QED BY <2>1, <2>2, <2>3 DEF CutShort, ManualEnd, Reset, Recover, Release
<1>3. UNCHANGED <<request, waiting, shown, begun>>
  BY DEF CutShort, ManualBegin, ManualEnd, Reset, Recover, clientVars, ghosts
<1> QED BY <1>1, <1>2, <1>3 DEF Calm

\* Nothing happens.
LEMMA StillIsCalm ==
  ASSUME Shaped, UNCHANGED vars
  PROVE  Calm
BY DiskStays, StayFlows DEF vars, Shaped, Keys, Calm, clientVars, ghosts

\* Every step is calm, a crash, or one of those that are not.
LEMMA CalmOrStirs ==
  ASSUME Shaped, [Next]_vars
  PROVE  Calm \/ Crash \/ \E r \in Runs : Stirs(r)
<1>1. ASSUME NEW r \in Runs,
             \/ Stop(r) \/ Cancel(r) \/ Refuse(r) \/ StoreFails(r) \/ Relay(r) \/ RelayLast(r) \/ LoseCard(r)
             \/ Compact(r) \/ CompactRefused(r) \/ Reopen(r) \/ Failure(r) \/ Patch(r)
             \/ StreamEnds(r) \/ Leave(r)
      PROVE  Calm
  BY <1>1, StopIsCalm, RefuseIsCalm, RelayIsCalm, RelayLastIsCalm, CompactIsCalm,
     CompactRefusedIsCalm, ReopenIsCalm, MarkIsCalm, EndIsCalm
<1>2. ASSUME Persist \/ PersistFails \/ CutShort \/ ManualBegin \/ ManualEnd \/ Reset \/ Recover \/ UNCHANGED vars
      PROVE  Calm
  BY <1>2, PersistIsCalm, RestIsCalm, StillIsCalm
<1> QED BY <1>1, <1>2 DEF Next, Stirs

-----------------------------------------------------------------------------
(* The inductive invariant.                                                *)

\* None is no run.
LEMMA NoneIsNoRun == None \notin Runs
BY RunsAssumption DEF None, Runs

\* The kinds of requests, and what an answer says.
LEMMA RequestFacts ==
  ASSUME NEW q \in Requests
  PROVE  /\ q.kind = "answer" => /\ q.decision.cards \subseteq Runs /\ q.decision.again \in BOOLEAN
                                 /\ q.decision.yes \in BOOLEAN /\ q.twice \in BOOLEAN
                                 /\ q.decision \in Decisions
         /\ q = NotPosted => q.kind = "none"
         /\ q = Input => q.kind = "input"
BY DEF Requests, Decisions, NotPosted, Input, Answer

\* The card files after a step that goes onward, whatever the runs do.
LEMMA FilesGoOn ==
  ASSUME CardTypes, FilesInv, Onward(disk, disk'), shown' \subseteq shown \cup disk'.open
  PROVE  FilesInv'
<1>1. disk.open \subseteq Runs /\ disk'.open \subseteq Runs BY DEF CardTypes, Shaped, Shape, Onward
<1>2. ASSUME NEW i \in disk'.open PROVE St(disk', i) # "none" BY <1>1, <1>2 DEF FilesInv, Onward
<1>3. ASSUME NEW i \in shown' \ disk'.open PROVE St(disk', i) \in Settled BY <1>3 DEF CardTypes, FilesInv, Onward
<1> QED BY <1>2, <1>3 DEF FilesInv, St

\* The executions after such a step that executes nothing.
LEMMA BegunGoesOn ==
  ASSUME BegunInv, OnceInv, Onward(disk, disk'), begun' = begun
  PROVE  BegunInv' /\ OnceInv'
BY ElementOfSeq DEF BegunInv, Onward, OnceInv, St

\* A calm step keeps the invariant.
LEMMA CalmSteps ==
  ASSUME CardsInv, Calm
  PROVE  CardsInv'
<1>1. SameCards(disk, disk') /\ UNCHANGED <<request, waiting, shown, begun>> /\ Flows BY DEF Calm
<1>2. Shape(disk) BY DEF CardsInv, RunsInv, CardTypes, Shaped
<1>3. Onward(disk, disk') BY <1>1, <1>2, SameOnward
<1>4. FilesInv' BY <1>1, <1>3, FilesGoOn DEF CardsInv, RunsInv
<1>5. BegunInv' /\ OnceInv' BY <1>1, <1>3, BegunGoesOn DEF CardsInv
<1>6. /\ Keys(cur') /\ (cur'.again => cur'.phase \in Recovering)
      /\ \A r \in Runs : cur'.run = r /\ ~cur'.again =>
           /\ Own(r)
           /\ \/ cur'.phase = cur.phase
              \/ cur.phase \in Recovering /\ cur'.phase \in Recovering \cup {"closing"}
  BY <1>1, NoneIsNoRun DEF Flows, Own, CardsInv, RunsInv, CardTypes, Shaped
<1>7. /\ Shape(disk') /\ disk'.open = disk.open /\ disk'.intents = disk.intents
      /\ \A i \in Runs : St(disk', i) = St(disk, i)
  BY <1>1 DEF SameCards
<1>8. CardTypes' BY <1>1, <1>6, <1>7 DEF CardsInv, RunsInv, CardTypes, Shaped, Shape, Keys
<1>9. PostedInv'
  BY <1>1, <1>6 DEF CardsInv, RunsInv, PostedInv, Own, IsAnswer, Recovering
<1>10. OpenInv'
  BY <1>1, <1>6, <1>7 DEF CardsInv, RunsInv, OpenInv, Own, IsAnswer, Recovering, Taken, Cards
<1>11. ClaimInv'
  BY <1>1, <1>6, <1>7 DEF CardsInv, RunsInv, ClaimInv, Own, Recovering, IsAnswer
<1>12. AgainInv'
  <2> SUFFICES ASSUME NEW r \in Runs, cur'.run = r /\ ~cur'.again, IsAnswer(r), cur'.phase = "opening",
                      Word(r) # "repeated", NEW i \in Cards(r)
      PROVE  /\ St(disk', i) \notin Fresh
             /\ Word(r) = "first" => \A n \in 1..Len(begun) : begun[n][1] = i => begun[n][2] = "repeated"
    BY <1>1 DEF AgainInv, Own, IsAnswer, Cards, St, Word
  <2>1. Own(r) /\ cur.phase = "opening" BY <1>6 DEF Recovering
  <2>2. i \in Runs BY RequestFacts DEF CardsInv, RunsInv, CardTypes, IsAnswer, Cards
  <2> QED BY <1>7, <2>1, <2>2 DEF CardsInv, RunsInv, AgainInv
<1> QED BY <1>4, <1>5, <1>8, <1>9, <1>10, <1>11, <1>12 DEF CardsInv, RunsInv

\* A step that leaves the files and the executions as they are.
LEMMA FilesStay ==
  ASSUME CardsInv, disk' = disk, shown' = shown, begun' = begun
  PROVE  FilesInv' /\ BegunInv' /\ OnceInv'
BY DiskStays, SameOnward, FilesGoOn, BegunGoesOn DEF CardsInv, RunsInv, CardTypes, Shaped

\* The client posts a run, for the first time or once more.
LEMMA PostStep ==
  ASSUME CardsInv, NEW s \in Runs, Post(s)
  PROVE  CardsInv'
<1>1. UNCHANGED <<disk, cur, shown, begun>> /\ waiting' = {s}
  BY DEF Post, PostNew, PostAgain, ghosts
<1>2. \E q \in Requests : /\ q # NotPosted /\ request' = [request EXCEPT ![s] = q]
                          /\ request[s] = NotPosted \/ (q.kind = "answer" /\ q.twice)
  <2>1. CASE request[s] = NotPosted /\ request' = [request EXCEPT ![s] = Input]
    <3>1. Input \in Requests /\ Input # NotPosted BY DEF Requests, Input, NotPosted
    <3> QED BY <2>1, <3>1
  <2>2. ASSUME NEW e \in Decisions, NEW t \in BOOLEAN, request' = [request EXCEPT ![s] = Answer(e, t)],
               request[s] = NotPosted \/ t
        PROVE  \E q \in Requests : /\ q # NotPosted /\ request' = [request EXCEPT ![s] = q]
                                   /\ request[s] = NotPosted \/ (q.kind = "answer" /\ q.twice)
    <3> DEFINE q == Answer(e, t)
    <3>2. q \in Requests BY DEF Requests
    <3>3. q.kind = "answer" /\ q.twice = t /\ NotPosted.kind = "none" BY DEF Answer, NotPosted
    <3> HIDE DEF q
    <3> QED BY <2>2, <3>2, <3>3 DEF q
  <2>3. CASE PostNew(s)
    <3>1. disk.open \subseteq Runs BY DEF CardsInv, RunsInv, CardTypes, Shaped, Shape
    <3>2. \A yes, again \in BOOLEAN : [cards |-> disk.open, yes |-> yes, again |-> again] \in Decisions
      BY <3>1 DEF Decisions
    <3> QED BY <2>1, <2>2, <2>3, <3>2 DEF PostNew
  <2>4. CASE PostAgain(s)
    <3>1. request[s].decision \in Decisions
      BY <2>4, RequestFacts DEF PostAgain, IsAnswer, CardsInv, RunsInv, CardTypes
    <3> QED BY <2>2, <2>4, <3>1 DEF PostAgain
  <2> QED BY <2>3, <2>4 DEF Post
<1>3. PICK q \in Requests : /\ q # NotPosted /\ request' = [request EXCEPT ![s] = q]
                            /\ request[s] = NotPosted \/ (q.kind = "answer" /\ q.twice)
  BY <1>2
<1>4. /\ request \in [Runs -> Requests] /\ request' \in [Runs -> Requests] /\ request'[s] # NotPosted
      /\ \A r \in Runs : r # s => request'[r] = request[r]
  BY <1>3 DEF CardsInv, RunsInv, CardTypes
<1>5. FilesInv' /\ BegunInv' /\ OnceInv' BY <1>1, FilesStay
<1>6. CardTypes' BY <1>1, <1>4 DEF CardsInv, RunsInv, CardTypes, Shaped, Shape, Keys
<1>7. \A r \in Runs : Own(r) => r # s
  <2>1. CASE PostNew(s) BY <2>1 DEF CardsInv, RunsInv, PostedInv, PostNew
  <2>2. CASE PostAgain(s)
    <3>1. Idle.run = None BY IdleFlows DEF Idle
    <3> QED BY <2>2, <3>1, NoneIsNoRun DEF PostAgain, Own
  <2> QED BY <2>1, <2>2 DEF Post
<1>8. PostedInv' BY <1>1, <1>4, <1>7 DEF CardsInv, RunsInv, PostedInv, Own, IsAnswer
<1>9. OpenInv' BY <1>1, <1>4, <1>7 DEF CardsInv, RunsInv, OpenInv, Own, IsAnswer, Cards
<1>10. ClaimInv'
  <2> SUFFICES ASSUME NEW c \in disk.intents
      PROVE  /\ c.run \in Runs /\ IsAnswer(c.run)'
             /\ request'[c.run].twice \/ (c.run \notin {s} /\ ~ (Own(c.run) /\ cur.phase = "locked"))
    BY <1>1 DEF ClaimInv, Own
  <2>1. /\ c.run \in Runs /\ IsAnswer(c.run)
        /\ request[c.run].twice \/ (c.run \notin waiting /\ ~ (Own(c.run) /\ cur.phase = "locked"))
    BY DEF CardsInv, RunsInv, ClaimInv
  <2>2. CASE c.run # s BY <1>4, <2>1, <2>2 DEF IsAnswer
  <2>3. CASE c.run = s
    <3>1. request[s] # NotPosted BY <2>1, <2>3 DEF IsAnswer, NotPosted
    <3> QED BY <1>3, <1>4, <2>1, <2>3, <3>1 DEF IsAnswer, CardsInv, RunsInv, CardTypes
  <2> QED BY <2>2, <2>3
<1>11. AgainInv' BY <1>1, <1>4, <1>7 DEF CardsInv, RunsInv, AgainInv, Own, IsAnswer, Cards, St, Word
<1> QED BY <1>5, <1>6, <1>8, <1>9, <1>10, <1>11 DEF CardsInv, RunsInv

\* A run gets the lock.
LEMMA AcquireStep ==
  ASSUME CardsInv, NEW s \in Runs, Acquire(s)
  PROVE  CardsInv'
<1> DEFINE c == Holding(s, "locked")
<1>1. /\ UNCHANGED <<disk, request, shown, begun>> /\ s \in waiting /\ waiting' = waiting \ {s}
      /\ cur' = c
  BY DEF Acquire, ghosts
<1>2. Keys(c) /\ c.run = s /\ c.phase = "locked" /\ c.again = FALSE BY ZenonT(30), IdleFlows
<1> HIDE DEF c
<1>3. FilesInv' /\ BegunInv' /\ OnceInv' BY <1>1, FilesStay
<1>4. CardTypes' BY <1>1, <1>2 DEF CardsInv, RunsInv, CardTypes, Shaped, Shape, Keys
<1>5. PostedInv' BY <1>1, <1>2 DEF CardsInv, RunsInv, PostedInv, Own, IsAnswer
<1>6. OpenInv' BY <1>1, <1>2 DEF OpenInv, Taken
<1>7. ClaimInv' BY <1>1, <1>2 DEF CardsInv, RunsInv, ClaimInv, Own, IsAnswer
<1>8. AgainInv' BY <1>1, <1>2 DEF AgainInv
<1> QED BY <1>3, <1>4, <1>5, <1>6, <1>7, <1>8 DEF CardsInv, RunsInv

\* A message dismisses the open cards.
LEMMA DismissStep ==
  ASSUME CardsInv, NEW s \in Runs, Dismiss(s)
  PROVE  CardsInv'
<1>1. /\ cur.run = s /\ cur.phase = "locked" /\ request[s] = Input
      /\ disk' = Written(disk, Checking(disk, DismissCards(disk, mem)).writes)
      /\ cur' = [cur EXCEPT !.phase = "accepting"]
      /\ UNCHANGED <<request, waiting, shown, begun>>
  BY DEF Dismiss, Perform, clientVars, ghosts
<1>2. Shape(disk) /\ Keys(cur) /\ ~cur.again BY <1>1 DEF CardsInv, RunsInv, CardTypes, Shaped, Recovering
<1>3. Keys(cur') /\ cur'.run = s /\ cur'.phase = "accepting" /\ cur'.again = cur.again BY <1>1, <1>2 DEF Keys
<1>4. Onward(disk, disk') /\ disk'.intents = disk.intents
  <2> DEFINE v == Written(disk, DismissCards(disk, mem).writes)
  <2>1. Row(DismissCards(disk, mem).writes) /\ Onward(disk, v) /\ v.intents = disk.intents
    BY <1>2, DismissOnward
  <2>2. DOMAIN disk' = DOMAIN v /\ disk'.open = v.open /\ disk'.cards = v.cards /\ disk'.intents = v.intents
    BY <1>1, <1>2, <2>1, CheckingWrites
  <2> HIDE DEF v
  <2> QED BY <2>1, <2>2 DEF Onward, Shape, St
<1>5. FilesInv' /\ BegunInv' /\ OnceInv' BY <1>1, <1>4, FilesGoOn, BegunGoesOn DEF CardsInv, RunsInv
<1>6. CardTypes' BY <1>1, <1>2, <1>3, <1>4 DEF CardsInv, RunsInv, CardTypes, Shaped, Shape, Keys, Onward
<1>7. ~IsAnswer(s) BY <1>1 DEF IsAnswer, Input
<1>8. PostedInv' BY <1>1, <1>2, <1>3, <1>7 DEF CardsInv, RunsInv, PostedInv, Own, IsAnswer
<1>9. OpenInv' BY <1>3 DEF OpenInv, Taken
<1>10. ClaimInv' BY <1>1, <1>3, <1>4 DEF CardsInv, RunsInv, ClaimInv, Own, IsAnswer
<1>11. AgainInv' BY <1>3 DEF AgainInv
<1> QED BY <1>5, <1>6, <1>8, <1>9, <1>10, <1>11 DEF CardsInv, RunsInv

\* A message is accepted.
LEMMA AcceptStep ==
  ASSUME CardsInv, NEW s \in Runs, Accept(s)
  PROVE  CardsInv'
<1>1. /\ cur.run = s /\ cur.phase = "accepting" /\ cur' = [cur EXCEPT !.phase = "opening"]
      /\ Perform(SaveRunStart(disk, mem, s))
      /\ UNCHANGED <<request, waiting, shown, begun>>
  BY DEF Accept, clientVars, ghosts
<1>2. Shape(disk) /\ Keys(cur) /\ ~cur.again BY <1>1 DEF CardsInv, RunsInv, CardTypes, Shaped, Recovering
<1>3. Keys(cur') /\ cur'.run = s /\ cur'.phase = "opening" /\ cur'.again = cur.again BY <1>1, <1>2 DEF Keys
<1>4. SameCards(disk, disk') BY <1>1, <1>2, StartHarmless, HarmlessOp
<1>5. Onward(disk, disk') /\ disk'.intents = disk.intents BY <1>2, <1>4, SameOnward DEF SameCards
<1>6. FilesInv' /\ BegunInv' /\ OnceInv' BY <1>1, <1>5, FilesGoOn, BegunGoesOn DEF CardsInv, RunsInv
<1>7. CardTypes' BY <1>1, <1>2, <1>3, <1>5 DEF CardsInv, RunsInv, CardTypes, Shaped, Shape, Keys, Onward
<1>8. ~IsAnswer(s) BY <1>1, <1>2 DEF CardsInv, RunsInv, PostedInv, Own
<1>9. PostedInv' BY <1>1, <1>2, <1>3 DEF CardsInv, RunsInv, PostedInv, Own, IsAnswer
<1>10. OpenInv' BY <1>1, <1>3, <1>8 DEF OpenInv, Own, IsAnswer
<1>11. ClaimInv' BY <1>1, <1>3, <1>5 DEF CardsInv, RunsInv, ClaimInv, Own, IsAnswer
<1>12. AgainInv' BY <1>1, <1>3, <1>8 DEF AgainInv, Own, IsAnswer
<1> QED BY <1>6, <1>7, <1>9, <1>10, <1>11, <1>12 DEF CardsInv, RunsInv

\* An answer claims the open cards.  Its decision was not claimed before by this run, or
\* the run was posted again.
LEMMA ClaimStep ==
  ASSUME CardsInv, NEW s \in Runs, ClaimCards(s)
  PROVE  CardsInv'
<1> DEFINE e == request[s].decision
<1>1. /\ cur.run = s /\ cur.phase = "locked" /\ IsAnswer(s) /\ CanResume(disk, e, s)
      /\ disk' = Written(disk, Checking(disk, PrepareResume(disk, mem, e, s)).writes)
      /\ cur' = [cur EXCEPT !.phase = "opening"]
      /\ UNCHANGED <<request, waiting, shown, begun>>
  BY DEF ClaimCards, Perform, clientVars, ghosts
<1>2. Shape(disk) /\ Keys(cur) /\ ~cur.again BY <1>1 DEF CardsInv, RunsInv, CardTypes, Shaped, Recovering
<1>3. Keys(cur') /\ cur'.run = s /\ cur'.phase = "opening" /\ cur'.again = cur.again BY <1>1, <1>2 DEF Keys
<1>4. request[s].twice \/ Claim(e, s) \notin disk.intents BY <1>1, <1>2 DEF Claim, CardsInv, RunsInv, ClaimInv, Own
<1>5. /\ e.cards = disk.open
      /\ Claim(e, s) \notin disk.intents => \A i \in disk.open : St(disk, i) = "pending" \/ e.again
  BY <1>1 DEF CanResume, St
<1>6. /\ Onward(disk, disk') /\ disk'.open = disk.open
      /\ disk'.intents \subseteq disk.intents \cup {Claim(e, s)}
      /\ Claim(e, s) \notin disk.intents => \A i \in disk.open : St(disk', i) = "resuming"
  <2> DEFINE v == Written(disk, PrepareResume(disk, mem, e, s).writes)
  <2> HIDE DEF e
  <2>1. /\ Row(PrepareResume(disk, mem, e, s).writes)
        /\ Onward(disk, v) /\ v.open = disk.open /\ v.intents \subseteq disk.intents \cup {Claim(e, s)}
        /\ Claim(e, s) \notin disk.intents => \A i \in disk.open : St(v, i) = "resuming"
    <3>1. CASE Claim(e, s) \notin disk.intents BY <1>2, <3>1, ClaimOnward
    <3>2. CASE Claim(e, s) \in disk.intents
      <4>1. PrepareResume(disk, mem, e, s).writes = <<>> BY <3>2 DEF PrepareResume, Outcome
      <4>2. Row(<<>>) /\ SameCards(disk, Written(disk, <<>>))
        BY NoWrite, <1>2, NothingIsHarmless, HarmlessWrites DEF Harmless
      <4> HIDE DEF v
      <4>3. v = Written(disk, <<>>) BY <4>1 DEF v
      <4> QED BY <1>2, <3>2, <4>1, <4>2, <4>3, SameOnward DEF SameCards
    <3> QED BY <3>1, <3>2
  <2>2. DOMAIN disk' = DOMAIN v /\ disk'.open = v.open /\ disk'.cards = v.cards /\ disk'.intents = v.intents
    BY <1>1, <1>2, <2>1, CheckingWrites
  <2> HIDE DEF v
  <2> QED BY <2>1, <2>2 DEF Onward, Shape, St
<1>7. FilesInv' /\ BegunInv' /\ OnceInv' BY <1>1, <1>6, FilesGoOn, BegunGoesOn DEF CardsInv, RunsInv
<1>8. CardTypes' BY <1>1, <1>2, <1>3, <1>6 DEF CardsInv, RunsInv, CardTypes, Shaped, Shape, Keys, Onward
<1>9. Own(s) /\ request[s] # NotPosted /\ s \notin waiting BY <1>1, <1>2 DEF CardsInv, RunsInv, PostedInv, Own
<1>10. PostedInv' BY <1>1, <1>2, <1>3, <1>9 DEF CardsInv, RunsInv, PostedInv, Own, IsAnswer
<1>11. OpenInv' BY <1>1, <1>3, <1>5, <1>6 DEF OpenInv, Own, IsAnswer, Cards
<1>12. ClaimInv'
  <2> SUFFICES ASSUME NEW c \in disk'.intents
      PROVE /\ c.run \in Runs /\ IsAnswer(c.run)
            /\ request[c.run].twice \/ (c.run \notin waiting /\ cur'.phase # "locked")
    BY <1>1 DEF ClaimInv, Own, IsAnswer
  <2>1. c \in disk.intents \/ c.run = s BY <1>6 DEF Claim
  <2> QED BY <1>1, <1>3, <1>9, <2>1 DEF CardsInv, RunsInv, ClaimInv
<1>13. AgainInv'
  <2> SUFFICES ASSUME ~request[s].twice, NEW i \in disk.open
      PROVE  /\ St(disk', i) \notin Fresh
             /\ ~e.again => \A n \in 1..Len(begun) : begun[n][1] = i => begun[n][2] = "repeated"
    BY <1>1, <1>3, <1>5 DEF AgainInv, Own, Cards, St, Word
  <2>1. St(disk', i) \notin Fresh BY <1>4, <1>6 DEF Fresh
  <2>2. ASSUME ~e.again PROVE St(disk, i) \in Fresh BY <1>4, <1>5, <2>2 DEF Fresh
  <2>3. \A n \in 1..Len(begun) : begun[n][2] = "repeated" \/ St(disk, begun[n][1]) \notin Fresh BY DEF CardsInv, BegunInv
  <2> HIDE DEF e
  <2> QED BY <2>1, <2>2, <2>3
<1> QED BY <1>7, <1>8, <1>10, <1>11, <1>12, <1>13 DEF CardsInv, RunsInv

\* They are the executions of those cards, no two of one card.
LEMMA ExecutedFacts ==
  ASSUME NEW cards, cards \subseteq Runs, NEW word \in Words
  PROVE  LET s == Executions(cards, word)
         IN /\ s \in Seq(Runs \X Words) /\ Len(s) \in Nat
            /\ \A n \in 1..Len(s) : s[n][1] \in cards /\ s[n][2] = word
            /\ \A j, k \in 1..Len(s) : s[j][1] = s[k][1] => j = k
<1> DEFINE S == {<<i, word>> : i \in cards}
           s == SetToSeq(S)
<1>1. S \subseteq Runs \X Words OBVIOUS
<1>2. IsFiniteSet(Runs \X Words)
  <2>1. IsFiniteSet(Runs) BY RunSetsFinite
  <2>2. IsFiniteSet({"first"}) /\ IsFiniteSet({"again"}) /\ IsFiniteSet({"repeated"}) BY FS_Singleton
  <2>3. IsFiniteSet({"first"} \cup {"again"}) BY <2>2, FS_Union
  <2>4. IsFiniteSet(({"first"} \cup {"again"}) \cup {"repeated"}) BY <2>2, <2>3, FS_Union
  <2>5. IsFiniteSet(Words)
    <3>1. Words = ({"first"} \cup {"again"}) \cup {"repeated"} BY DEF Words
    <3> QED BY <2>4, <3>1
  <2> QED BY <2>1, <2>5, FS_Product
<1>3. IsFiniteSet(S) BY <1>1, <1>2, FS_Subset
<1>4. \A x \in S : x[1] \in cards /\ x[2] = word OBVIOUS
<1>5. \A x, y \in S : x[1] = y[1] => x = y OBVIOUS
<1> HIDE DEF S
<1>6. /\ s \in Seq(S) /\ Len(s) = Cardinality(S) /\ Cardinality(S) \in Nat
      /\ \A i, j \in 1..Cardinality(S) : s[i] = s[j] => i = j
  BY <1>3, SetToSeqFacts
<1> HIDE DEF s
<1>7. \A n \in 1..Len(s) : s[n] \in S BY <1>6, ElementOfSeq
<1>8. s \in Seq(Runs \X Words) BY <1>1, <1>6
<1>9. \A n \in 1..Len(s) : s[n][1] \in cards /\ s[n][2] = word BY <1>4, <1>7
<1>10. \A j, k \in 1..Len(s) : s[j][1] = s[k][1] => j = k
  <2> SUFFICES ASSUME NEW j \in 1..Len(s), NEW k \in 1..Len(s), s[j][1] = s[k][1] PROVE j = k OBVIOUS
  <2>1. s[j] = s[k] BY <1>5, <1>7
  <2> QED BY <1>6, <2>1
<1>11. Executions(cards, word) = s BY DEF Executions, s, S
<1> QED BY <1>6, <1>8, <1>9, <1>10, <1>11

\* The executions go on with those of cards that are not fresh and were not executed
\* before unless the user says so, or with a repetition.
LEMMA BegunGrows ==
  ASSUME CardsInv, NEW cards, cards \subseteq Runs, NEW word \in Words,
         Onward(disk, disk'),
         begun' = begun \o Executions(cards, word),
         word # "repeated" =>
           \A i \in cards :
             /\ St(disk, i) \notin Fresh
             /\ word = "first" => \A n \in 1..Len(begun) : begun[n][1] = i => begun[n][2] = "repeated"
  PROVE  BegunInv' /\ OnceInv'
<1> DEFINE s == Executions(cards, word)
           T == Runs \X Words
           a == Len(begun)
           b == Len(s)
<1>1. /\ s \in Seq(T) /\ b \in Nat
      /\ \A n \in 1..b : s[n][1] \in cards /\ s[n][2] = word
      /\ \A j, k \in 1..b : s[j][1] = s[k][1] => j = k
  BY ExecutedFacts
<1>2. begun \in Seq(T) /\ \A n \in 1..a : begun[n][2] = "repeated" \/ St(disk, begun[n][1]) \notin Fresh BY DEF CardsInv, BegunInv
<1>3. begun' = begun \o s OBVIOUS
<1> HIDE DEF s, T
<1>4. /\ begun' \in Seq(T) /\ Len(begun') = a + b
      /\ \A n \in 1..(a + b) : begun'[n] = IF n <= a THEN begun[n] ELSE s[n - a]
  <2> HIDE DEF a, b
  <2>1. begun \o s \in Seq(T) /\ Len(begun \o s) = Len(begun) + Len(s)
    BY <1>1, <1>2, ConcatProperties
  <2>2. \A n \in 1..(Len(begun) + Len(s)) : (begun \o s)[n] = IF n <= Len(begun) THEN begun[n] ELSE s[n - Len(begun)]
    BY <1>1, <1>2, ConcatProperties
  <2> QED BY <1>3, <2>1, <2>2 DEF a, b
<1>5. a \in Nat BY <1>2, LenProperties
<1>6. \A n \in 1..(a + b) : \/ n \in 1..a /\ begun'[n] = begun[n]
                            \/ n > a /\ n - a \in 1..b /\ begun'[n] = s[n - a]
  BY <1>1, <1>4, <1>5
<1>7. \A n \in 1..a : begun[n][1] \in Runs BY <1>2, ElementOfSeq DEF T
<1>8. \A n \in 1..(a + b) : begun'[n][2] = "repeated" \/ St(disk', begun'[n][1]) \notin Fresh
  <2> SUFFICES ASSUME NEW n \in 1..(a + b) PROVE begun'[n][2] = "repeated" \/ St(disk', begun'[n][1]) \notin Fresh OBVIOUS
  <2>1. CASE n \in 1..a /\ begun'[n] = begun[n] BY <1>2, <1>7, <2>1 DEF Onward
  <2>2. CASE n - a \in 1..b /\ begun'[n] = s[n - a] BY <1>1, <2>2 DEF Onward
  <2> QED BY <1>6, <2>1, <2>2
<1>9. \A j, k \in 1..(a + b) : j < k /\ begun'[j][1] = begun'[k][1] => begun'[j][2] = "repeated" \/ begun'[k][2] # "first"
  <2> SUFFICES ASSUME NEW j \in 1..(a + b), NEW k \in 1..(a + b), j < k, begun'[j][1] = begun'[k][1]
      PROVE begun'[j][2] = "repeated" \/ begun'[k][2] # "first"
    OBVIOUS
  <2>1. CASE k \in 1..a /\ begun'[k] = begun[k] BY <1>5, <1>6, <2>1 DEF CardsInv, OnceInv
  <2>2. CASE k - a \in 1..b /\ begun'[k] = s[k - a]
    <3>1. CASE j \in 1..a /\ begun'[j] = begun[j] BY <1>1, <2>2, <3>1
    <3>2. CASE j - a \in 1..b /\ begun'[j] = s[j - a] BY <1>1, <2>2, <3>2, <1>5
    <3> QED BY <1>6, <3>1, <3>2
  <2> QED BY <1>6, <2>1, <2>2
<1>10. BegunInv' BY <1>4, <1>8 DEF BegunInv, T, St
<1>11. OnceInv' BY <1>4, <1>9 DEF OnceInv
<1> QED BY <1>10, <1>11

\* The stream opens, and an answer is executed.
LEMMA OpenStep ==
  ASSUME CardsInv, NEW s \in Runs, Open(s)
  PROVE  CardsInv'
<1> DEFINE e == request[s].decision
<1>1. /\ cur.run = s /\ cur.phase = "opening"
      /\ disk' = [disk EXCEPT !.context = View(disk).context]
      /\ cur' = [cur EXCEPT !.phase = "streaming", !.view = View(disk)]
      /\ begun' = IF IsAnswer(s) /\ e.yes
                  THEN begun \o Executions(e.cards, Word(s)) ELSE begun
      /\ UNCHANGED <<request, waiting, shown>>
  BY DEF Open, clientVars, Executions
<1>2. Shape(disk) /\ Keys(cur) /\ ~cur.again BY <1>1 DEF CardsInv, RunsInv, CardTypes, Shaped, Recovering
<1>3. Keys(cur') /\ cur'.run = s /\ cur'.phase = "streaming" /\ cur'.again = cur.again BY <1>1, <1>2 DEF Keys
<1>4. SameCards(disk, disk') BY <1>1, <1>2, ContextOnly
<1>5. Onward(disk, disk') /\ disk'.intents = disk.intents /\ disk'.open = disk.open
  BY <1>2, <1>4, SameOnward DEF SameCards
<1>6. FilesInv' BY <1>1, <1>5, FilesGoOn DEF CardsInv, RunsInv
<1>7. BegunInv' /\ OnceInv'
  <2>1. CASE begun' = begun BY <1>5, <2>1, BegunGoesOn DEF CardsInv
  <2>2. CASE IsAnswer(s) /\ begun' = begun \o Executions(e.cards, Word(s))
    <3>1. e.cards \subseteq Runs /\ Word(s) \in Words
      BY <2>2, RequestFacts DEF CardsInv, RunsInv, CardTypes, IsAnswer, Word, Words
    <3>2. Word(s) # "repeated" =>
            \A i \in e.cards :
              /\ St(disk, i) \notin Fresh
              /\ Word(s) = "first" => \A n \in 1..Len(begun) : begun[n][1] = i => begun[n][2] = "repeated"
      BY <1>1, <1>2, <2>2 DEF CardsInv, RunsInv, AgainInv, Own, Cards
    <3> HIDE DEF e
    <3> QED BY <1>5, <2>2, <3>1, <3>2, BegunGrows
  <2> QED BY <1>1, <2>1, <2>2
<1>8. CardTypes' BY <1>1, <1>2, <1>3, <1>5 DEF CardsInv, RunsInv, CardTypes, Shaped, Shape, Keys, Onward
<1>9. PostedInv' BY <1>1, <1>2, <1>3 DEF CardsInv, RunsInv, PostedInv, Own, IsAnswer
<1>10. OpenInv' BY <1>1, <1>2, <1>3, <1>5 DEF CardsInv, RunsInv, OpenInv, Own, IsAnswer, Cards, Taken
<1>11. ClaimInv' BY <1>1, <1>3, <1>5 DEF CardsInv, RunsInv, ClaimInv, Own, IsAnswer
<1>12. AgainInv' BY <1>3 DEF AgainInv
<1> QED BY <1>6, <1>7, <1>8, <1>9, <1>10, <1>11, <1>12 DEF CardsInv, RunsInv

\* A card is persisted and shown.
LEMMA ShowStep ==
  ASSUME CardsInv, NEW s \in Runs, ShowCard(s)
  PROVE  CardsInv'
<1>1. /\ disk' = Written(disk, PersistInterrupt(disk, mem, s).writes)
      /\ shown' = shown \cup {s} /\ CardQueued(s)
      /\ UNCHANGED <<request, waiting, begun>>
  BY DEF ShowCard, Perform, clientVars
<1>2. Shape(disk) /\ Keys(cur) BY DEF CardsInv, RunsInv, CardTypes, Shaped
<1>3. Keys(cur') /\ cur'.run = cur.run /\ cur'.phase = cur.phase /\ cur'.again = cur.again
  BY <1>1, <1>2, CardQueuedFacts
<1>4. Onward(disk, disk') /\ disk'.intents = disk.intents /\ disk'.open = disk.open \cup {s}
  BY <1>1, <1>2, InterruptOnward
<1>5. FilesInv' /\ BegunInv' /\ OnceInv' BY <1>1, <1>4, FilesGoOn, BegunGoesOn DEF CardsInv, RunsInv
<1>6. CardTypes' BY <1>1, <1>3, <1>4 DEF CardsInv, RunsInv, CardTypes, Shaped, Shape, Keys, Onward
<1>7. PostedInv' BY <1>1, <1>3 DEF CardsInv, RunsInv, PostedInv, Own, IsAnswer
<1>8. OpenInv' BY <1>1, <1>3, <1>4 DEF CardsInv, RunsInv, OpenInv, Own, IsAnswer, Cards
<1>9. ClaimInv' BY <1>1, <1>3, <1>4 DEF CardsInv, RunsInv, ClaimInv, Own, IsAnswer
<1>10. AgainInv' BY <1>3 DEF ShowCard, CanShow, Live, AgainInv
<1> QED BY <1>5, <1>6, <1>7, <1>8, <1>9, <1>10 DEF CardsInv, RunsInv

\* The end of a run's stream settles the cards it answered, or breaks off in that.
LEMMA FinishedOnward ==
  ASSUME CardsInv, NEW s \in Runs, cur.run = s, cur.phase = "closing"
  PROVE  LET ws == Finished(s).writes
             e == Written(disk, ws)
         IN /\ Onward(disk, e) /\ e.intents = disk.intents
            /\ \A l \in 0..(Len(ws) - 1) :
                 LET v == Written(disk, SubSeq(ws, 1, l)) IN Onward(disk, v) /\ v.intents = disk.intents
<1>0. Shape(disk) /\ Own(s) BY DEF CardsInv, RunsInv, CardTypes, Shaped, Recovering, Own
<1>1. CASE IsAnswer(s)
  <2> DEFINE decision == request[s].decision
             unknown == ~cur.ok /\ ~cur.bad
  <2>1. Finished(s) = FinishResume(disk, mem, decision, cur.ok, unknown) BY <1>1 DEF Finished
  <2>2. decision.cards \subseteq disk.open
    BY <1>0, <1>1 DEF CardsInv, RunsInv, OpenInv, Taken, Cards
  <2>3. ~ (cur.ok /\ unknown) OBVIOUS
  <2> HIDE DEF decision, unknown
  <2> QED BY <1>0, <2>1, <2>2, <2>3, FinishOnward
<1>2. CASE ~IsAnswer(s)
  BY <1>2, NoWrite, <1>0, NothingIsHarmless, HarmlessWrites, SameOnward DEF Finished, Outcome, SameCards
<1> QED BY <1>1, <1>2

\* A step after which no run holds the lock but one that was taken up.
LEMMA FreeStep ==
  ASSUME CardsInv, Onward(disk, disk'), begun' = begun, shown' = shown, request' = request,
         waiting' \subseteq waiting, Keys(cur'), cur'.again => cur'.phase \in Recovering,
         cur'.run = None \/ cur'.again,
         \A c \in disk'.intents : c \in disk.intents \/ (Own(c.run) /\ c.run \in Runs /\ IsAnswer(c.run))
  PROVE  CardsInv'
<1>1. FilesInv' /\ BegunInv' /\ OnceInv' BY FilesGoOn, BegunGoesOn DEF CardsInv, RunsInv
<1>2. CardTypes' BY DEF CardsInv, RunsInv, CardTypes, Shaped, Shape, Keys, Onward
<1>3. \A r \in Runs : ~ (cur'.run = r /\ ~cur'.again) BY NoneIsNoRun
<1>4. PostedInv' BY <1>3 DEF CardsInv, RunsInv, PostedInv, Own
<1>5. OpenInv' BY <1>3 DEF OpenInv, Own
<1>6. AgainInv' BY <1>3 DEF AgainInv, Own
<1>7. ClaimInv' BY <1>3 DEF CardsInv, RunsInv, ClaimInv, PostedInv, Own, IsAnswer
<1> QED BY <1>1, <1>2, <1>4, <1>5, <1>6, <1>7 DEF CardsInv, RunsInv

\* The clean-up settles the answered cards and gives the lock back.
LEMMA CloseStep ==
  ASSUME CardsInv, NEW s \in Runs, Close(s)
  PROVE  CardsInv'
BY FinishedOnward, IdleFlows, FreeStep DEF Close, Perform, Release, clientVars, ghosts, Idle

\* What holds the lock after a restart, if anything, was taken up.
LEMMA RestartFacts ==
  LET c == Restart IN Keys(c) /\ (c.run = None \/ c.again) /\ (c.again => c.phase \in Recovering)
<1> DEFINE r == Validated(disk'.context, disk'.history).pending
           h == Holding(r, "streaming")
           v == View(disk')
           sent == Recorded(r)
<1>1. Restart = IF r = None THEN Idle
                ELSE [h EXCEPT !.again = TRUE, !.view = v, !.sent = sent]
  BY DEF Restart
<1>2. Keys(h) /\ h.phase = "streaming" BY IdleFlows
<1>3. Keys(Idle) /\ Idle.run = None /\ Idle.again = FALSE BY ZenonT(30), IdleFlows DEF Idle
<1> HIDE DEF h, r, v, sent
<1>4. CASE r = None BY <1>1, <1>3, <1>4
<1>5. CASE Restart = [h EXCEPT !.again = TRUE, !.view = v, !.sent = sent]
  <2> DEFINE c == [h EXCEPT !.again = TRUE, !.view = v, !.sent = sent]
  <2>1. Keys(c) /\ c.again = TRUE /\ c.phase = "streaming" BY <1>2 DEF Keys
  <2> QED BY <1>5, <2>1 DEF Recovering
<1> QED BY <1>1, <1>4, <1>5

\* Every operation that may be under way.
LEMMA UnderwayBreaks ==
  ASSUME CardsInv, NEW op \in Underway
  PROVE  Breakable(op)
<1>0. Shape(disk) /\ (cur.again => cur.phase \in Recovering) BY DEF CardsInv, RunsInv, CardTypes, Shaped
<1>1. ASSUME NEW r \in Runs, cur.run = r /\ cur.phase = "closing", op = Finished(r) PROVE Breakable(op)
  BY <1>1, FinishedOnward DEF Breakable
<1>2. ASSUME op = DismissCards(disk, mem) PROVE Breakable(op) BY <1>0, DismissOnward, <1>2 DEF Breakable
<1>3. ASSUME NEW r \in Runs, cur.run = r /\ cur.phase = "locked", IsAnswer(r),
             op = PrepareResume(disk, mem, request[r].decision, r)
      PROVE  Breakable(op)
  <2> DEFINE e == request[r].decision
             ws == PrepareResume(disk, mem, e, r).writes
  <2>1. Own(r) BY <1>0, <1>3 DEF Own, Recovering
  <2>2. CASE Claim(e, r) \in disk.intents
    <3>1. op.writes = <<>> BY <1>3, <2>2 DEF PrepareResume, Outcome
    <3> QED BY <3>1 DEF Breakable
  <2> SUFFICES ASSUME Claim(e, r) \notin disk.intents PROVE Breakable(op) BY <2>2
  <2>3. \A l \in 0..(Len(ws) - 1) :
          LET v == Written(disk, SubSeq(ws, 1, l))
          IN Onward(disk, v) /\ v.intents \subseteq disk.intents \cup {Claim(e, r)}
    <3> HIDE DEF e
    <3> QED BY <1>0, ClaimOnward
  <2>4. Claim(e, r).run = r BY DEF Claim
  <2>5. op.writes = ws BY <1>3
  <2> HIDE DEF e, ws
  <2> QED BY <1>3, <2>1, <2>3, <2>4, <2>5 DEF Breakable
<1>4. ASSUME NEW r \in Runs, op = PersistInterrupt(disk, mem, r) PROVE Breakable(op)
  BY <1>0, InterruptOnward, <1>4 DEF Breakable
<1>5. ASSUME NEW r \in Runs, op = CancelRun(disk, mem, r) PROVE Breakable(op)
  <2> DEFINE ws == CancelRun(disk, mem, r).writes
  <2>1. Harmless(ws) /\ Len(ws) = 2 BY CancelHarmless
  <2>2. op.writes = ws BY <1>5
  <2> HIDE DEF ws
  <2>3. ASSUME NEW l \in 0..(Len(ws) - 1)
        PROVE  LET v == Written(disk, SubSeq(ws, 1, l)) IN Onward(disk, v) /\ v.intents = disk.intents
    <3>1. l \in 0..Len(ws) BY <2>1
    <3>2. SameCards(disk, Written(disk, SubSeq(ws, 1, l))) BY <1>0, <2>1, <3>1, HarmlessWrites
    <3>3. Onward(disk, Written(disk, SubSeq(ws, 1, l))) BY <1>0, <3>2, SameOnward
    <3> QED BY <3>2, <3>3 DEF SameCards
  <2> QED BY <2>2, <2>3 DEF Breakable
<1> QED BY <1>1, <1>2, <1>3, <1>4, <1>5 DEF Underway

\* The process stops, between two writes of an operation or of none, and restarts.
LEMMA CrashStep ==
  ASSUME CardsInv, Crash
  PROVE  CardsInv'
<1>0. Shape(disk) BY DEF CardsInv, RunsInv, CardTypes, Shaped
<1>1. \E v : /\ Onward(disk, v) /\ disk' = Restarted(v)
             /\ \A c \in v.intents : c \in disk.intents \/ (Own(c.run) /\ c.run \in Runs /\ IsAnswer(c.run))
  <2>1. CASE disk' = Restarted(disk) BY <1>0, SameOnward, <2>1 DEF SameCards
  <2>2. ASSUME NEW op \in Underway, BreakOff(op)
        PROVE  \E v : /\ Onward(disk, v) /\ disk' = Restarted(v)
                      /\ \A c \in v.intents : c \in disk.intents \/ (Own(c.run) /\ c.run \in Runs /\ IsAnswer(c.run))
    <3>1. PICK l \in 0..(Len(op.writes) - 1) : disk' = Restarted(Written(disk, SubSeq(op.writes, 1, l)))
      BY <2>2 DEF BreakOff
    <3>2. Breakable(op) BY UnderwayBreaks
    <3> QED BY <3>1, <3>2 DEF Breakable
  <2> QED BY <2>1, <2>2 DEF Crash
<1>2. PICK v : /\ Onward(disk, v) /\ disk' = Restarted(v)
               /\ \A c \in v.intents : c \in disk.intents \/ (Own(c.run) /\ c.run \in Runs /\ IsAnswer(c.run))
  BY <1>1
<1>3. Shape(v) BY <1>2 DEF Onward
<1>4. Onward(disk, disk') BY <1>2, <1>3, RestartedOnward, OnwardOnward
<1>5. disk'.intents = v.intents BY <1>2, <1>3, RestartedFacts
<1>6. Keys(cur') /\ (cur'.run = None \/ cur'.again) /\ (cur'.again => cur'.phase \in Recovering)
  <2>1. cur' = Restart BY DEF Crash
  <2> HIDE DEF Restart
  <2> QED BY <2>1, RestartFacts
<1>7. begun' = begun /\ shown' = shown /\ request' = request /\ waiting' \subseteq waiting
  BY DEF Crash, ghosts
<1> QED BY <1>2, <1>4, <1>5, <1>6, <1>7, FreeStep

\* A new session has no cards.
LEMMA InitCards ==
  ASSUME Init
  PROVE  CardsInv
<1>1. /\ disk = NewDisk /\ request = [r \in Runs |-> NotPosted] /\ waiting = {} /\ cur = Idle
      /\ shown = {} /\ begun = <<>>
  BY DEF Init
<1>2. Keys(Idle) /\ Idle.run = None /\ Idle.again = FALSE BY ZenonT(30), IdleFlows DEF Idle
<1>3. Shape(disk) /\ disk.open = {} /\ disk.intents = {} BY <1>1 DEF NewDisk, Shape, NoCard
<1>4. CardTypes BY <1>1, <1>2, <1>3 DEF CardTypes, Shaped, Requests
<1>5. FilesInv BY <1>1, <1>3 DEF FilesInv
<1>6. \A r \in Runs : ~Own(r) BY <1>1, <1>2, NoneIsNoRun DEF Own
<1>7. begun \in Seq(Runs \X Words) /\ Len(begun) = 0 BY <1>1
<1>8. BegunInv /\ OnceInv BY <1>7 DEF BegunInv, OnceInv
<1> QED BY <1>1, <1>3, <1>4, <1>5, <1>6, <1>8 DEF CardsInv, RunsInv, PostedInv, OpenInv, ClaimInv, AgainInv

\* The inductive invariant holds in every reachable state.
LEMMA CardsAlways == Spec => []CardsInv
<1>1. Init => CardsInv BY InitCards
<1>2. CardsInv /\ [Next]_vars => CardsInv'
  <2> SUFFICES ASSUME CardsInv, [Next]_vars PROVE CardsInv' OBVIOUS
  <2>1. Calm \/ Crash \/ \E r \in Runs : Stirs(r)
    BY CalmOrStirs DEF CardsInv, RunsInv, CardTypes
  <2>2. ASSUME NEW r \in Runs, Stirs(r) PROVE CardsInv'
    BY <2>2, PostStep, AcquireStep, DismissStep, AcceptStep, ClaimStep, OpenStep, ShowStep, CloseStep DEF Stirs
  <2> QED BY <2>1, <2>2, CalmSteps, CrashStep
<1> QED BY <1>1, <1>2, PTL DEF Spec

-----------------------------------------------------------------------------
(* The theorems.                                                           *)

\* A card the browser has been sent can be answered after any restart, also one in the
\* middle of an operation: it is open and has its checkpoint, or it has been settled
\* (persist_interrupt, prepare_resume, finish_resume, ensure_accepts_new_input).
THEOREM CardsOutliveRestarts == Spec => []ShownIsDurable
<1>1. CardsInv => ShownIsDurable
  <2> SUFFICES ASSUME CardsInv, NEW i \in shown
      PROVE IF i \in disk.open THEN disk.cards[i].status # "none"
            ELSE disk.cards[i].status \in {"approved", "denied", "cancelled"}
    BY DEF ShownIsDurable
  <2>1. CASE i \in disk.open BY <2>1 DEF CardsInv, FilesInv, St
  <2>2. CASE i \notin disk.open BY <2>2 DEF CardsInv, FilesInv, St, Settled
  <2> QED BY <2>1, <2>2
<1> QED BY <1>1, CardsAlways, PTL

\* The tool calls of a card are executed once, and again only on an answer that says so or
\* that its run posts again, however often the process is restarted.  A repeated answer is
\* let through as often as it is posted, and what it has executed may be taken for fresh if
\* a crash had broken off its first claim (prepare_resume).
THEOREM AnswersAreExecutedOnce == Spec => []ConfirmedOnce
<1>1. CardsInv => ConfirmedOnce
  <2> SUFFICES ASSUME CardsInv, NEW j \in DOMAIN begun, NEW k \in DOMAIN begun,
                      j < k, begun[j][1] = begun[k][1]
      PROVE begun[j][2] = "repeated" \/ begun[k][2] # "first"
    BY DEF ConfirmedOnce
  <2>1. DOMAIN begun = 1..Len(begun) BY LenProperties DEF CardsInv, BegunInv
  <2> QED BY <2>1 DEF CardsInv, OnceInv
<1> QED BY <1>1, CardsAlways, PTL

-----------------------------------------------------------------------------
(* Sequences that are defined by recursion.                                *)

\* A set that has 0, and of each number before l the next one, has all up to l.
LEMMA UpTo ==
  ASSUME NEW l \in Nat, NEW S, 0 \in S, \A n \in 0..(l - 1) : n \in S => n + 1 \in S
  PROVE  \A n \in 0..l : n \in S
<1> DEFINE Bad == {n \in 0..l : n \notin S}
<1> SUFFICES ASSUME Bad # {} PROVE FALSE OBVIOUS
<1>1. Bad \subseteq Nat OBVIOUS
<1>2. PICK m \in Bad : \A k \in Bad : ~ (<<k, m>> \in OpToRel(<, Nat))
  <2> HIDE DEF Bad
  <2> QED BY <1>1, NatLessThanWellFounded, WFMin
<1>3. m \in 1..l /\ m - 1 \in 0..(l - 1) /\ m - 1 \in Nat /\ m - 1 < m OBVIOUS
<1>4. m - 1 \notin Bad BY <1>1, <1>2, <1>3 DEF OpToRel
<1>5. m - 1 \in S BY <1>3, <1>4
<1>6. m - 1 + 1 = m BY <1>3
<1> QED BY <1>3, <1>5, <1>6

\* A value for 0 and a step to each number from the one before it make a function.
LEMMA Recursion ==
  ASSUME NEW V, NEW base \in V, NEW l \in Nat, NEW step \in [1..l -> [V -> V]]
  PROVE  \E f \in [0..l -> V] : f[0] = base /\ \A n \in 1..l : f[n] = step[n][f[n - 1]]
<1> DEFINE Upto(f, j) == f \in [0..j -> V] /\ f[0] = base /\ \A n \in 1..j : f[n] = step[n][f[n - 1]]
           All == {j \in 0..l : \E f : Upto(f, j)}
<1>1. 0 \in All
  <2> DEFINE f == [n \in 0..0 |-> base]
  <2>1. 0 \in 0..0 /\ \A n \in 1..0 : FALSE OBVIOUS
  <2>2. Upto(f, 0) BY <2>1
  <2> HIDE DEF Upto
  <2> QED BY <2>2
<1>2. \A j \in 0..(l - 1) : j \in All => j + 1 \in All
  <2> SUFFICES ASSUME NEW j \in 0..(l - 1), j \in All, NEW i, i = j + 1 PROVE i \in All OBVIOUS
  <2>1. PICK f : Upto(f, j) OBVIOUS
  <2> DEFINE g == [n \in 0..i |-> IF n = i THEN step[i][f[j]] ELSE f[n]]
  <2>2. i \in 1..l /\ i # 0 /\ i - 1 = j /\ j \in 0..j /\ j # i /\ 0 \in 0..i /\ i \in 0..i OBVIOUS
  <2>3. f[j] \in V /\ step[i][f[j]] \in V BY <2>1, <2>2
  <2>4. \A n \in 0..i : n # i => n \in 0..j BY <2>2
  <2>5. g \in [0..i -> V] BY <2>1, <2>3, <2>4
  <2>6. g[0] = base /\ g[i] = step[i][f[j]] /\ \A n \in 0..j : g[n] = f[n] BY <2>1, <2>2
  <2>7. \A n \in 1..i : g[n] = step[n][g[n - 1]]
    <3> SUFFICES ASSUME NEW n \in 1..i PROVE g[n] = step[n][g[n - 1]] OBVIOUS
    <3> HIDE DEF g
    <3>1. CASE n = i BY <2>2, <2>6, <3>1
    <3>2. CASE n # i BY <2>2, <3>2, <2>1, <2>6
    <3> QED BY <3>1, <3>2
  <2>8. Upto(g, i) BY <2>5, <2>6, <2>7
  <2> HIDE DEF g, Upto
  <2> QED BY <2>2, <2>8
<1>3. l \in All
  <2> HIDE DEF All
  <2>1. l \in 0..l OBVIOUS
  <2> QED BY <1>1, <1>2, <2>1, UpTo
<1> QED BY <1>3

\* Two functions that begin alike, and go on alike while they are alike, end alike.
LEMMA Agree ==
  ASSUME NEW f, NEW g, NEW l \in Nat, f[0] = g[0],
         \A n \in 1..l : f[n - 1] = g[n - 1] => f[n] = g[n]
  PROVE  \A n \in 0..l : f[n] = g[n]
<1> DEFINE S == {n \in 0..l : f[n] = g[n]}
<1>1. 0 \in S OBVIOUS
<1>2. ASSUME NEW n \in 0..(l - 1), n \in S PROVE n + 1 \in S BY <1>2
<1> HIDE DEF S
<1>3. \A n \in 0..l : n \in S BY <1>1, <1>2, UpTo
<1> QED BY <1>3 DEF S

\* A function that never changes from a to b has one value from a to b.
LEMMA Constant ==
  ASSUME NEW f, NEW a \in Nat, NEW b \in Nat, a <= b, \A n \in (a + 1)..b : f[n] = f[n - 1]
  PROVE  f[b] = f[a]
<1> DEFINE S == {n \in 0..(b - a) : f[a + n] = f[a]}
<1>1. 0 \in S OBVIOUS
<1>2. ASSUME NEW n \in 0..(b - a - 1), n \in S PROVE n + 1 \in S BY <1>2
<1> HIDE DEF S
<1>3. \A n \in 0..(b - a) : n \in S BY <1>1, <1>2, UpTo
<1>4. b - a \in 0..(b - a) /\ a + (b - a) = b OBVIOUS
<1> QED BY <1>3, <1>4 DEF S

-----------------------------------------------------------------------------
(* The events and the records of a history.                                *)

\* One more of them.
LEMMA JoinsStep ==
  ASSUME NEW l \in Nat, NEW part, NEW f, Joins(f, part, l), NEW n \in 0..(l - 1)
  PROVE  f[n + 1] = f[n] \o part[n + 1]
<1> SUFFICES ASSUME NEW m, m = n + 1 PROVE f[m] = f[n] \o part[m] OBVIOUS
<1>1. m \in 1..l /\ m - 1 = n OBVIOUS
<1>2. f[m] = f[m - 1] \o part[m] BY <1>1 DEF Joins
<1> QED BY <1>1, <1>2

\* One sequence after the other is put behind those before it.
LEMMA JoinedExists ==
  ASSUME NEW l \in Nat, NEW part, Parts(part, l)
  PROVE  \E f : f = [n \in 0..l |-> f[n]] /\ Joins(f, part, l)
<1> DEFINE V == Seq(Pairs)
           step == [k \in 1..l |-> [v \in V |-> v \o part[k]]]
           e == <<>>
<1>1. \A k \in 1..l : \A v \in V : v \o part[k] \in V BY ConcatProperties DEF Parts
<1>2. step \in [1..l -> [V -> V]]
  <2> HIDE DEF V
  <2> QED BY <1>1
<1>3. \A k \in 1..l : \A v \in V : step[k][v] = v \o part[k]
  <2> HIDE DEF V
  <2> QED BY <1>1
<1>4. e \in V BY EmptySeq
<1> HIDE DEF V, step, e
<1>5. \E f \in [0..l -> V] : f[0] = e /\ \A k \in 1..l : f[k] = step[k][f[k - 1]]
  BY <1>2, <1>4, Recursion
<1>6. PICK f \in [0..l -> V] : f[0] = e /\ \A k \in 1..l : f[k] = step[k][f[k - 1]] BY <1>5
<1>7. ASSUME NEW k \in 1..l PROVE f[k] = f[k - 1] \o part[k]
  <2>1. f[k - 1] \in V BY <1>6
  <2>2. f[k] = step[k][f[k - 1]] BY <1>6
  <2> QED BY <2>1, <2>2, <1>3
<1>8. f = [n \in 0..l |-> f[n]] BY <1>6
<1>9. f[0] = <<>> BY <1>6 DEF e
<1> QED BY <1>7, <1>8, <1>9 DEF Joins

\* What is put together so is a sequence.
LEMMA JoinedTyped ==
  ASSUME NEW l \in Nat, NEW part, Parts(part, l), NEW f, Joins(f, part, l)
  PROVE  \A n \in 0..l : f[n] \in Seq(Pairs)
<1> DEFINE S == {n \in 0..l : f[n] \in Seq(Pairs)}
<1>1. 0 \in S
  <2>1. f[0] = <<>> BY DEF Joins
  <2>2. f[0] \in Seq(Pairs) BY <2>1, EmptySeq
  <2> QED BY <2>2
<1>2. ASSUME NEW n \in 0..(l - 1), n \in S PROVE n + 1 \in S
  <2>1. n + 1 \in 1..l /\ n + 1 \in 0..l OBVIOUS
  <2>2. f[n] \in Seq(Pairs) BY <1>2
  <2>3. part[n + 1] \in Seq(Pairs) BY <2>1 DEF Parts
  <2>4. f[n + 1] = f[n] \o part[n + 1] BY JoinsStep
  <2>5. f[n + 1] \in Seq(Pairs) BY <2>2, <2>3, <2>4, ConcatProperties
  <2> QED BY <2>1, <2>5
<1> HIDE DEF S
<1>3. \A n \in 0..l : n \in S BY <1>1, <1>2, UpTo
<1> QED BY <1>3 DEF S

\* The events are those of one record after the other.
LEMMA VisibleUpTo ==
  ASSUME NEW h \in Seq(Records), NEW n \in 0..Len(h)
  PROVE  LET part == [k \in 1..n |-> Part(h, k)]
         IN Parts(part, n) /\ \E f : Joins(f, part, n) /\ f[n] = VisibleEvents(h, n)
<1> DEFINE part == [k \in 1..n |-> Part(h, k)]
           Form(f) == f = [k \in 0..n |-> IF k = 0 THEN <<>> ELSE
                                     f[k - 1] \o IF Visible(h, k) THEN h[k].events ELSE <<>>]
           upTo == CHOOSE f : Form(f)
<1>1. n \in Nat /\ Len(h) \in Nat /\ \A k \in 1..n : k \in 1..Len(h) /\ k \in Nat BY LenProperties
<1>2. \A k \in 1..n : part[k] = Part(h, k) OBVIOUS
<1>3. Parts(part, n)
  <2> SUFFICES ASSUME NEW k \in 1..n PROVE Part(h, k) \in Seq(Pairs) BY DEF Parts
  <2>1. h[k] \in Records BY <1>1, ElementOfSeq
  <2>2. h[k].events \in Seq(Pairs) BY <2>1 DEF Records
  <2>3. <<>> \in Seq(Pairs) BY EmptySeq
  <2> QED BY <2>2, <2>3 DEF Part
<1> HIDE DEF part
<1>4. PICK g : g = [k \in 0..n |-> g[k]] /\ Joins(g, part, n) BY <1>1, <1>3, JoinedExists
<1>5. g[0] = <<>> /\ \A k \in 1..n : g[k] = g[k - 1] \o IF Visible(h, k) THEN h[k].events ELSE <<>>
  BY <1>2, <1>4 DEF Part, Joins
<1>6. Form(g)
  <2> DEFINE w == [k \in 0..n |-> IF k = 0 THEN <<>> ELSE
                           g[k - 1] \o IF Visible(h, k) THEN h[k].events ELSE <<>>]
  <2>1. \A k \in 0..n : g[k] = w[k]
    <3> SUFFICES ASSUME NEW k \in 0..n PROVE g[k] = w[k] OBVIOUS
    <3>1. CASE k = 0 BY <1>5, <3>1
    <3>2. CASE k # 0
      <4>1. k \in 1..n BY <3>2
      <4>2. g[k] = g[k - 1] \o IF Visible(h, k) THEN h[k].events ELSE <<>> BY <1>5, <4>1
      <4> QED BY <3>2, <4>2
    <3> QED BY <3>1, <3>2
  <2> HIDE DEF w
  <2>2. [k \in 0..n |-> g[k]] = [k \in 0..n |-> w[k]] BY <2>1
  <2>3. w = [k \in 0..n |-> w[k]] BY DEF w
  <2>4. g = w BY <1>4, <2>2, <2>3
  <2> QED BY <2>4 DEF w
<1>7. Form(upTo) BY <1>6
<1>8. VisibleEvents(h, n) = upTo[n] BY DEF VisibleEvents
<1> HIDE DEF upTo
<1>9. Joins(upTo, part, n)
  <2>1. \A k \in 0..n : upTo[k] = IF k = 0 THEN <<>> ELSE
                           upTo[k - 1] \o IF Visible(h, k) THEN h[k].events ELSE <<>>
    BY <1>7
  <2>2. 0 \in 0..n /\ \A k \in 1..n : k \in 0..n /\ k # 0 BY <1>1
  <2>3. upTo[0] = <<>> BY <2>1, <2>2
  <2>4. ASSUME NEW k \in 1..n PROVE upTo[k] = upTo[k - 1] \o part[k] BY <2>1, <2>2, <1>2 DEF Part
  <2> QED BY <2>3, <2>4 DEF Joins
<1> QED BY <1>3, <1>8, <1>9 DEF part

\* Up to no record there is nothing; each record adds its part.
LEMMA VisibleStep ==
  ASSUME NEW h \in Seq(Records)
  PROVE  /\ VisibleEvents(h, 0) = <<>>
         /\ \A n \in 0..Len(h) : VisibleEvents(h, n) \in Seq(Pairs)
         /\ \A n \in 1..Len(h) : /\ VisibleEvents(h, n) = VisibleEvents(h, n - 1) \o Part(h, n)
                                 /\ Part(h, n) \in Seq(Pairs)
<1>1. Len(h) \in Nat BY LenProperties
<1>2. VisibleEvents(h, 0) = <<>>
  <2>1. 0 \in 0..Len(h) BY <1>1
  <2>2. PICK f : Joins(f, [k \in 1..0 |-> Part(h, k)], 0) /\ f[0] = VisibleEvents(h, 0) BY <2>1, VisibleUpTo
  <2> QED BY <2>2 DEF Joins
<1>3. \A n \in 0..Len(h) : VisibleEvents(h, n) \in Seq(Pairs)
  <2> SUFFICES ASSUME NEW n \in 0..Len(h) PROVE VisibleEvents(h, n) \in Seq(Pairs) OBVIOUS
  <2> DEFINE part == [k \in 1..n |-> Part(h, k)]
  <2>1. Parts(part, n) /\ \E f : Joins(f, part, n) /\ f[n] = VisibleEvents(h, n) BY VisibleUpTo
  <2> HIDE DEF part
  <2>2. n \in Nat /\ n \in 0..n BY <1>1
  <2> QED BY <2>1, <2>2, JoinedTyped
<1>4. ASSUME NEW n \in 1..Len(h)
      PROVE  VisibleEvents(h, n) = VisibleEvents(h, n - 1) \o Part(h, n) /\ Part(h, n) \in Seq(Pairs)
  <2> DEFINE part == [k \in 1..n |-> Part(h, k)]
             less == [k \in 1..(n - 1) |-> Part(h, k)]
  <2>1. n \in 0..Len(h) /\ n - 1 \in 0..Len(h) /\ n - 1 \in Nat /\ n \in Nat /\ n \in 1..n BY <1>1
  <2>2. PICK f : Parts(part, n) /\ Joins(f, part, n) /\ f[n] = VisibleEvents(h, n) BY <2>1, VisibleUpTo
  <2>3. PICK g : Joins(g, less, n - 1) /\ g[n - 1] = VisibleEvents(h, n - 1) BY <2>1, VisibleUpTo
  <2>4. part[n] = Part(h, n) BY <2>1
  <2>5. \A k \in 1..(n - 1) : part[k] = less[k] /\ k \in 1..n BY <2>1
  <2> HIDE DEF part, less
  <2>6. f[n] = f[n - 1] \o part[n] BY <2>1, <2>2 DEF Joins
  <2>7. \A k \in 1..(n - 1) : f[k - 1] = g[k - 1] => f[k] = g[k] BY <2>2, <2>3, <2>5 DEF Joins
  <2>8. f[0] = g[0] BY <2>2, <2>3 DEF Joins
  <2>9. f[n - 1] = g[n - 1]
    <3> DEFINE m == n - 1
    <3>1. m \in Nat /\ m \in 0..m /\ \A k \in 1..m : f[k - 1] = g[k - 1] => f[k] = g[k] BY <2>1, <2>7
    <3> HIDE DEF m
    <3>2. f[m] = g[m] BY SMTT(30), <3>1, <2>8, Agree
    <3> QED BY <3>2 DEF m
  <2>10. Part(h, n) \in Seq(Pairs) BY <2>1, <2>2, <2>4 DEF Parts
  <2> QED BY <2>2, <2>3, <2>4, <2>6, <2>9, <2>10
<1> QED BY <1>2, <1>3, <1>4

\* Histories whose first n records add the same show the same up to there.
LEMMA VisibleAlike ==
  ASSUME NEW h \in Seq(Records), NEW g \in Seq(Records), NEW n \in 0..Len(h), n <= Len(g),
         \A k \in 1..n : Part(g, k) = Part(h, k)
  PROVE  \A k \in 0..n : VisibleEvents(g, k) = VisibleEvents(h, k)
<1> DEFINE v == [k \in 0..n |-> VisibleEvents(h, k)]
           w == [k \in 0..n |-> VisibleEvents(g, k)]
<1>1. Len(h) \in Nat /\ Len(g) \in Nat /\ n \in Nat BY LenProperties
<1>2. \A k \in 1..n : k \in 1..Len(h) /\ k \in 1..Len(g) /\ k - 1 \in 0..n /\ k \in 0..n BY <1>1
<1>3. v[0] = w[0] BY VisibleStep, <1>1
<1>4. ASSUME NEW k \in 1..n, v[k - 1] = w[k - 1] PROVE v[k] = w[k] BY <1>2, <1>4, VisibleStep
<1>5. \A k \in 0..n : v[k] = VisibleEvents(h, k) /\ w[k] = VisibleEvents(g, k) OBVIOUS
<1> HIDE DEF v, w
<1>6. \A k \in 1..n : v[k - 1] = w[k - 1] => v[k] = w[k] BY <1>4
<1>7. n \in Nat BY <1>1
<1>8. \A k \in 0..n : v[k] = w[k] BY <1>3, <1>6, <1>7, Agree
<1> QED BY <1>5, <1>8

\* Every event that is seen is of a record that is.
LEMMA VisibleFrom ==
  ASSUME NEW h \in Seq(Records)
  PROVE  \A n \in 0..Len(h) : \A i \in 1..Len(VisibleEvents(h, n)) :
           \E k \in 1..n : Visible(h, k) /\ Has(h[k], VisibleEvents(h, n)[i])
<1> DEFINE Good(n) == \A i \in 1..Len(VisibleEvents(h, n)) :
                        \E k \in 1..n : Visible(h, k) /\ Has(h[k], VisibleEvents(h, n)[i])
           S == {n \in 0..Len(h) : Good(n)}
<1>1. Len(h) \in Nat BY LenProperties
<1>2. 0 \in S BY VisibleStep, EmptySeq, <1>1
<1>3. ASSUME NEW n \in 0..(Len(h) - 1), n \in S PROVE n + 1 \in S
  <2> SUFFICES ASSUME NEW m, m = n + 1 PROVE m \in S OBVIOUS
  <2>1. m \in 1..Len(h) /\ m - 1 = n /\ m \in 0..Len(h) /\ n \in 0..Len(h) /\ n \in Nat /\ m \in Nat BY <1>1
  <2>2. Good(n) BY <1>3
  <2> DEFINE v == VisibleEvents(h, n)
             p == Part(h, m)
  <2>3. VisibleEvents(h, m) = v \o p /\ v \in Seq(Pairs) /\ p \in Seq(Pairs) BY <2>1, VisibleStep
  <2>4. /\ Len(v) \in Nat /\ Len(p) \in Nat /\ Len(v \o p) = Len(v) + Len(p)
        /\ \A i \in 1..(Len(v) + Len(p)) : (v \o p)[i] = IF i <= Len(v) THEN v[i] ELSE p[i - Len(v)]
    BY <2>3, ConcatProperties, LenProperties
  <2>5. ASSUME NEW i \in 1..Len(v \o p)
        PROVE  \E k \in 1..m : Visible(h, k) /\ Has(h[k], (v \o p)[i])
    <3>1. CASE i <= Len(v)
      <4>1. i \in 1..Len(v) /\ (v \o p)[i] = v[i] BY <2>4, <3>1
      <4>2. PICK k \in 1..n : Visible(h, k) /\ Has(h[k], v[i]) BY <2>2, <4>1
      <4>3. k \in 1..m BY <2>1
      <4> QED BY <4>1, <4>2, <4>3
    <3>2. CASE ~ (i <= Len(v))
      <4>1. i - Len(v) \in 1..Len(p) /\ (v \o p)[i] = p[i - Len(v)] BY <2>4, <3>2
      <4>2. CASE Visible(h, m) BY <4>2, <4>1, <2>1 DEF Part, Has
      <4>3. CASE ~ Visible(h, m) BY <4>3, EmptySeq, <4>1 DEF Part
      <4> QED BY <4>2, <4>3
    <3> QED BY <3>1, <3>2
  <2>6. Good(m) BY <2>3, <2>5
  <2> QED BY <2>1, <2>6
<1> HIDE DEF S
<1>4. \A n \in 0..Len(h) : n \in S BY <1>1, <1>2, <1>3, UpTo
<1> QED BY <1>4 DEF S

\* Every event of a record that is seen is seen.
LEMMA VisibleHas ==
  ASSUME NEW h \in Seq(Records), NEW k \in 1..Len(h), Visible(h, k), NEW e, Has(h[k], e)
  PROVE  \A n \in k..Len(h) : \E i \in 1..Len(VisibleEvents(h, n)) : VisibleEvents(h, n)[i] = e
<1> DEFINE Good(n) == \E i \in 1..Len(VisibleEvents(h, n)) : VisibleEvents(h, n)[i] = e
           l == Len(h) - k
           S == {n \in 0..l : Good(k + n)}
<1>1. Len(h) \in Nat /\ l \in Nat /\ k \in Nat BY LenProperties
<1>2. ASSUME NEW m \in 1..Len(h), Good(m - 1) PROVE Good(m)
  <2> DEFINE v == VisibleEvents(h, m - 1)
             p == Part(h, m)
  <2>1. m - 1 \in 0..Len(h) BY <1>1
  <2>2. VisibleEvents(h, m) = v \o p /\ v \in Seq(Pairs) /\ p \in Seq(Pairs) BY <2>1, VisibleStep
  <2>3. PICK i \in 1..Len(v) : v[i] = e BY <1>2
  <2>4. Len(v) \in Nat /\ Len(p) \in Nat BY <2>2, LenProperties
  <2>5. i \in 1..Len(v \o p) /\ (v \o p)[i] = e BY <2>2, <2>3, <2>4, ConcatProperties
  <2> QED BY <2>2, <2>5
<1>3. Good(k)
  <2> DEFINE v == VisibleEvents(h, k - 1)
             p == Part(h, k)
  <2>1. k - 1 \in 0..Len(h) BY <1>1
  <2>2. VisibleEvents(h, k) = v \o p /\ v \in Seq(Pairs) /\ p \in Seq(Pairs) BY <2>1, VisibleStep
  <2>3. PICK i \in 1..Len(p) : p[i] = e BY DEF Has, Part
  <2>4. Len(v) \in Nat /\ Len(p) \in Nat BY <2>2, LenProperties
  <2>5. /\ Len(v) + i \in 1..(Len(v) + Len(p)) /\ ~ (Len(v) + i <= Len(v)) /\ Len(v) + i - Len(v) = i
    BY <2>3, <2>4
  <2>6. Len(v) + i \in 1..Len(v \o p) /\ (v \o p)[Len(v) + i] = e BY <2>2, <2>3, <2>5, ConcatProperties
  <2> QED BY <2>2, <2>6
<1> HIDE DEF Good
<1>4. 0 \in S BY <1>1, <1>3
<1>5. ASSUME NEW n \in 0..(l - 1), n \in S PROVE n + 1 \in S BY <1>1, <1>2, <1>5
<1> HIDE DEF S, l
<1>6. \A n \in 0..l : n \in S BY <1>1, <1>4, <1>5, UpTo
<1>7. ASSUME NEW n \in k..Len(h) PROVE Good(n)
  <2>1. n - k \in 0..l /\ k + (n - k) = n BY <1>1 DEF l
  <2>2. Good(k + (n - k)) BY <1>6, <2>1 DEF S
  <2> QED BY <2>1, <2>2
<1> QED BY <1>7 DEF Good

-----------------------------------------------------------------------------
(* The messages of a run of events.                                        *)

\* A message is of the run of its event.
LEMMA MessageIsPair ==
  ASSUME NEW e \in Pairs
  PROVE  MessageOf(e) \in Pairs /\ MessageOf(e)[2] = e[2] /\ <<MessageOf(e)>> \in Seq(Pairs)
<1>1. e[2] \in Runs BY DEF Pairs
<1>2. MessageOf(e) \in Pairs
  <2> DEFINE w == CASE e[1] = "input" -> "U" [] e[1] = "text_end" -> "T" [] OTHER -> "K"
  <2>1. w \in Kinds
    <3>1. w = "U" \/ w = "T" \/ w = "K" OBVIOUS
    <3> HIDE DEF w
    <3> QED BY <3>1 DEF Kinds
  <2> QED BY <1>1, <2>1 DEF MessageOf, Pairs
<1>3. MessageOf(e)[2] = e[2] BY DEF MessageOf
<1> QED BY <1>2, <1>3

\* The messages are put together event by event.
LEMMA MessagesUpTo ==
  ASSUME NEW s \in Seq(Pairs)
  PROVE  LET part == [n \in 1..Len(s) |-> Adds(s, n)]
         IN Parts(part, Len(s)) /\ \E f : Joins(f, part, Len(s)) /\ f[Len(s)] = MessagesIn(s)
<1> DEFINE l == Len(s)
           part == [n \in 1..l |-> Adds(s, n)]
           Form(f) == f = [n \in 0..l |->
             IF n = 0 THEN <<>>
             ELSE IF /\ EndsMessage(s[n]) /\ Completes(s, n)
                     /\ ~\E j \in 1..(n - 1) : s[j] = s[n] /\ Completes(s, j)
                  THEN Append(f[n - 1], MessageOf(s[n]))
                  ELSE f[n - 1]]
           upTo == CHOOSE f : Form(f)
<1>1. l \in Nat BY LenProperties
<1>2. \A n \in 1..l : s[n] \in Pairs /\ MessageOf(s[n]) \in Pairs /\ <<MessageOf(s[n])>> \in Seq(Pairs)
  BY ElementOfSeq, MessageIsPair
<1>3. \A n \in 1..l : part[n] = Adds(s, n) OBVIOUS
<1>4. Parts(part, l)
  <2> SUFFICES ASSUME NEW n \in 1..l PROVE Adds(s, n) \in Seq(Pairs) BY DEF Parts
  <2>1. <<>> \in Seq(Pairs) BY EmptySeq
  <2> QED BY <1>2, <2>1 DEF Adds
<1> HIDE DEF part
<1>5. ASSUME NEW v \in Seq(Pairs), NEW n \in 1..l
      PROVE  v \o part[n] = IF New(s, n) THEN Append(v, MessageOf(s[n])) ELSE v
  <2>1. CASE New(s, n) BY <1>3, <2>1, <1>2, AppendIsConcat DEF Adds
  <2>2. CASE ~ New(s, n) BY <1>3, <2>2, ConcatEmptySeq DEF Adds
  <2> QED BY <2>1, <2>2
<1>6. PICK g : g = [n \in 0..l |-> g[n]] /\ Joins(g, part, l) BY <1>1, <1>4, JoinedExists
<1>7. \A n \in 0..l : g[n] \in Seq(Pairs) BY <1>1, <1>4, <1>6, JoinedTyped
<1>8. g[0] = <<>> /\ \A n \in 1..l : g[n] = IF New(s, n) THEN Append(g[n - 1], MessageOf(s[n])) ELSE g[n - 1]
  <2>1. g[0] = <<>> /\ \A n \in 1..l : g[n] = g[n - 1] \o part[n] BY <1>6 DEF Joins
  <2>2. \A n \in 1..l : g[n - 1] \in Seq(Pairs) BY <1>1, <1>7
  <2> QED BY <1>5, <2>1, <2>2
<1>9. Form(g)
  <2> DEFINE w == [n \in 0..l |->
             IF n = 0 THEN <<>>
             ELSE IF /\ EndsMessage(s[n]) /\ Completes(s, n)
                     /\ ~\E j \in 1..(n - 1) : s[j] = s[n] /\ Completes(s, j)
                  THEN Append(g[n - 1], MessageOf(s[n]))
                  ELSE g[n - 1]]
  <2>1. \A n \in 0..l : g[n] = w[n]
    <3> SUFFICES ASSUME NEW n \in 0..l PROVE g[n] = w[n] OBVIOUS
    <3>1. CASE n = 0 BY <1>8, <3>1
    <3>2. CASE n # 0
      <4>1. n \in 1..l BY <3>2
      <4>2. g[n] = IF New(s, n) THEN Append(g[n - 1], MessageOf(s[n])) ELSE g[n - 1] BY <1>8, <4>1
      <4>3. w[n] = IF New(s, n) THEN Append(g[n - 1], MessageOf(s[n])) ELSE g[n - 1]
        BY <3>2 DEF New
      <4> HIDE DEF w
      <4> QED BY <4>2, <4>3
    <3> QED BY <3>1, <3>2
  <2> HIDE DEF w
  <2>2. [n \in 0..l |-> g[n]] = [n \in 0..l |-> w[n]] BY <2>1
  <2>3. w = [n \in 0..l |-> w[n]] BY DEF w
  <2>4. g = w BY <1>6, <2>2, <2>3
  <2> QED BY <2>4 DEF w
<1>10. Form(upTo) BY <1>9
<1>11. MessagesIn(s) = upTo[l] BY DEF MessagesIn
<1> HIDE DEF upTo
<1>12. /\ upTo[0] = <<>>
       /\ \A n \in 1..l : upTo[n] = IF New(s, n) THEN Append(upTo[n - 1], MessageOf(s[n])) ELSE upTo[n - 1]
  <2>1. \A n \in 0..l : upTo[n] =
             IF n = 0 THEN <<>>
             ELSE IF /\ EndsMessage(s[n]) /\ Completes(s, n)
                     /\ ~\E j \in 1..(n - 1) : s[j] = s[n] /\ Completes(s, j)
                  THEN Append(upTo[n - 1], MessageOf(s[n]))
                  ELSE upTo[n - 1]
    BY <1>10
  <2>2. 0 \in 0..l /\ \A n \in 1..l : n \in 0..l /\ n # 0 BY <1>1
  <2>3. upTo[0] = <<>> BY <2>1, <2>2
  <2>4. ASSUME NEW n \in 1..l
        PROVE  upTo[n] = IF New(s, n) THEN Append(upTo[n - 1], MessageOf(s[n])) ELSE upTo[n - 1]
    BY <2>1, <2>2 DEF New
  <2> QED BY <2>3, <2>4
<1>13. \A n \in 0..l : upTo[n] = g[n]
  <2>1. \A n \in 1..l : g[n - 1] = upTo[n - 1] => g[n] = upTo[n] BY <1>8, <1>12
  <2>2. g[0] = upTo[0] BY <1>8, <1>12
  <2> QED BY <1>1, <2>1, <2>2, Agree
<1>14. g[l] = MessagesIn(s) BY <1>1, <1>11, <1>13
<1> QED BY <1>4, <1>6, <1>14 DEF part

\* Whether an event completes a new message depends on it and the events before it.
LEMMA SameNew ==
  ASSUME NEW s, NEW t, NEW l \in Nat, \A n \in 1..l : t[n] = s[n]
  PROVE  \A n \in 1..l : (New(t, n) <=> New(s, n)) /\ Adds(t, n) = Adds(s, n)
<1>1. ASSUME NEW n \in 1..l PROVE Completes(t, n) <=> Completes(s, n)
  <2>1. \A j \in 1..(n - 1) : t[j] = s[j] /\ \A k \in (j + 1)..(n - 1) : t[k] = s[k]
    <3> SUFFICES ASSUME NEW j \in 1..(n - 1) PROVE t[j] = s[j] /\ \A k \in (j + 1)..(n - 1) : t[k] = s[k] OBVIOUS
    <3>1. j \in 1..l /\ \A k \in (j + 1)..(n - 1) : k \in 1..l OBVIOUS
    <3> QED BY <3>1
  <2>2. t[n] = s[n] OBVIOUS
  <2> QED BY <2>1, <2>2 DEF Completes
<1>2. ASSUME NEW n \in 1..l PROVE New(t, n) <=> New(s, n) BY <1>1 DEF New
<1> QED BY <1>2 DEF Adds

\* The messages of a run of events, and of it with more events behind it, event by event.
LEMMA MessagesOn ==
  ASSUME NEW s \in Seq(Pairs), NEW u \in Seq(Pairs)
  PROVE  \E f : /\ f[0] = MessagesIn(s) /\ f[Len(u)] = MessagesIn(s \o u)
                /\ \A i \in 0..Len(u) : f[i] \in Seq(Pairs)
                /\ \A i \in 1..Len(u) : f[i] = f[i - 1] \o Adds(s \o u, Len(s) + i)
<1> DEFINE t == s \o u
           a == Len(s)
           b == Len(u)
           ps == [n \in 1..a |-> Adds(s, n)]
           pt == [n \in 1..Len(t) |-> Adds(t, n)]
<1>1. a \in Nat /\ b \in Nat BY LenProperties
<1>2. /\ t \in Seq(Pairs) /\ Len(t) = a + b /\ \A n \in 1..a : t[n] = s[n]
  BY <1>1, ConcatProperties
<1>3. PICK g : Parts(pt, Len(t)) /\ Joins(g, pt, Len(t)) /\ g[Len(t)] = MessagesIn(t) BY <1>2, MessagesUpTo
<1>4. PICK f : Joins(f, ps, a) /\ f[a] = MessagesIn(s) BY MessagesUpTo
<1>5. \A n \in 1..a : Adds(t, n) = Adds(s, n) BY <1>1, <1>2, SameNew
<1>6. \A n \in 1..(a + b) : pt[n] = Adds(t, n) BY <1>2
<1>7. \A n \in 1..a : ps[n] = Adds(s, n) /\ n \in 1..(a + b) BY <1>1
<1> HIDE DEF ps, pt
<1>8. \A n \in 1..a : f[n - 1] = g[n - 1] => f[n] = g[n]
  BY ZenonT(30), <1>2, <1>3, <1>4, <1>5, <1>6, <1>7 DEF Joins
<1>9. f[0] = g[0] BY <1>3, <1>4 DEF Joins
<1>10. g[a] = MessagesIn(s)
  <2>1. \A n \in 0..a : f[n] = g[n] BY <1>1, <1>8, <1>9, Agree
  <2>2. a \in 0..a BY <1>1
  <2> QED BY <1>4, <2>1, <2>2
<1>11. \A n \in 0..Len(t) : g[n] \in Seq(Pairs) BY <1>1, <1>2, <1>3, JoinedTyped
<1> DEFINE w == [i \in 0..b |-> g[a + i]]
<1>12. w[0] = MessagesIn(s) /\ w[b] = MessagesIn(t) BY <1>1, <1>2, <1>3, <1>10
<1>13. \A i \in 0..b : w[i] \in Seq(Pairs) BY <1>1, <1>2, <1>11
<1>14. ASSUME NEW i \in 1..b PROVE w[i] = w[i - 1] \o Adds(t, a + i)
  <2> DEFINE n == a + i
  <2>1. n \in 1..(a + b) /\ i - 1 \in 0..b /\ i \in 0..b BY <1>1
  <2>2. w[i] = g[n] BY <2>1
  <2>3. w[i - 1] = g[n - 1] BY <2>1, <1>1
  <2> HIDE DEF n, w
  <2>4. g[n] = g[n - 1] \o pt[n] BY <1>2, <1>3, <2>1 DEF Joins
  <2>5. pt[n] = Adds(t, n) BY <1>6, <2>1
  <2> QED BY <2>2, <2>3, <2>4, <2>5 DEF n
<1> HIDE DEF w
<1> QED BY <1>12, <1>13, <1>14

\* Three sequences one behind the other.
LEMMA JoinThree ==
  ASSUME NEW a \in Seq(Pairs), NEW b \in Seq(Pairs), NEW c \in Seq(Pairs)
  PROVE  (a \o b) \o c = a \o (b \o c)
BY ConcatAssociative

\* What comes behind takes no message away.
LEMMA MessagesGrow ==
  ASSUME NEW s \in Seq(Pairs), NEW u \in Seq(Pairs)
  PROVE  /\ MessagesIn(s) \in Seq(Pairs)
         /\ \E v \in Seq(Pairs) : MessagesIn(s \o u) = MessagesIn(s) \o v
<1>1. PICK f : /\ f[0] = MessagesIn(s) /\ f[Len(u)] = MessagesIn(s \o u)
               /\ \A i \in 0..Len(u) : f[i] \in Seq(Pairs)
               /\ \A i \in 1..Len(u) : f[i] = f[i - 1] \o Adds(s \o u, Len(s) + i)
  BY MessagesOn
<1> DEFINE b == Len(u)
           S == {i \in 0..b : \E v \in Seq(Pairs) : f[i] = f[0] \o v}
<1>2. b \in Nat /\ 0 \in 0..b /\ b \in 0..b BY LenProperties
<1>3. f[0] \in Seq(Pairs) BY <1>1, <1>2
<1>4. 0 \in S BY <1>3, ConcatEmptySeq, EmptySeq, <1>2
<1>5. \A i \in 1..b : Adds(s \o u, Len(s) + i) \in Seq(Pairs)
  <2> SUFFICES ASSUME NEW i \in 1..b PROVE Adds(s \o u, Len(s) + i) \in Seq(Pairs) OBVIOUS
  <2>1. Len(s) \in Nat /\ s \o u \in Seq(Pairs) /\ Len(s \o u) = Len(s) + b BY LenProperties, ConcatProperties
  <2>2. Len(s) + i \in 1..Len(s \o u) BY <1>2, <2>1
  <2>3. (s \o u)[Len(s) + i] \in Pairs BY <2>1, <2>2, ElementOfSeq
  <2>4. <<>> \in Seq(Pairs) BY EmptySeq
  <2> QED BY <2>3, <2>4, MessageIsPair DEF Adds
<1>6. ASSUME NEW i \in 0..(b - 1), i \in S PROVE i + 1 \in S
  <2> SUFFICES ASSUME NEW j, j = i + 1 PROVE j \in S OBVIOUS
  <2>1. j \in 1..b /\ j \in 0..b /\ j - 1 = i BY <1>2
  <2>2. PICK v \in Seq(Pairs) : f[i] = f[0] \o v BY <1>6
  <2> DEFINE p == Adds(s \o u, Len(s) + j)
  <2>3. f[j] = f[i] \o p /\ p \in Seq(Pairs) BY <1>1, <1>5, <2>1
  <2> HIDE DEF p
  <2>4. f[j] = f[0] \o (v \o p)
    <3>1. f[0] \in Seq(Pairs) /\ p \in Seq(Pairs) BY <1>3, <2>3
    <3>2. (f[0] \o v) \o p = f[0] \o (v \o p) BY <3>1, JoinThree
    <3>3. f[j] = (f[0] \o v) \o p BY <2>2, <2>3
    <3> QED BY <3>1, <3>2, <3>3
  <2>5. v \o p \in Seq(Pairs) BY <2>3, ConcatProperties
  <2> QED BY <2>1, <2>4, <2>5
<1> HIDE DEF S
<1>7. \A i \in 0..b : i \in S BY <1>2, <1>4, <1>6, UpTo
<1>8. \E v \in Seq(Pairs) : f[b] = f[0] \o v BY <1>2, <1>7 DEF S
<1> QED BY <1>1, <1>3, <1>8

\* Events that complete nothing new leave the messages as they are.
LEMMA MessagesStay ==
  ASSUME NEW s \in Seq(Pairs), NEW u \in Seq(Pairs), \A i \in 1..Len(u) : ~ New(s \o u, Len(s) + i)
  PROVE  MessagesIn(s \o u) = MessagesIn(s)
<1>1. PICK f : /\ f[0] = MessagesIn(s) /\ f[Len(u)] = MessagesIn(s \o u)
               /\ \A i \in 0..Len(u) : f[i] \in Seq(Pairs)
               /\ \A i \in 1..Len(u) : f[i] = f[i - 1] \o Adds(s \o u, Len(s) + i)
  BY MessagesOn
<1> DEFINE b == Len(u)
<1>2. b \in Nat /\ \A i \in 1..b : i - 1 \in 0..b BY LenProperties
<1>3. ASSUME NEW i \in 1..b PROVE f[i] = f[i - 1] BY <1>1, <1>2, ConcatEmptySeq DEF Adds
<1>4. f[b] = f[0]
  <2>1. 0 \in Nat /\ 0 <= b /\ \A i \in (0 + 1)..b : i \in 1..b BY <1>2
  <2>2. \A i \in (0 + 1)..b : f[i] = f[i - 1] BY <1>3, <2>1
  <2> HIDE DEF b
  <2> QED BY <1>2, <2>1, <2>2, Constant
<1> QED BY <1>1, <1>4

\* One event that does adds its message.
LEMMA MessagesMore ==
  ASSUME NEW s \in Seq(Pairs), NEW u \in Seq(Pairs), NEW o \in 1..Len(u), New(s \o u, Len(s) + o),
         \A i \in 1..Len(u) : i # o => ~ New(s \o u, Len(s) + i)
  PROVE  MessagesIn(s \o u) = MessagesIn(s) \o <<MessageOf(u[o])>>
<1>1. PICK f : /\ f[0] = MessagesIn(s) /\ f[Len(u)] = MessagesIn(s \o u)
               /\ \A i \in 0..Len(u) : f[i] \in Seq(Pairs)
               /\ \A i \in 1..Len(u) : f[i] = f[i - 1] \o Adds(s \o u, Len(s) + i)
  BY MessagesOn
<1> DEFINE b == Len(u)
<1>2. b \in Nat /\ o \in Nat /\ o - 1 \in Nat /\ Len(s) \in Nat /\ \A i \in 1..b : i - 1 \in 0..b BY LenProperties
<1>3. ASSUME NEW i \in 1..b, i # o PROVE f[i] = f[i - 1] BY <1>3, <1>1, <1>2, ConcatEmptySeq DEF Adds
<1> HIDE DEF b
<1>4. f[o - 1] = f[0]
  <2>1. 0 \in Nat /\ 0 <= o - 1 /\ \A i \in (0 + 1)..(o - 1) : i \in 1..b /\ i # o BY <1>2 DEF b
  <2>2. \A i \in (0 + 1)..(o - 1) : f[i] = f[i - 1] BY <1>3, <2>1
  <2> DEFINE m == o - 1
  <2>3. m \in Nat /\ 0 <= m /\ \A i \in (0 + 1)..m : f[i] = f[i - 1] BY <1>2, <2>1, <2>2
  <2> HIDE DEF m
  <2>4. f[m] = f[0] BY <2>3, Constant
  <2> QED BY <2>4 DEF m
<1>5. f[b] = f[o] BY <1>2, <1>3, Constant DEF b
<1>6. f[o] = f[o - 1] \o <<MessageOf((s \o u)[Len(s) + o])>> BY <1>1 DEF Adds
<1>7. (s \o u)[Len(s) + o] = u[o] BY <1>2, ConcatProperties DEF b
<1> QED BY <1>1, <1>4, <1>5, <1>6, <1>7 DEF b

\* Every message is that of an event.
LEMMA MessagesFrom ==
  ASSUME NEW s \in Seq(Pairs)
  PROVE  /\ MessagesIn(s) \in Seq(Pairs)
         /\ \A q \in 1..Len(MessagesIn(s)) : \E n \in 1..Len(s) :
              EndsMessage(s[n]) /\ MessageOf(s[n]) = MessagesIn(s)[q]
<1> DEFINE l == Len(s)
           part == [n \in 1..l |-> Adds(s, n)]
           Of(v) == \A q \in 1..Len(v) : \E n \in 1..l : EndsMessage(s[n]) /\ MessageOf(s[n]) = v[q]
<1>1. PICK f : Parts(part, l) /\ Joins(f, part, l) /\ f[l] = MessagesIn(s) BY MessagesUpTo
<1>2. l \in Nat BY LenProperties
<1>3. \A n \in 1..l : part[n] = Adds(s, n) OBVIOUS
<1> HIDE DEF part, l
<1>4. \A n \in 0..l : f[n] \in Seq(Pairs) BY <1>1, <1>2, JoinedTyped
<1> DEFINE S == {n \in 0..l : Of(f[n])}
<1>5. 0 \in S BY <1>1, EmptySeq, <1>2 DEF Joins
<1>6. ASSUME NEW i \in 0..(l - 1), i \in S PROVE i + 1 \in S
  <2> SUFFICES ASSUME NEW j, j = i + 1 PROVE j \in S OBVIOUS
  <2>1. j \in 1..l /\ j \in 0..l /\ i \in 0..l /\ i + 1 = j BY <1>2
  <2>2. f[j] = f[i] \o Adds(s, j)
    <3>1. part[j] = Adds(s, j) /\ j - 1 = i BY <1>3, <2>1
    <3>2. f[j] = f[j - 1] \o part[j] BY <1>1, <2>1 DEF Joins
    <3> QED BY <3>1, <3>2
  <2>3. Of(f[i]) /\ f[i] \in Seq(Pairs) BY <1>4, <1>6, <2>1
  <2>4. CASE New(s, j)
    <3> DEFINE x == MessageOf(s[j])
    <3>1. f[j] = f[i] \o <<x>> BY <2>2, <2>4 DEF Adds
    <3>2. <<x>> \in Seq({x}) /\ Len(<<x>>) = 1 /\ <<x>>[1] = x OBVIOUS
    <3>3. <<x>> \in Seq(Pairs) BY <1>3, <2>1, <2>4, <1>1 DEF Adds, Parts
    <3>4. EndsMessage(s[j]) BY <2>4 DEF New
    <3> HIDE DEF x
    <3>5. /\ Len(f[j]) = Len(f[i]) + 1 /\ Len(f[i]) \in Nat
          /\ \A q \in 1..(Len(f[i]) + 1) : f[j][q] = IF q <= Len(f[i]) THEN f[i][q] ELSE <<x>>[q - Len(f[i])]
      BY <2>3, <3>1, <3>2, <3>3, ConcatProperties, LenProperties
    <3>6. ASSUME NEW q \in 1..Len(f[j]) PROVE \E n \in 1..l : EndsMessage(s[n]) /\ MessageOf(s[n]) = f[j][q]
      <4>1. CASE q <= Len(f[i]) BY <3>5, <4>1, <2>3
      <4>2. CASE ~ (q <= Len(f[i])) BY <3>5, <4>2, <3>2, <2>1, <3>4 DEF x
      <4> QED BY <4>1, <4>2
    <3> QED BY <2>1, <3>6
  <2>5. CASE ~ New(s, j) BY <2>2, <2>5, <2>3, ConcatEmptySeq, <2>1 DEF Adds
  <2> QED BY <2>4, <2>5
<1> HIDE DEF S
<1>7. \A n \in 0..l : n \in S BY <1>2, <1>5, <1>6, UpTo
<1>8. l \in 0..l BY <1>2
<1>9. Of(f[l]) /\ f[l] \in Seq(Pairs) BY <1>4, <1>7, <1>8 DEF S
<1> QED BY <1>1, <1>9 DEF l

-----------------------------------------------------------------------------
(* The messages of a history, record by record.                            *)

\* What the elements of a history are.
LEMMA RecordFacts ==
  ASSUME NEW h \in Seq(Records), NEW k \in 1..Len(h)
  PROVE  /\ h[k] \in Records /\ h[k].events \in Seq(Pairs) /\ Len(h[k].events) \in Nat
         /\ \A e : Has(h[k], e) => e \in Pairs
         /\ Len(h) \in Nat /\ k \in Nat
<1>1. h[k] \in Records BY ElementOfSeq
<1>2. h[k].events \in Seq(Pairs) BY <1>1 DEF Records
<1>3. \A e : Has(h[k], e) => e \in Pairs BY <1>2, ElementOfSeq DEF Has
<1> QED BY <1>1, <1>2, <1>3, LenProperties

\* An event is its type and its run.
LEMMA PairIs ==
  ASSUME NEW e \in Pairs
  PROVE  e = Says(e[1], e[2]) /\ e[2] \in Runs /\ e[1] \in Kinds
BY DEF Pairs, Says

\* What an event that completes a message starts with.
LEMMA StartsIs ==
  ASSUME NEW e
  PROVE  /\ e[1] = "text_end" => Starts(Says("text", e[2]), e)
         /\ e[1] = "result" => Starts(Says("call", e[2]), e)
BY DEF Says, Starts

\* The messages of the events of a run with those of a record.
LEMMA PartJoined ==
  ASSUME NEW h \in Seq(Records), NEW k \in 1..Len(h), Visible(h, k)
  PROVE  LET s == VisibleEvents(h, k - 1)
             u == h[k].events
         IN /\ s \in Seq(Pairs) /\ u \in Seq(Pairs) /\ VisibleEvents(h, k) = s \o u
            /\ Len(s) \in Nat /\ Len(u) \in Nat
            /\ \A i \in 1..Len(s) : (s \o u)[i] = s[i]
            /\ \A i \in 1..Len(u) : (s \o u)[Len(s) + i] = u[i]
            /\ \A i \in 1..Len(s) : \E l \in 1..(k - 1) : Visible(h, l) /\ Has(h[l], s[i])
            /\ s \o u \in Seq(Pairs) /\ Len(s \o u) = Len(s) + Len(u)
<1> DEFINE s == VisibleEvents(h, k - 1)
           u == h[k].events
<1>1. Len(h) \in Nat /\ k - 1 \in 0..Len(h) BY LenProperties
<1>2. u \in Seq(Pairs) BY RecordFacts
<1>3. s \in Seq(Pairs) /\ VisibleEvents(h, k) = s \o u BY <1>1, VisibleStep DEF Part
<1>4. \A i \in 1..Len(s) : \E l \in 1..(k - 1) : Visible(h, l) /\ Has(h[l], s[i]) BY <1>1, VisibleFrom
<1> HIDE DEF s, u
<1>5. /\ Len(s) \in Nat /\ Len(u) \in Nat /\ s \o u \in Seq(Pairs) /\ Len(s \o u) = Len(s) + Len(u)
      /\ \A i \in 1..(Len(s) + Len(u)) : (s \o u)[i] = IF i <= Len(s) THEN s[i] ELSE u[i - Len(s)]
  BY <1>2, <1>3, ConcatProperties, LenProperties
<1>6. \A i \in 1..Len(s) : i \in 1..(Len(s) + Len(u)) /\ i <= Len(s) BY <1>5
<1>7. \A i \in 1..Len(u) : /\ Len(s) + i \in 1..(Len(s) + Len(u)) /\ ~ (Len(s) + i <= Len(s))
                           /\ Len(s) + i - Len(s) = i
  BY <1>5
<1>8. \A i \in 1..Len(s) : (s \o u)[i] = s[i] BY <1>5, <1>6
<1>9. \A i \in 1..Len(u) : (s \o u)[Len(s) + i] = u[i] BY <1>5, <1>7
<1> QED BY <1>2, <1>3, <1>4, <1>5, <1>8, <1>9 DEF s, u

\* An event that completes a message is not among the events before it.
LEMMA OnlyOnce ==
  ASSUME NEW h, Plain(h), NEW k \in 1..Len(h), Visible(h, k),
         NEW o \in 1..Len(h[k].events), EndsMessage(h[k].events[o])
  PROVE  LET s == VisibleEvents(h, k - 1)
             u == h[k].events
         IN \A q \in 1..(Len(s) + o - 1) : (s \o u)[q] # u[o]
<1> DEFINE s == VisibleEvents(h, k - 1)
           u == h[k].events
<1>1. h \in Seq(Records) /\ RecordInv(h[k]) /\ Distinct(h) BY DEF Plain
<1>2. /\ s \in Seq(Pairs) /\ u \in Seq(Pairs) /\ Len(s) \in Nat /\ Len(u) \in Nat
      /\ \A i \in 1..Len(s) : (s \o u)[i] = s[i]
      /\ \A i \in 1..Len(u) : (s \o u)[Len(s) + i] = u[i]
      /\ \A i \in 1..Len(s) : \E l \in 1..(k - 1) : Visible(h, l) /\ Has(h[l], s[i])
  BY <1>1, PartJoined
<1>3. \A i, j \in 1..Len(u) : EndsMessage(u[i]) /\ EndsMessage(u[j]) => i = j BY <1>1 DEF RecordInv
<1>4. EndsMessage(u[o]) /\ o \in 1..Len(u) /\ Has(h[k], u[o]) BY DEF Has
<1>5. u[o] \in Pairs BY <1>1, <1>4, RecordFacts
<1>6. \A l \in 1..(k - 1) : l \in 1..Len(h) /\ l # k BY <1>1, LenProperties
<1> HIDE DEF s, u
<1>7. ASSUME NEW q \in 1..(Len(s) + o - 1), (s \o u)[q] = u[o] PROVE FALSE
  <2>1. CASE q <= Len(s)
    <3>1. q \in 1..Len(s) BY <2>1
    <3>2. PICK l \in 1..(k - 1) : Has(h[l], u[o]) BY <1>2, <1>7, <3>1
    <3>3. l = k BY <1>1, <1>4, <1>5, <1>6, <3>2 DEF Distinct
    <3> QED BY <1>6, <3>3
  <2>2. CASE ~ (q <= Len(s))
    <3> DEFINE i == q - Len(s)
    <3>1. i \in 1..Len(u) /\ Len(s) + i = q /\ i # o BY <1>2, <1>4, <2>2
    <3>2. (s \o u)[Len(s) + i] = u[i] BY <1>2, <3>1
    <3>3. u[i] = u[o] BY <1>7, <3>1, <3>2
    <3> HIDE DEF i
    <3> QED BY <1>3, <1>4, <3>1, <3>3
  <2> QED BY <2>1, <2>2
<1> QED BY <1>7 DEF s, u

\* A record that completes a message adds it.
LEMMA YieldAdds ==
  ASSUME NEW h, Plain(h), NEW k \in 1..Len(h), NEW e, Yields(h, k, e)
  PROVE  Messages(h, k) = Messages(h, k - 1) \o <<MessageOf(e)>>
<1> DEFINE s == VisibleEvents(h, k - 1)
           u == h[k].events
           t == s \o u
<1>1. h \in Seq(Records) /\ RecordInv(h[k]) /\ Distinct(h) /\ Visible(h, k) BY DEF Plain, Yields
<1>2. /\ s \in Seq(Pairs) /\ u \in Seq(Pairs) /\ VisibleEvents(h, k) = t
      /\ Len(s) \in Nat /\ Len(u) \in Nat
      /\ \A i \in 1..Len(s) : t[i] = s[i]
      /\ \A i \in 1..Len(u) : t[Len(s) + i] = u[i]
  BY <1>1, PartJoined
<1>3. PICK o \in 1..Len(u) : u[o] = e BY DEF Yields, Has
<1>4. EndsMessage(u[o]) /\ u[o] \in Pairs BY <1>2, <1>3, ElementOfSeq DEF Yields
<1>5. \A q \in 1..(Len(s) + o - 1) : t[q] # u[o] BY <1>1, <1>4, OnlyOnce
<1>6. \A i, j \in 1..Len(u) : EndsMessage(u[i]) /\ EndsMessage(u[j]) => i = j BY <1>1 DEF RecordInv
<1>7. /\ u[o][1] = "text_end" => \E j \in 1..(o - 1) : u[j] = Says("text", u[o][2])
      /\ u[o][1] = "result" => \E i \in 1..Len(s) : s[i] = Says("call", u[o][2])
  <2>1. u[o][1] = "text_end" => \E j \in 1..(o - 1) : u[j] = Says("text", u[o][2]) BY <1>1 DEF RecordInv
  <2>2. ASSUME u[o][1] = "result" PROVE \E i \in 1..Len(s) : s[i] = Says("call", u[o][2])
    <3>1. PICK l \in 1..(k - 1) : Visible(h, l) /\ Has(h[l], Says("call", u[o][2]))
      BY <1>3, <2>2 DEF Yields
    <3>2. l \in 1..Len(h) /\ k - 1 \in l..Len(h) BY <1>1, LenProperties
    <3> QED BY <1>1, <3>1, <3>2, VisibleHas
  <2> QED BY <2>1, <2>2
<1> DEFINE p == Len(s) + o
<1>8. p \in Nat /\ t[p] = u[o] BY <1>2
<1>9. Completes(t, p)
  <2>1. \A j \in 1..(p - 1) : \A q \in (j + 1)..(p - 1) : t[q] # t[p]
    <3> SUFFICES ASSUME NEW j \in 1..(p - 1), NEW q \in (j + 1)..(p - 1) PROVE t[q] # t[p] OBVIOUS
    <3>1. q \in 1..(Len(s) + o - 1) BY <1>2
    <3> QED BY <1>5, <1>8, <3>1
  <2>2. CASE u[o][1] = "input" BY <1>8, <2>2 DEF Completes
  <2>3. CASE u[o][1] = "text_end"
    <3>1. PICK j \in 1..(o - 1) : u[j] = Says("text", u[o][2]) BY <1>7, <2>3
    <3> DEFINE i == Len(s) + j
    <3>2. j \in 1..Len(u) /\ i \in 1..(p - 1) BY <1>2
    <3>3. t[i] = Says("text", u[o][2]) BY <1>2, <3>1, <3>2
    <3>4. Starts(t[i], t[p]) BY <1>8, <2>3, <3>3, StartsIs
    <3> HIDE DEF i, p, t
    <3> QED BY <2>1, <3>2, <3>4 DEF Completes
  <2>4. CASE u[o][1] = "result"
    <3>1. PICK i \in 1..Len(s) : s[i] = Says("call", u[o][2]) BY <1>7, <2>4
    <3>2. i \in 1..(p - 1) BY <1>2
    <3>3. t[i] = Says("call", u[o][2]) BY <1>2, <3>1
    <3>4. Starts(t[i], t[p]) BY <1>8, <2>4, <3>3, StartsIs
    <3> HIDE DEF p, t
    <3> QED BY <2>1, <3>2, <3>4 DEF Completes
  <2> QED BY <1>4, <2>2, <2>3, <2>4 DEF EndsMessage
<1>10. New(t, p)
  <2>1. \A j \in 1..(p - 1) : t[j] # t[p]
    <3>1. p - 1 = Len(s) + o - 1 BY <1>2
    <3> QED BY <1>5, <1>8, <3>1
  <2> HIDE DEF p, t
  <2> QED BY <1>4, <1>8, <1>9, <2>1 DEF New
<1>11. \A i \in 1..Len(u) : i # o => ~ New(t, Len(s) + i)
  BY <1>2, <1>4, <1>6 DEF New
<1> HIDE DEF s, u
<1>12. MessagesIn(t) = MessagesIn(s) \o <<MessageOf(u[o])>> BY <1>2, <1>10, <1>11, MessagesMore
<1> QED BY <1>2, <1>3, <1>12 DEF Messages, s, u

\* One that completes none adds none.
LEMMA SilentAdds ==
  ASSUME NEW h, Plain(h), NEW k \in 1..Len(h), \A e : ~ Yields(h, k, e)
  PROVE  Messages(h, k) = Messages(h, k - 1)
<1>1. h \in Seq(Records) /\ RecordInv(h[k]) BY DEF Plain
<1>2. CASE ~ Visible(h, k)
  <2>1. Part(h, k) = <<>> BY <1>2 DEF Part
  <2>2. k - 1 \in 0..Len(h) BY <1>1, LenProperties
  <2>3. VisibleEvents(h, k) = VisibleEvents(h, k - 1) \o <<>> /\ VisibleEvents(h, k - 1) \in Seq(Pairs)
    BY <1>1, <2>1, <2>2, VisibleStep
  <2>4. VisibleEvents(h, k) = VisibleEvents(h, k - 1) BY <2>3, ConcatEmptySeq
  <2> QED BY <2>4 DEF Messages
<1>3. CASE Visible(h, k)
  <2> DEFINE s == VisibleEvents(h, k - 1)
             u == h[k].events
             t == s \o u
  <2>1. /\ s \in Seq(Pairs) /\ u \in Seq(Pairs) /\ VisibleEvents(h, k) = t
        /\ Len(s) \in Nat /\ Len(u) \in Nat /\ t \in Seq(Pairs) /\ Len(t) = Len(s) + Len(u)
        /\ \A i \in 1..Len(s) : t[i] = s[i]
        /\ \A i \in 1..Len(u) : t[Len(s) + i] = u[i]
        /\ \A i \in 1..Len(s) : \E l \in 1..(k - 1) : Visible(h, l) /\ Has(h[l], s[i])
    BY <1>1, <1>3, PartJoined
  <2>2. ASSUME NEW o \in 1..Len(u), New(t, Len(s) + o) PROVE FALSE
    <3> DEFINE p == Len(s) + o
               e == u[o]
    <3>1. t[p] = e /\ EndsMessage(e) /\ Completes(t, p) BY <2>1, <2>2 DEF New
    <3>2. Has(h[k], e) BY DEF Has
    <3>3. e[1] = "result" => \E l \in 1..(k - 1) : Visible(h, l) /\ Has(h[l], Says("call", e[2]))
      <4> SUFFICES ASSUME e[1] = "result"
                   PROVE \E l \in 1..(k - 1) : Visible(h, l) /\ Has(h[l], Says("call", e[2]))
        OBVIOUS
      <4>1. PICK j \in 1..(p - 1) : Starts(t[j], e) BY <3>1 DEF Completes
      <4>2. t[j][2] = e[2] /\ t[j][1] = "call" BY <4>1 DEF Starts
      <4>3. p \in Nat /\ j \in 1..Len(t) /\ (~ (j <= Len(s)) => j - Len(s) \in 1..Len(u) /\ Len(s) + (j - Len(s)) = j)
        <5>1. Len(s) \in Nat /\ Len(u) \in Nat /\ Len(t) = Len(s) + Len(u) BY <2>1
        <5> HIDE DEF s, u, t
        <5> QED BY <5>1
      <4>4. t[j] \in Pairs BY <2>1, <4>3, ElementOfSeq
      <4>5. t[j] = Says("call", e[2]) BY <4>2, <4>4, PairIs
      <4>6. CASE j <= Len(s) BY <4>6, <2>1, <4>5
      <4>7. CASE ~ (j <= Len(s))
        <5> DEFINE i == j - Len(s)
        <5>1. i \in 1..Len(u) /\ Len(s) + i = j BY <4>3, <4>7
        <5>2. t[Len(s) + i] = u[i] BY <2>1, <5>1
        <5>3. u[i][1] = "call" BY <4>2, <5>1, <5>2
        <5> HIDE DEF i
        <5>4. u[o][1] \notin {"text_end", "result"} BY <1>1, <5>1, <5>3 DEF RecordInv
        <5> QED BY <5>4
      <4> QED BY <4>6, <4>7
    <3>4. Yields(h, k, e) BY <1>3, <3>1, <3>2, <3>3 DEF Yields
    <3> QED BY <3>4
  <2> HIDE DEF s, u
  <2>3. MessagesIn(t) = MessagesIn(s) BY <2>1, <2>2, MessagesStay
  <2> QED BY <2>1, <2>3 DEF Messages, s, u
<1> QED BY <1>2, <1>3

-----------------------------------------------------------------------------
(* One sequence at the start of another.                                   *)

\* What is put behind a sequence leaves it at the start.
LEMMA BeginsJoined ==
  ASSUME NEW p \in Seq(Pairs), NEW v \in Seq(Pairs)
  PROVE  Begins(p, p \o v) /\ p \o v \in Seq(Pairs)
BY ConcatProperties, LenProperties DEF Begins

\* The start of the start.
LEMMA BeginsOn ==
  ASSUME NEW p \in Seq(Pairs), NEW s \in Seq(Pairs), NEW t \in Seq(Pairs), Begins(p, s), Begins(s, t)
  PROVE  Begins(p, t)
BY LenProperties DEF Begins

\* Of two starts the shorter is the start of the longer.
LEMMA BeginsShorter ==
  ASSUME NEW p \in Seq(Pairs), NEW s \in Seq(Pairs), NEW t \in Seq(Pairs), Begins(p, t), Begins(s, t),
         Len(p) <= Len(s)
  PROVE  Begins(p, s)
BY LenProperties DEF Begins

\* A start of the whole length is the whole.
LEMMA BeginsAll ==
  ASSUME NEW p \in Seq(Pairs), NEW s \in Seq(Pairs), Begins(p, s), Len(s) <= Len(p)
  PROVE  p = s
BY LenProperties, SeqEqual DEF Begins

\* A start, for the library.
LEMMA BeginsIsPrefix ==
  ASSUME NEW p \in Seq(Pairs), NEW s \in Seq(Pairs), Begins(p, s)
  PROVE  IsPrefix(p, s)
BY LenProperties, SeqIsRow, RowCut DEF Begins, Row, IsPrefix

-----------------------------------------------------------------------------
(* The messages of the first records of a history.                         *)

\* The messages are a sequence of them, and there are none without a record.
LEMMA MessagesTyped ==
  ASSUME NEW h \in Seq(Records)
  PROVE  Messages(h, 0) = <<>> /\ \A n \in 0..Len(h) : Messages(h, n) \in Seq(Pairs)
<1>1. VisibleEvents(h, 0) = <<>> /\ \A n \in 0..Len(h) : VisibleEvents(h, n) \in Seq(Pairs) BY VisibleStep
<1>2. \A n \in 0..Len(h) : Messages(h, n) \in Seq(Pairs) BY <1>1, MessagesFrom DEF Messages
<1>3. Messages(h, 0) = <<>>
  <2> DEFINE s == VisibleEvents(h, 0)
             m == MessagesIn(s)
  <2>0. Len(h) \in Nat /\ 0 \in 0..Len(h) BY LenProperties
  <2>1. s \in Seq(Pairs) /\ Len(s) = 0 BY <1>1, <2>0, EmptySeq
  <2> HIDE DEF s
  <2>2. m \in Seq(Pairs) /\ \A q \in 1..Len(m) : \E n \in 1..Len(s) : EndsMessage(s[n]) /\ MessageOf(s[n]) = m[q]
    BY <2>1, MessagesFrom
  <2>3. \A n \in 1..Len(s) : FALSE BY <2>1
  <2>4. \A q \in 1..Len(m) : FALSE BY <2>2, <2>3
  <2>5. Len(m) = 0
    <3> HIDE DEF m
    <3>1. Len(m) \in Nat BY <2>2, LenProperties
    <3> QED BY <2>4, <3>1
  <2> HIDE DEF m
  <2>6. m = <<>> BY <2>2, <2>5, EmptySeq
  <2> QED BY <2>6 DEF m, s, Messages
<1> QED BY <1>2, <1>3

\* More records take no message away.
LEMMA MessagesPrefix ==
  ASSUME NEW h \in Seq(Records), NEW k \in 0..Len(h)
  PROVE  \A n \in k..Len(h) : Begins(Messages(h, k), Messages(h, n))
<1> DEFINE Good(n) == Begins(Messages(h, k), Messages(h, n))
           l == Len(h) - k
           S == {i \in 0..l : Good(k + i)}
<1>1. Len(h) \in Nat /\ l \in Nat /\ k \in Nat BY LenProperties
<1>2. \A n \in 0..Len(h) : Messages(h, n) \in Seq(Pairs) BY MessagesTyped
<1>3. ASSUME NEW n \in 1..Len(h) PROVE Begins(Messages(h, n - 1), Messages(h, n))
  <2>1. n - 1 \in 0..Len(h) /\ n \in 0..Len(h) BY <1>1
  <2>2. /\ VisibleEvents(h, n) = VisibleEvents(h, n - 1) \o Part(h, n) /\ Part(h, n) \in Seq(Pairs)
        /\ VisibleEvents(h, n - 1) \in Seq(Pairs)
    BY <2>1, VisibleStep
  <2> DEFINE s == VisibleEvents(h, n - 1)
             u == Part(h, n)
  <2>5. s \in Seq(Pairs) /\ u \in Seq(Pairs) BY <2>2
  <2>6. Messages(h, n - 1) = MessagesIn(s) /\ Messages(h, n) = MessagesIn(s \o u) BY <2>2 DEF Messages
  <2> HIDE DEF s, u
  <2>7. \E v \in Seq(Pairs) : MessagesIn(s \o u) = MessagesIn(s) \o v BY <2>5, MessagesGrow
  <2>3. PICK v \in Seq(Pairs) : Messages(h, n) = Messages(h, n - 1) \o v BY <2>6, <2>7
  <2>4. Messages(h, n - 1) \in Seq(Pairs) BY <1>2, <2>1
  <2> QED BY <2>3, <2>4, BeginsJoined
<1>4. 0 \in S BY <1>1, <1>2, LenProperties DEF Begins
<1>5. ASSUME NEW i \in 0..(l - 1), i \in S PROVE i + 1 \in S
  <2> DEFINE n == k + i + 1
  <2>1. n \in 1..Len(h) /\ n - 1 = k + i /\ i + 1 \in 0..l /\ k + (i + 1) = n /\ n \in 0..Len(h) /\ n - 1 \in 0..Len(h)
    BY <1>1
  <2>2. Good(n - 1) BY <1>5, <2>1
  <2> HIDE DEF n
  <2>3. Good(n) BY <1>2, <1>3, <2>1, <2>2, BeginsOn
  <2> QED BY <2>1, <2>3
<1> HIDE DEF S
<1>6. \A i \in 0..l : i \in S BY <1>1, <1>4, <1>5, UpTo
<1>7. ASSUME NEW n \in k..Len(h) PROVE Good(n)
  <2>1. n - k \in 0..l /\ k + (n - k) = n BY <1>1
  <2>2. Good(k + (n - k)) BY <1>6, <2>1 DEF S
  <2> QED BY <2>1, <2>2
<1> QED BY <1>7

-----------------------------------------------------------------------------
(* Record by record.                                                       *)

\* A record completes one message at most.
LEMMA YieldsOne ==
  ASSUME NEW h, Plain(h), NEW k \in 1..Len(h), NEW e, NEW f, Yields(h, k, e), Yields(h, k, f)
  PROVE  e = f /\ e \in Pairs
<1>1. h \in Seq(Records) /\ RecordInv(h[k]) BY DEF Plain
<1>2. PICK i \in 1..Len(h[k].events) : h[k].events[i] = e BY DEF Yields, Has
<1>3. PICK j \in 1..Len(h[k].events) : h[k].events[j] = f BY DEF Yields, Has
<1>4. EndsMessage(h[k].events[i]) /\ EndsMessage(h[k].events[j]) BY <1>2, <1>3 DEF Yields
<1>5. i = j BY <1>1, <1>4 DEF RecordInv
<1>6. e \in Pairs BY <1>1, RecordFacts DEF Yields
<1> QED BY <1>2, <1>3, <1>5, <1>6

\* The messages are those of the records.
LEMMA GivesFacts ==
  ASSUME NEW h, Plain(h), NEW k \in 1..Len(h)
  PROVE  /\ Gives(h, k) \in Seq(Pairs) /\ Messages(h, k) = Messages(h, k - 1) \o Gives(h, k)
         /\ \A e : Yields(h, k, e) => Gives(h, k) = <<MessageOf(e)>> /\ MessageOf(e) \in Pairs
         /\ (\A e : ~ Yields(h, k, e)) => Gives(h, k) = <<>>
<1>1. h \in Seq(Records) /\ k - 1 \in 0..Len(h) BY LenProperties DEF Plain
<1>2. ASSUME NEW e, Yields(h, k, e)
      PROVE  Gives(h, k) = <<MessageOf(e)>> /\ MessageOf(e) \in Pairs
  <2> DEFINE c == CHOOSE f : Yields(h, k, f)
  <2>1. Yields(h, k, c) BY <1>2
  <2>2. c = e /\ e \in Pairs BY <1>2, <2>1, YieldsOne
  <2>3. Gives(h, k) = <<MessageOf(c)>> BY <1>2 DEF Gives
  <2> QED BY <2>2, <2>3, MessageIsPair
<1>3. CASE \E e : Yields(h, k, e)
  <2>1. PICK e : Yields(h, k, e) BY <1>3
  <2>2. Gives(h, k) = <<MessageOf(e)>> /\ MessageOf(e) \in Pairs BY <1>2, <2>1
  <2>3. Messages(h, k) = Messages(h, k - 1) \o <<MessageOf(e)>> BY <2>1, YieldAdds
  <2>4. Gives(h, k) \in Seq(Pairs) BY <2>2
  <2> QED BY <1>2, <2>1, <2>2, <2>3, <2>4
<1>4. CASE \A e : ~ Yields(h, k, e) BY <1>4, SilentAdds, <1>1, MessagesTyped, ConcatEmptySeq, EmptySeq DEF Gives
<1> QED BY <1>3, <1>4

\* What is behind a sequence.
LEMMA JoinOne ==
  ASSUME NEW s \in Seq(Pairs), NEW x \in Pairs
  PROVE  /\ Len(s \o <<x>>) = Len(s) + 1 /\ (s \o <<x>>)[Len(s) + 1] = x /\ Len(s) \in Nat
         /\ \A i \in 1..Len(s) : (s \o <<x>>)[i] = s[i]
BY ConcatProperties, LenProperties

\* Where record k completes a message the messages so far end with it.
LEMMA YieldEnds ==
  ASSUME NEW h, Plain(h), NEW k \in 1..Len(h), NEW e, Yields(h, k, e)
  PROVE  /\ Len(Messages(h, k)) = Len(Messages(h, k - 1)) + 1 /\ Len(Messages(h, k - 1)) \in Nat
         /\ Messages(h, k)[Len(Messages(h, k))] = MessageOf(e)
<1>1. h \in Seq(Records) /\ k - 1 \in 0..Len(h) BY LenProperties DEF Plain
<1> DEFINE s == Messages(h, k - 1)
           x == MessageOf(e)
<1>2. s \in Seq(Pairs) BY <1>1, MessagesTyped
<1>3. x \in Pairs /\ Messages(h, k) = s \o <<x>> BY GivesFacts
<1> HIDE DEF s, x
<1>4. /\ Len(s \o <<x>>) = Len(s) + 1 /\ (s \o <<x>>)[Len(s) + 1] = x /\ Len(s) \in Nat
  BY <1>2, <1>3, JoinOne
<1>5. Len(s) + 1 = Len(Messages(h, k)) /\ Messages(h, k)[Len(s) + 1] = x BY <1>3, <1>4
<1> QED BY <1>4, <1>5 DEF s, x

\* Each message of the first n records is that of one of them, where it ends.
LEMMA Located ==
  ASSUME NEW h, Plain(h), NEW n \in 0..Len(h), NEW q \in 1..Len(Messages(h, n))
  PROVE  \E k \in 1..n : /\ Len(Messages(h, k)) = q
                         /\ \E e \in Pairs : Yields(h, k, e) /\ MessageOf(e) = Messages(h, n)[q]
<1> DEFINE At(k, m, p) == /\ Len(Messages(h, k)) = p
                          /\ \E e \in Pairs : Yields(h, k, e) /\ MessageOf(e) = Messages(h, m)[p]
           Good(m) == \A p \in 1..Len(Messages(h, m)) : \E k \in 1..m : At(k, m, p)
           S == {m \in 0..Len(h) : Good(m)}
<1>1. h \in Seq(Records) /\ Len(h) \in Nat BY LenProperties DEF Plain
<1>2. Messages(h, 0) = <<>> /\ \A m \in 0..Len(h) : Messages(h, m) \in Seq(Pairs) BY <1>1, MessagesTyped
<1>3. 0 \in S BY <1>2, EmptySeq, <1>1
<1>4. ASSUME NEW i \in 0..(Len(h) - 1), i \in S PROVE i + 1 \in S
  <2> SUFFICES ASSUME NEW m, m = i + 1 PROVE m \in S OBVIOUS
  <2>1. m \in 1..Len(h) /\ m - 1 = i /\ i \in 0..Len(h) /\ m \in 0..Len(h) /\ m \in 1..m
    BY <1>1
  <2>2. Good(i) /\ Messages(h, i) \in Seq(Pairs) BY <1>2, <1>4, <2>1
  <2>3. SUFFICES ASSUME NEW p \in 1..Len(Messages(h, m)) PROVE \E k \in 1..m : At(k, m, p) BY <2>1
  <2>4. CASE p \in 1..Len(Messages(h, i))
    <3>1. PICK k \in 1..i : At(k, i, p) BY <2>2, <2>4
    <3>2. Begins(Messages(h, i), Messages(h, m)) BY <1>1, <2>1, MessagesPrefix
    <3>3. Messages(h, m)[p] = Messages(h, i)[p] BY <2>4, <3>2 DEF Begins
    <3>4. k \in 1..m BY <2>1
    <3>5. At(k, m, p) BY <3>1, <3>3
    <3> HIDE DEF At
    <3> QED BY <3>4, <3>5
  <2>5. CASE p \notin 1..Len(Messages(h, i))
    <3>1. CASE \A e : ~ Yields(h, m, e) BY <2>1, <3>1, SilentAdds, <2>5
    <3>2. CASE \E e : Yields(h, m, e)
      <4>1. PICK e : Yields(h, m, e) BY <3>2
      <4>2. /\ Len(Messages(h, m)) = Len(Messages(h, i)) + 1 /\ Len(Messages(h, i)) \in Nat
            /\ Messages(h, m)[Len(Messages(h, m))] = MessageOf(e)
        BY <2>1, <4>1, YieldEnds
      <4>3. p = Len(Messages(h, m)) BY <2>5, <4>2
      <4>4. e \in Pairs BY <2>1, <4>1, YieldsOne
      <4>5. At(m, m, p) BY <4>1, <4>2, <4>3, <4>4
      <4> HIDE DEF At
      <4> QED BY <2>1, <4>5
    <3> QED BY <3>1, <3>2
  <2> QED BY <2>4, <2>5
<1> HIDE DEF S
<1>5. \A m \in 0..Len(h) : m \in S BY <1>1, <1>3, <1>4, UpTo
<1>6. Good(n) BY <1>5 DEF S
<1> QED BY <1>6

-----------------------------------------------------------------------------
(* What the records of a history keep to.                                  *)

\* The record of an event is its run's, or nobody's.
LEMMA OfRun ==
  ASSUME NEW h, Plain(h), NEW k \in 1..Len(h), NEW e, Has(h[k], e)
  PROVE  h[k].run \in {e[2], None} /\ h[k].kind # "remove" /\ e \in Pairs /\ e[2] \in Runs
<1>1. h \in Seq(Records) /\ RecordInv(h[k]) BY DEF Plain
<1>2. e \in Pairs BY <1>1, RecordFacts
<1>3. e[2] \in Runs BY <1>2 DEF Pairs
<1>4. PICK i \in 1..Len(h[k].events) : h[k].events[i] = e BY DEF Has
<1>5. CASE h[k].kind = "input" BY <1>1, <1>5, <1>4, <1>2, <1>3 DEF RecordInv, Says
<1>6. CASE h[k].kind = "remove" BY <1>1, <1>6, <1>4, EmptySeq DEF RecordInv
<1>7. CASE h[k].kind = "events"
  <2>1. PICK x \in Runs : h[k].run \in {x, None} /\ \A j \in 1..Len(h[k].events) : h[k].events[j][2] = x
    BY <1>1, <1>7 DEF RecordInv
  <2> QED BY <1>2, <1>3, <1>4, <1>7, <2>1
<1> QED BY <1>1, <1>5, <1>6, <1>7 DEF RecordInv

\* A record that is no tombstone is seen unless its run is removed.
LEMMA SeenIs ==
  ASSUME NEW h \in Seq(Records), NEW k \in 1..Len(h)
  PROVE  Visible(h, k) <=> h[k].kind # "remove" /\ ~ Removed(h, h[k].run)
BY LenProperties DEF Visible, Removed

\* Only one event makes a message.
LEMMA MessageOnce ==
  ASSUME NEW e \in Pairs, NEW f \in Pairs, EndsMessage(e), EndsMessage(f), MessageOf(e) = MessageOf(f)
  PROVE  e = f
<1>1. e = Says(e[1], e[2]) /\ f = Says(f[1], f[2]) BY PairIs
<1>2. e[2] = f[2] BY MessageIsPair
<1>3. /\ MessageOf(e)[1] = CASE e[1] = "input" -> "U" [] e[1] = "text_end" -> "T" [] OTHER -> "K"
      /\ MessageOf(f)[1] = CASE f[1] = "input" -> "U" [] f[1] = "text_end" -> "T" [] OTHER -> "K"
  BY DEF MessageOf
<1>4. e[1] \in {"input", "text_end", "result"} /\ f[1] \in {"input", "text_end", "result"} BY DEF EndsMessage
<1>5. e[1] = f[1] BY <1>3, <1>4
<1> QED BY <1>1, <1>2, <1>5

\* The first messages of a history are those up to the record that ends the last of them.
LEMMA Commit ==
  ASSUME NEW h, Plain(h), NEW p \in Seq(Pairs), p # <<>>, Begins(p, AllMessages(h))
  PROVE  LET u == RecordOf(h, p[Len(p)])
         IN u \in 1..Len(h) /\ Messages(h, u) = p /\ EndsIn(h, u)
<1>1. h \in Seq(Records) /\ Len(h) \in Nat /\ DOMAIN h = 1..Len(h) BY LenProperties DEF Plain
<1> DEFINE all == AllMessages(h)
           q == Len(p)
           m == p[q]
           ends == {k \in DOMAIN h : Visible(h, k) /\ \E i \in DOMAIN h[k].events :
                      EndsMessage(h[k].events[i]) /\ MessageOf(h[k].events[i]) = m}
<1>2. all \in Seq(Pairs) /\ all = Messages(h, Len(h)) BY <1>1, MessagesTyped DEF AllMessages
<1>3. q \in 1..Len(all) /\ all[q] = m /\ q \in Nat
  <2>1. q \in Nat /\ q # 0 /\ q <= Len(all) /\ Len(all) \in Nat BY <1>2, LenProperties, EmptySeq DEF Begins
  <2> HIDE DEF all
  <2>2. q \in 1..Len(all) /\ q \in 1..q BY <2>1
  <2> QED BY <2>1, <2>2 DEF Begins, all
<1>4. PICK k \in 1..Len(h) : /\ Len(Messages(h, k)) = q
                             /\ \E e \in Pairs : Yields(h, k, e) /\ MessageOf(e) = all[q]
  BY <1>1, <1>2, <1>3, Located
<1>5. PICK e \in Pairs : Yields(h, k, e) /\ MessageOf(e) = m BY <1>3, <1>4
<1>6. \A j \in 1..Len(h) : DOMAIN h[j].events = 1..Len(h[j].events)
  <2> SUFFICES ASSUME NEW j \in 1..Len(h) PROVE DOMAIN h[j].events = 1..Len(h[j].events) OBVIOUS
  <2>1. h[j].events \in Seq(Pairs) BY <1>1, RecordFacts
  <2> QED BY <2>1, LenProperties
<1>7. k \in ends
  <2>1. PICK i \in 1..Len(h[k].events) : h[k].events[i] = e BY <1>5 DEF Yields, Has
  <2> QED BY <1>1, <1>5, <1>6, <2>1 DEF Yields
<1>8. ASSUME NEW j \in ends PROVE j = k
  <2>1. j \in 1..Len(h) BY <1>1
  <2>2. PICK i \in 1..Len(h[j].events) : EndsMessage(h[j].events[i]) /\ MessageOf(h[j].events[i]) = m
    BY <1>6, <2>1
  <2> DEFINE f == h[j].events[i]
  <2>3. Has(h[j], f) BY DEF Has
  <2>4. f \in Pairs BY <1>1, <2>1, <2>3, RecordFacts
  <2>5. f = e BY <1>5, <2>2, <2>4, MessageOnce DEF Yields
  <2> HIDE DEF f
  <2> QED BY <1>5, <2>1, <2>3, <2>5 DEF Yields, Plain, Distinct
<1>9. RecordOf(h, m) = k
  <2>1. RecordOf(h, m) = CHOOSE x \in ends : \A j \in ends : j <= x BY <1>7 DEF RecordOf
  <2>2. k <= k /\ \A j \in ends : j <= k BY <1>8
  <2> HIDE DEF ends
  <2> QED BY <1>7, <1>8, <2>1, <2>2
<1>10. Messages(h, k) = p BY <1>1, <1>2, MessagesTyped, MessagesPrefix, <1>3, <1>4, BeginsShorter, BeginsAll
<1>11. EndsIn(h, k) BY <1>5 DEF EndsIn, Yields
<1> HIDE DEF m
<1> QED BY <1>9, <1>10, <1>11 DEF m

-----------------------------------------------------------------------------
(* The messages after a record that ends one.                              *)

\* The rest of a history has what the whole has.
LEMMA AfterPlain ==
  ASSUME NEW h, HistoryInv(h), NEW u \in 1..Len(h), NEW g, After(h, u, g)
  PROVE  Plain(g) /\ Len(g) \in Nat /\ \A j \in 1..Len(g) : u + j \in 1..Len(h) /\ g[j] = h[u + j]
<1>1. Plain(h) /\ h \in Seq(Records) /\ Len(h) \in Nat BY LenProperties DEF HistoryInv, Plain
<1>2. g \in Seq(Records) /\ Len(g) \in Nat BY LenProperties DEF After
<1>3. \A j \in 1..Len(g) : u + j \in 1..Len(h) /\ g[j] = h[u + j] BY <1>1, <1>2 DEF After
<1>4. \A j \in 1..Len(g) : RecordInv(g[j]) BY <1>1, <1>3 DEF Plain
<1>5. ASSUME NEW k \in 1..Len(g), NEW l \in 1..Len(g), NEW e \in Pairs, EndsMessage(e), Has(g[k], e), Has(g[l], e)
      PROVE  k = l BY <1>1, <1>3, <1>5 DEF Plain, Distinct
<1> QED BY <1>2, <1>3, <1>4, <1>5 DEF Plain, Distinct

\* What is seen in the rest is what is seen in the whole.
LEMMA AfterSeen ==
  ASSUME NEW h, HistoryInv(h), NEW u \in 1..Len(h), NEW g, After(h, u, g), NEW j \in 1..Len(g),
         NEW e, Has(g[j], e), e[1] \notin Bare
  PROVE  Visible(g, j) <=> Visible(h, u + j)
<1>1. Plain(h) /\ h \in Seq(Records) /\ g \in Seq(Records) BY DEF HistoryInv, Plain, After
<1>2. Len(g) \in Nat /\ \A i \in 1..Len(g) : u + i \in 1..Len(h) /\ g[i] = h[u + i] BY AfterPlain
<1>3. u \in Nat /\ Len(h) \in Nat BY <1>1, LenProperties
<1>4. Removed(g, g[j].run) => Removed(h, h[u + j].run) BY <1>2 DEF Removed
<1>5. ASSUME Removed(h, h[u + j].run) PROVE Removed(g, g[j].run)
  <2>1. PICK p \in 1..Len(h) : h[p].kind = "remove" /\ h[p].run = h[u + j].run BY <1>5 DEF Removed
  <2>2. CASE p <= u
    <3>1. p < u + j BY <1>3, <2>2
    <3>2. Has(h[u + j], e) /\ u + j \in 1..Len(h) BY <1>2
    <3>3. e[1] \in Bare BY <2>1, <3>1, <3>2 DEF HistoryInv, RemovedBare
    <3> QED BY <3>3
  <2>3. CASE ~ (p <= u)
    <3> DEFINE i == p - u
    <3>1. i \in 1..Len(g) /\ u + i = p BY <1>3, <2>3 DEF After
    <3> HIDE DEF i
    <3>2. g[i] = h[p] /\ g[j] = h[u + j] BY <1>2, <3>1
    <3> QED BY <2>1, <3>1, <3>2 DEF Removed
  <2> QED BY <2>2, <2>3
<1>6. g[j] = h[u + j] /\ u + j \in 1..Len(h) BY <1>2
<1> DEFINE n == u + j
<1>7. n \in 1..Len(h) /\ g[j] = h[n] /\ (Removed(g, g[j].run) <=> Removed(h, h[n].run)) BY <1>4, <1>5, <1>6
<1> HIDE DEF n
<1>8. Visible(h, n) <=> h[n].kind # "remove" /\ ~ Removed(h, h[n].run) BY <1>1, <1>7, SeenIs
<1>9. Visible(g, j) <=> g[j].kind # "remove" /\ ~ Removed(g, g[j].run) BY <1>1, SeenIs
<1> QED BY <1>7, <1>8, <1>9 DEF n

\* A record of the rest completes the message that it completes in the whole.
LEMMA AfterYields ==
  ASSUME NEW h, HistoryInv(h), NEW u \in 1..Len(h), EndsIn(h, u), NEW g, After(h, u, g),
         NEW j \in 1..Len(g), NEW e
  PROVE  Yields(g, j, e) <=> Yields(h, u + j, e)
<1>1. Plain(h) /\ h \in Seq(Records) /\ g \in Seq(Records) BY DEF HistoryInv, Plain, After
<1>2. /\ Plain(g) /\ Len(g) \in Nat /\ u \in Nat /\ Len(h) \in Nat
      /\ \A i \in 1..Len(g) : u + i \in 1..Len(h) /\ g[i] = h[u + i]
  BY <1>1, AfterPlain, LenProperties
<1> DEFINE n == u + j
<1>3. n \in 1..Len(h) /\ g[j] = h[n] BY <1>2
<1>4. ASSUME Has(g[j], e), EndsMessage(e) PROVE Visible(g, j) <=> Visible(h, n)
  BY <1>4, AfterSeen DEF EndsMessage, Bare
<1>5. ASSUME Yields(g, j, e), e[1] = "result"
      PROVE  \E l \in 1..(n - 1) : Visible(h, l) /\ Has(h[l], Says("call", e[2]))
  <2>1. PICK i \in 1..(j - 1) : Visible(g, i) /\ Has(g[i], Says("call", e[2])) BY <1>5 DEF Yields
  <2>2. i \in 1..Len(g) /\ u + i \in 1..(n - 1) /\ g[i] = h[u + i] BY <1>2
  <2>3. Says("call", e[2])[1] \notin Bare BY DEF Says, Bare
  <2>4. Visible(h, u + i) BY <2>1, <2>2, <2>3, AfterSeen
  <2> QED BY <2>1, <2>2, <2>4
<1>6. ASSUME Yields(h, n, e), e[1] = "result"
      PROVE  \E i \in 1..(j - 1) : Visible(g, i) /\ Has(g[i], Says("call", e[2]))
  <2>1. PICK l \in 1..(n - 1) : Visible(h, l) /\ Has(h[l], Says("call", e[2])) BY <1>6 DEF Yields
  <2>2. e \in Pairs /\ e[2] \in Runs /\ e = Says("result", e[2]) /\ Visible(h, n) /\ Has(h[n], e)
    BY <1>1, <1>3, <1>6, OfRun, PairIs DEF Yields
  <2>3. PICK m \in l..(n - 1) : /\ Has(h[m], Says("call", e[2]))
                                /\ \A k \in m..(n - 1) : ~ EndsIn(h, k)
    BY <1>3, <2>1, <2>2 DEF HistoryInv, CallsNear
  <2>4. m \in 1..Len(h) /\ n - 1 \in Nat BY <1>2, <1>3
  <2>5. m > u
    <3>1. u <= n - 1 BY <1>2
    <3>2. m <= u => u \in m..(n - 1) BY <1>2, <2>4, <3>1
    <3>3. ~ (m <= u) BY <2>3, <3>2
    <3> QED BY <1>2, <2>4, <3>3
  <2>6. Visible(h, m)
    <3>1. h[m].kind # "remove" /\ h[m].run \in {e[2], None} BY <1>1, <2>3, <2>4, OfRun DEF Says
    <3>2. h[n].run \in {e[2], None} BY <1>1, <1>3, <2>2, OfRun
    <3>3. ~ Removed(h, h[n].run) BY <1>1, <1>3, <2>2, SeenIs
    <3>4. CASE h[m].run = None \/ h[n].run = None
      <4>1. Whole(h) BY <1>3, <2>4, <3>4 DEF HistoryInv, Labelled
      <4>2. ~ Removed(h, h[m].run) BY <4>1 DEF Whole, Removed
      <4> QED BY <1>1, <2>4, <3>1, <4>2, SeenIs
    <3>5. CASE h[m].run # None /\ h[n].run # None BY <3>1, <3>2, <3>5, <1>1, <2>4, <3>3, SeenIs
    <3> QED BY <3>4, <3>5
  <2> DEFINE i == m - u
  <2>7. i \in 1..(j - 1) /\ i \in 1..Len(g) /\ u + i = m BY <1>2, <2>4, <2>5
  <2>8. g[i] = h[m] BY <1>2, <2>7
  <2>9. Says("call", e[2])[1] \notin Bare BY DEF Says, Bare
  <2>10. Visible(g, i) <=> Visible(h, u + i)
    <3> HIDE DEF i
    <3> QED BY <2>3, <2>7, <2>8, <2>9, AfterSeen
  <2> HIDE DEF i
  <2> QED BY <2>3, <2>6, <2>7, <2>8, <2>10
<1> HIDE DEF n
<1>7. Yields(g, j, e) => Yields(h, n, e) BY <1>3, <1>4, <1>5 DEF Yields
<1>8. Yields(h, n, e) => Yields(g, j, e) BY <1>3, <1>4, <1>6 DEF Yields
<1> QED BY <1>7, <1>8 DEF n

\* The messages are those up to a record that ends one, and those of the rest.
LEMMA Split ==
  ASSUME NEW h, HistoryInv(h), NEW u \in 1..Len(h), EndsIn(h, u), NEW g, After(h, u, g)
  PROVE  AllMessages(h) = Messages(h, u) \o AllMessages(g)
<1>1. Plain(h) /\ h \in Seq(Records) /\ g \in Seq(Records) BY DEF HistoryInv, Plain, After
<1>2. /\ Plain(g) /\ Len(g) \in Nat /\ u \in Nat /\ Len(h) \in Nat /\ u + Len(g) = Len(h)
      /\ \A i \in 1..Len(g) : u + i \in 1..Len(h) /\ g[i] = h[u + i] BY AfterPlain, <1>1, LenProperties DEF After
<1>3. /\ \A n \in 0..Len(h) : Messages(h, n) \in Seq(Pairs)
      /\ Messages(g, 0) = <<>> /\ \A n \in 0..Len(g) : Messages(g, n) \in Seq(Pairs)
  BY <1>1, MessagesTyped
<1> DEFINE Good(j) == Messages(h, u + j) = Messages(h, u) \o Messages(g, j)
           S == {j \in 0..Len(g) : Good(j)}
<1>4. 0 \in S BY <1>2, <1>3, ConcatEmptySeq
<1>5. ASSUME NEW i \in 0..(Len(g) - 1), i \in S PROVE i + 1 \in S
  <2> SUFFICES ASSUME NEW j, j = i + 1 PROVE j \in S OBVIOUS
  <2> DEFINE n == u + j
  <2>1. /\ j \in 1..Len(g) /\ j \in 0..Len(g) /\ j - 1 = i /\ n \in 1..Len(h) /\ n - 1 = u + i
        /\ n - 1 \in 0..Len(h) /\ i \in 0..Len(g) /\ u \in 0..Len(h)
    BY <1>2
  <2>2. \A e : Yields(g, j, e) <=> Yields(h, n, e) BY <2>1, AfterYields
  <2>3. Gives(g, j) = Gives(h, n)
    <3> HIDE DEF n
    <3>1. CASE \E e : Yields(h, n, e)
      <4>1. PICK e : Yields(h, n, e) BY <3>1
      <4>2. Yields(g, j, e) BY <2>2, <4>1
      <4>3. Gives(h, n) = <<MessageOf(e)>> BY <1>1, <2>1, <4>1, GivesFacts
      <4>4. Gives(g, j) = <<MessageOf(e)>> BY <1>2, <2>1, <4>2, GivesFacts
      <4> QED BY <4>3, <4>4
    <3>2. CASE \A e : ~ Yields(h, n, e) BY <2>2, <3>2, <1>1, <2>1, GivesFacts, <1>2
    <3> QED BY <3>1, <3>2
  <2>4. Messages(h, n) = Messages(h, n - 1) \o Gives(h, n) /\ Gives(h, n) \in Seq(Pairs)
    <3> HIDE DEF n
    <3> QED BY <1>1, <2>1, GivesFacts
  <2>5. Messages(g, j) = Messages(g, i) \o Gives(g, j) BY <1>2, <2>1, GivesFacts
  <2>6. Messages(h, n - 1) = Messages(h, u) \o Messages(g, i) BY <1>5, <2>1
  <2> DEFINE a == Messages(h, u)
             b == Messages(g, i)
             c == Gives(h, n)
  <2>7. a \in Seq(Pairs) /\ b \in Seq(Pairs) /\ c \in Seq(Pairs) BY <1>3, <2>1, <2>4
  <2> HIDE DEF a, b, c
  <2>8. (a \o b) \o c = a \o (b \o c) BY <2>7, JoinThree
  <2>9. Messages(h, n) = (a \o b) \o c BY <2>4, <2>6 DEF a, b, c
  <2>10. Messages(g, j) = b \o c BY <2>3, <2>5 DEF b, c
  <2>11. Good(j) BY <2>8, <2>9, <2>10 DEF a
  <2> QED BY <2>1, <2>11
<1> HIDE DEF S
<1>6. \A j \in 0..Len(g) : j \in S BY <1>2, <1>4, <1>5, UpTo
<1>7. Len(g) \in 0..Len(g) BY <1>2
<1>8. Good(Len(g)) BY <1>6, <1>7 DEF S
<1> QED BY <1>2, <1>8 DEF AllMessages

-----------------------------------------------------------------------------
(* The history with one more record.                                       *)

\* Appending gives that.
LEMMA AppendGrown ==
  ASSUME NEW h \in Seq(Records), NEW rec \in Records
  PROVE  Grown(h, Append(h, rec), rec)
BY AppendProperties, LenProperties DEF Grown

\* Its records.
LEMMA GrownFacts ==
  ASSUME NEW h \in Seq(Records), NEW rec, NEW g, Grown(h, g, rec)
  PROVE  /\ g \in Seq(Records) /\ Len(h) \in Nat /\ Len(g) = Len(h) + 1 /\ Len(g) \in 1..Len(g) /\ g[Len(g)] = rec
         /\ \A k \in 1..Len(g) : k = Len(g) \/ (k \in 1..Len(h) /\ g[k] = h[k])
         /\ \A k \in 1..Len(h) : k \in 1..Len(g) /\ g[k] = h[k] /\ k # Len(g)
         /\ \A e : In(g, e) <=> In(h, e) \/ Has(rec, e)
         /\ \A r : Removed(g, r) <=> Removed(h, r) \/ (rec.kind = "remove" /\ rec.run = r)
         /\ Whole(g) <=> Whole(h) /\ rec.kind # "remove"
BY LenProperties DEF Grown, In, Removed, Whole

\* One more record that is no tombstone hides nothing.
LEMMA GrownMessages ==
  ASSUME NEW h \in Seq(Records), NEW rec, NEW g, Grown(h, g, rec), rec.kind # "remove"
  PROVE  /\ \A k \in 0..Len(h) : Messages(g, k) = Messages(h, k)
         /\ Begins(AllMessages(h), AllMessages(g))
BY GrownFacts, SeenIs, VisibleAlike, MessagesPrefix DEF Part, Messages, AllMessages

\* Then the history is still in order.
LEMMA FitsStays ==
  ASSUME NEW h, HistoryInv(h), NEW rec, Fits(h, rec), NEW g, Grown(h, g, rec)
  PROVE  HistoryInv(g)
<1>1. Plain(h) /\ h \in Seq(Records) BY DEF HistoryInv, Plain
<1>2. /\ g \in Seq(Records) /\ Len(h) \in Nat /\ Len(g) = Len(h) + 1 /\ Len(g) \in 1..Len(g) /\ g[Len(g)] = rec
      /\ \A k \in 1..Len(g) : k = Len(g) \/ (k \in 1..Len(h) /\ g[k] = h[k])
      /\ \A k \in 1..Len(h) : k \in 1..Len(g) /\ g[k] = h[k] /\ k # Len(g)
      /\ \A r : Removed(g, r) <=> Removed(h, r)
      /\ Whole(g) <=> Whole(h)
  BY <1>1, GrownFacts DEF Fits
<1>3. Plain(g)
  <2>1. \A k \in 1..Len(g) : RecordInv(g[k]) BY <1>1, <1>2 DEF Plain, Fits
  <2>2. ASSUME NEW k \in 1..Len(g), NEW l \in 1..Len(g), NEW e \in Pairs, EndsMessage(e), Has(g[k], e), Has(g[l], e)
        PROVE  k = l
    <3>1. CASE k \in 1..Len(h) /\ l \in 1..Len(h) BY <1>1, <1>2, <2>2, <3>1 DEF Plain, Distinct
    <3>2. CASE k \in 1..Len(h) /\ l \notin 1..Len(h) BY <1>2, <2>2, <3>2 DEF In, Fits
    <3>3. CASE k \notin 1..Len(h) /\ l \in 1..Len(h) BY <1>2, <2>2, <3>3 DEF In, Fits
    <3>4. CASE k \notin 1..Len(h) /\ l \notin 1..Len(h) BY <1>2, <3>4
    <3> QED BY <3>1, <3>2, <3>3, <3>4
  <2> QED BY <1>2, <2>1, <2>2 DEF Plain, Distinct
<1>4. \A n \in 1..Len(h) : EndsIn(g, n) <=> EndsIn(h, n) BY <1>2 DEF EndsIn
<1>5. CallsNear(g)
  <2> SUFFICES ASSUME NEW k \in 1..Len(g), NEW x \in Runs, Has(g[k], Says("result", x)),
                      NEW l \in 1..(k - 1), Has(g[l], Says("call", x))
               PROVE  \E n \in l..(k - 1) : Has(g[n], Says("call", x)) /\ \A j \in n..(k - 1) : ~ EndsIn(g, j)
    BY DEF CallsNear
  <2>1. l \in 1..Len(h) /\ l \in Nat BY <1>2
  <2>2. Has(h[l], Says("call", x)) BY <1>2, <2>1
  <2>3. CASE k \in 1..Len(h)
    <3>1. PICK n \in l..(k - 1) : Has(h[n], Says("call", x)) /\ \A j \in n..(k - 1) : ~ EndsIn(h, j)
      BY <1>2, <2>2, <2>3 DEF HistoryInv, CallsNear
    <3>2. \A j \in n..(k - 1) : j \in 1..Len(h) BY <2>1, <2>3
    <3>3. n \in 1..Len(h) BY <2>1, <2>3
    <3> QED BY <1>2, <1>4, <3>1, <3>2, <3>3
  <2>4. CASE k \notin 1..Len(h)
    <3>1. k = Len(g) /\ k - 1 = Len(h) BY <1>2, <2>4
    <3>2. In(h, Says("call", x)) /\ Has(rec, Says("result", x)) BY <1>2, <2>1, <2>2, <3>1 DEF In
    <3>3. PICK m \in 1..Len(h) : Has(h[m], Says("call", x)) /\ \A n \in m..Len(h) : ~ EndsIn(h, n)
      BY <3>2 DEF Fits, CallLast
    <3>4. CASE l <= m BY <2>1, <3>1, <3>4, <1>2, <1>4, <3>3
    <3>5. CASE ~ (l <= m) BY <2>1, <3>1, <3>5, <1>2, <1>4, <2>2, <3>3
    <3> QED BY <3>4, <3>5
  <2> QED BY <2>3, <2>4
<1>6. RemovedBare(g)
  <2> SUFFICES ASSUME NEW p \in 1..Len(g), NEW k \in 1..Len(g), p < k, g[p].kind = "remove",
                      g[k].run = g[p].run, NEW e, Has(g[k], e)
               PROVE  e[1] \in Bare
    BY DEF RemovedBare
  <2>1. p \in 1..Len(h) /\ g[p] = h[p] BY <1>2
  <2>2. CASE k \in 1..Len(h) BY <1>2, <2>1, <2>2 DEF HistoryInv, RemovedBare
  <2>3. CASE k \notin 1..Len(h) BY <1>2, <2>3, <2>1 DEF Removed, Fits
  <2> QED BY <2>2, <2>3
<1>7. Labelled(g)
  <2> SUFFICES ASSUME NEW k \in 1..Len(g), g[k].run = None PROVE Whole(h) BY <1>2 DEF Labelled
  <2>1. CASE k \in 1..Len(h) BY <1>2, <2>1 DEF HistoryInv, Labelled
  <2>2. CASE k \notin 1..Len(h) BY <1>2, <2>2 DEF Fits
  <2> QED BY <2>1, <2>2
<1>8. EndsLast(g)
  <2> SUFFICES ASSUME NEW k \in 1..Len(g), NEW l \in 1..Len(g), k < l, NEW e \in Pairs, NEW f \in Pairs,
                      Terminal(e), Has(g[k], e), Has(g[l], f), f[2] = e[2]
               PROVE  Removed(h, g[l].run)
    BY <1>2 DEF EndsLast
  <2>1. k \in 1..Len(h) /\ g[k] = h[k] BY <1>2
  <2>2. CASE l \in 1..Len(h) BY <1>2, <2>1, <2>2 DEF HistoryInv, EndsLast
  <2>3. CASE l \notin 1..Len(h) BY <1>2, <2>3, <2>1 DEF In, Fits
  <2> QED BY <2>2, <2>3
<1> QED BY <1>3, <1>5, <1>6, <1>7, <1>8 DEF HistoryInv

\* A tombstone has no events.
LEMMA TombstoneIs ==
  ASSUME NEW r \in Runs
  PROVE  /\ Tombstone(r) \in Records /\ RecordInv(Tombstone(r)) /\ Tombstone(r).kind = "remove"
         /\ Tombstone(r).run = r /\ Tombstone(r).run # None /\ \A e : ~ Has(Tombstone(r), e)
<1>1. Tombstone(r) = [kind |-> "remove", run |-> r, events |-> <<>>] BY DEF Tombstone, Record
<1>2. r \in Nat /\ r # None BY RunsAssumption DEF Runs, None
<1>3. <<>> \in Seq(Pairs) /\ Len(<<>>) = 0 BY EmptySeq
<1>4. \A i \in 1..0 : FALSE OBVIOUS
<1>5. \A e : ~ Has(Tombstone(r), e) BY <1>1, <1>3, <1>4 DEF Has
<1>6. Tombstone(r) \in Records
  <2> SUFFICES ASSUME NEW s \in Seq(Pairs) PROVE [kind |-> "remove", run |-> r, events |-> s] \in Records
    BY <1>1, <1>3
  <2> QED BY <1>2 DEF Records
<1>7. RecordInv(Tombstone(r)) BY <1>1, <1>3, <1>4 DEF RecordInv
<1> QED BY <1>1, <1>2, <1>5, <1>6, <1>7

\* With it a history in order stays in order, if each record has a run.
LEMMA TombstoneStays ==
  ASSUME NEW h, HistoryInv(h), NEW r \in Runs, NEW g, Grown(h, g, Tombstone(r)), \A k \in 1..Len(h) : h[k].run # None
  PROVE  HistoryInv(g)
<1> DEFINE rec == Tombstone(r)
<1>0. /\ RecordInv(rec) /\ rec.kind = "remove" /\ rec.run = r /\ rec.run # None /\ \A e : ~ Has(rec, e)
  BY TombstoneIs
<1> HIDE DEF rec
<1>1. Plain(h) /\ h \in Seq(Records) /\ Grown(h, g, rec) BY DEF HistoryInv, Plain, rec
<1>2. /\ g \in Seq(Records) /\ Len(h) \in Nat /\ Len(g) = Len(h) + 1 /\ Len(g) \in 1..Len(g) /\ g[Len(g)] = rec
      /\ \A k \in 1..Len(g) : k = Len(g) \/ (k \in 1..Len(h) /\ g[k] = h[k])
      /\ \A k \in 1..Len(h) : k \in 1..Len(g) /\ g[k] = h[k] /\ k # Len(g)
      /\ \A s : Removed(h, s) => Removed(g, s)
  BY <1>1, GrownFacts
<1>3. \A k \in 1..Len(g) : \A e : Has(g[k], e) => k \in 1..Len(h) /\ Has(h[k], e) BY <1>0, <1>2
<1>4. Plain(g) BY <1>0, <1>1, <1>2, <1>3 DEF Plain, Distinct
<1>5. CallsNear(g)
  <2> SUFFICES ASSUME NEW k \in 1..Len(g), NEW x \in Runs, Has(g[k], Says("result", x)),
                      NEW l \in 1..(k - 1), Has(g[l], Says("call", x))
               PROVE  \E n \in l..(k - 1) : Has(g[n], Says("call", x)) /\ \A j \in n..(k - 1) : ~ EndsIn(g, j)
    BY DEF CallsNear
  <2>1. k \in 1..Len(h) /\ Has(h[k], Says("result", x)) BY <1>3
  <2>2. l \in 1..Len(h) /\ Has(h[l], Says("call", x)) BY <1>2, <2>1
  <2>3. PICK n \in l..(k - 1) : Has(h[n], Says("call", x)) /\ \A j \in n..(k - 1) : ~ EndsIn(h, j)
    BY <2>1, <2>2 DEF HistoryInv, CallsNear
  <2>4. \A j \in n..(k - 1) : j \in 1..Len(h) BY <2>1, <2>2
  <2>5. n \in 1..Len(h) BY <2>1, <2>2
  <2> QED BY <1>2, <2>3, <2>4, <2>5 DEF EndsIn
<1>6. RemovedBare(g)
  <2> SUFFICES ASSUME NEW p \in 1..Len(g), NEW k \in 1..Len(g), p < k, g[p].kind = "remove",
                      g[k].run = g[p].run, NEW e, Has(g[k], e)
               PROVE  e[1] \in Bare
    BY DEF RemovedBare
  <2>1. k \in 1..Len(h) /\ Has(h[k], e) BY <1>3
  <2>2. p \in 1..Len(h) BY <1>2, <2>1
  <2> QED BY <1>2, <2>1, <2>2 DEF HistoryInv, RemovedBare
<1>7. Labelled(g) BY <1>0, <1>2 DEF Labelled
<1>8. EndsLast(g)
  <2> SUFFICES ASSUME NEW k \in 1..Len(g), NEW l \in 1..Len(g), k < l, NEW e \in Pairs, NEW f \in Pairs,
                      Terminal(e), Has(g[k], e), Has(g[l], f), f[2] = e[2]
               PROVE  Removed(g, g[l].run)
    BY DEF EndsLast
  <2>1. k \in 1..Len(h) /\ Has(h[k], e) /\ l \in 1..Len(h) /\ Has(h[l], f) BY <1>3
  <2>2. Removed(h, h[l].run) BY <2>1 DEF HistoryInv, EndsLast
  <2> QED BY <1>2, <2>1, <2>2
<1> QED BY <1>4, <1>5, <1>6, <1>7, <1>8 DEF HistoryInv

-----------------------------------------------------------------------------
(* The messages and their order.                                           *)

\* A tombstone hides the records of its run and no other.
LEMMA TombstoneHides ==
  ASSUME NEW h, HistoryInv(h), NEW r \in Runs, NEW g, Grown(h, g, Tombstone(r)), Plain(g),
         \A k \in 1..Len(h) : h[k].run # None, NEW k \in 1..Len(h), NEW e
  PROVE  /\ Yields(g, k, e) => Yields(h, k, e)
         /\ Yields(h, k, e) /\ e[2] # r => Yields(g, k, e)
<1>1. Plain(h) /\ h \in Seq(Records) BY DEF HistoryInv, Plain
<1>2. /\ g \in Seq(Records) /\ Len(h) \in Nat
      /\ \A n \in 1..Len(h) : n \in 1..Len(g) /\ g[n] = h[n]
      /\ \A s : Removed(g, s) <=> Removed(h, s) \/ r = s
  BY <1>1, GrownFacts, TombstoneIs
<1>3. \A n \in 1..Len(h) : Visible(g, n) <=> Visible(h, n) /\ h[n].run # r BY <1>1, <1>2, SeenIs
<1>4. \A n \in 1..Len(h) : \A f : Has(h[n], f) => h[n].run = f[2] BY <1>1, OfRun
<1>5. \A n \in 1..(k - 1) : n \in 1..Len(h) BY <1>2
<1>6. Says("call", e[2])[2] = e[2] BY DEF Says
<1>7. Yields(g, k, e) => Yields(h, k, e) BY <1>2, <1>3, <1>5 DEF Yields
<1>8. ASSUME Yields(h, k, e), e[2] # r PROVE Yields(g, k, e)
  <2>1. Has(h[k], e) /\ Visible(h, k) /\ EndsMessage(e) BY <1>8 DEF Yields
  <2>2. Visible(g, k) /\ Has(g[k], e) BY <1>2, <1>3, <1>4, <1>8, <2>1
  <2>3. ASSUME e[1] = "result" PROVE \E l \in 1..(k - 1) : Visible(g, l) /\ Has(g[l], Says("call", e[2]))
    <3>1. PICK l \in 1..(k - 1) : Visible(h, l) /\ Has(h[l], Says("call", e[2])) BY <1>8, <2>3 DEF Yields
    <3>2. l \in 1..Len(h) /\ h[l].run = e[2] BY <1>4, <1>5, <1>6, <3>1
    <3> QED BY <1>2, <1>3, <1>8, <3>1, <3>2
  <2> QED BY <2>1, <2>2, <2>3 DEF Yields
<1> QED BY <1>7, <1>8

\* What starts the messages, and has none of the run that is removed, still does.
LEMMA TombstoneKeeps ==
  ASSUME NEW h, HistoryInv(h), NEW r \in Runs, NEW g, Grown(h, g, Tombstone(r)),
         \A k \in 1..Len(h) : h[k].run # None,
         NEW p \in Seq(Pairs), Begins(p, AllMessages(h)), \A i \in 1..Len(p) : p[i][2] # r
  PROVE  Begins(p, AllMessages(g))
<1>1. Plain(h) /\ h \in Seq(Records) BY DEF HistoryInv, Plain
<1>2. Plain(g) /\ g \in Seq(Records) BY TombstoneStays DEF HistoryInv, Plain
<1>3. /\ Len(h) \in Nat /\ Len(g) = Len(h) + 1 /\ \A n \in 1..Len(h) : n \in 1..Len(g) /\ g[n] = h[n]
  BY <1>1, GrownFacts
<1>4. /\ Messages(h, 0) = <<>> /\ \A n \in 0..Len(h) : Messages(h, n) \in Seq(Pairs)
      /\ Messages(g, 0) = <<>> /\ \A n \in 0..Len(g) : Messages(g, n) \in Seq(Pairs)
  BY <1>1, <1>2, MessagesTyped
<1>5. \A n \in 1..Len(h) : \A f : Has(h[n], f) => h[n].run = f[2] BY <1>1, OfRun
<1> DEFINE all == AllMessages(h)
           Good(k) == Begins(p, Messages(g, k)) \/ Messages(g, k) = Messages(h, k)
           S == {k \in 0..Len(h) : Good(k)}
<1>6. all \in Seq(Pairs) /\ all = Messages(h, Len(h)) BY <1>3, <1>4 DEF AllMessages
<1>7. 0 \in S BY <1>3, <1>4
<1>8. ASSUME NEW k \in 0..(Len(h) - 1), k \in S PROVE k + 1 \in S
  <2> SUFFICES ASSUME NEW n, n = k + 1 PROVE n \in S OBVIOUS
  <2>1. /\ n \in 1..Len(h) /\ n - 1 = k /\ n \in 0..Len(h) /\ k \in 0..Len(h) /\ k \in 0..Len(g) /\ n \in k..Len(g)
        /\ n \in 0..Len(g) /\ n \in 1..Len(g)
    BY <1>3
  <2> DEFINE s == Messages(g, k)
  <2>2. s \in Seq(Pairs) /\ Messages(g, n) \in Seq(Pairs) BY <1>4, <2>1
  <2>3. CASE Begins(p, s)
    <3>1. Begins(s, Messages(g, n)) BY <1>2, <2>1, MessagesPrefix
    <3> HIDE DEF s
    <3>2. Begins(p, Messages(g, n)) BY <2>2, <2>3, <3>1, BeginsOn
    <3> QED BY <2>1, <3>2
  <2>4. CASE ~ Begins(p, s)
    <3>1. s = Messages(h, k) BY <1>8, <2>4
    <3>2. Len(h) \in k..Len(h) /\ Len(h) \in n..Len(h) BY <1>3, <2>1
    <3>3. Begins(s, all) /\ Begins(Messages(h, n), all) BY <1>1, <1>6, <2>1, <3>1, <3>2, MessagesPrefix
    <3>4. ~ (Len(p) <= Len(s)) BY <1>6, <2>2, <2>4, <3>3, BeginsShorter
    <3>5. CASE \A e : ~ Yields(h, n, e) BY <1>2, <2>1, <3>5, TombstoneHides, <1>1, SilentAdds, <3>1
    <3>6. CASE \E e : Yields(h, n, e)
      <4>1. PICK e : Yields(h, n, e) BY <3>6
      <4> DEFINE x == MessageOf(e)
                 q == Len(s) + 1
      <4>2. /\ Len(Messages(h, n)) = q /\ Len(s) \in Nat /\ Messages(h, n)[q] = x
        BY <1>1, <2>1, <4>1, YieldEnds, <3>1
      <4>3. e \in Pairs BY <1>1, <2>1, <4>1, YieldsOne
      <4>4. x[2] = e[2] BY <4>3, MessageIsPair
      <4>5. q \in 1..Len(p) /\ q \in 1..Len(Messages(h, n))
        <5>1. Len(p) \in Nat BY LenProperties
        <5> HIDE DEF s
        <5> QED BY <3>4, <4>2, <5>1
      <4>6. x = p[q]
        <5> HIDE DEF q, all, x
        <5>1. all[q] = Messages(h, n)[q] BY <3>3, <4>5 DEF Begins
        <5>2. all[q] = p[q] BY <4>5 DEF Begins, all
        <5> QED BY <4>2, <5>1, <5>2
      <4>7. e[2] # r
        <5> HIDE DEF q, x
        <5> QED BY <4>4, <4>5, <4>6
      <4>8. Yields(g, n, e) BY <1>2, <2>1, <4>1, <4>7, TombstoneHides
      <4>9. Messages(g, n) = Messages(g, k) \o <<x>>
        <5>1. Messages(g, n) = Messages(g, n - 1) \o <<MessageOf(e)>> BY <1>2, <2>1, <4>8, YieldAdds
        <5> QED BY <2>1, <5>1
      <4>10. Messages(h, n) = Messages(h, k) \o <<x>> BY <1>1, <2>1, <4>1, YieldAdds
      <4> QED BY <2>1, <3>1, <4>9, <4>10
    <3> QED BY <3>5, <3>6
  <2> QED BY <2>3, <2>4
<1> HIDE DEF S
<1>9. \A k \in 0..Len(h) : k \in S BY <1>3, <1>7, <1>8, UpTo
<1>10. Len(h) \in 0..Len(h) /\ Len(h) \in 0..Len(g) /\ Len(g) \in Len(h)..Len(g) /\ Len(g) \in 0..Len(g) BY <1>3
<1>11. Begins(p, Messages(g, Len(h))) BY <1>9, <1>10, <1>6 DEF S
<1>12. Begins(Messages(g, Len(h)), Messages(g, Len(g))) BY <1>2, <1>10, MessagesPrefix
<1>13. Messages(g, Len(h)) \in Seq(Pairs) /\ Messages(g, Len(g)) \in Seq(Pairs) BY <1>4, <1>10
<1>14. Begins(p, Messages(g, Len(g))) BY <1>11, <1>12, <1>13, BeginsOn
<1> QED BY <1>14 DEF AllMessages

\* Before a user's message there is none of a run that has none before an input record.
LEMMA UserLast ==
  ASSUME NEW h, Plain(h), NEW x,
         \A k, l \in 1..Len(h) : k < l /\ h[l].kind = "input" => \A e : Has(h[k], e) => e[2] # x,
         NEW n \in 1..Len(AllMessages(h)), AllMessages(h)[n][1] = "U",
         NEW i \in 1..Len(AllMessages(h)), i < n
  PROVE  AllMessages(h)[i][2] # x
<1>1. h \in Seq(Records) /\ Len(h) \in Nat /\ Len(h) \in 0..Len(h) BY LenProperties DEF Plain
<1> DEFINE all == AllMessages(h)
<1>2. all = Messages(h, Len(h)) BY DEF AllMessages
<1>3. PICK l \in 1..Len(h) : /\ Len(Messages(h, l)) = n
                             /\ \E e \in Pairs : Yields(h, l, e) /\ MessageOf(e) = all[n]
  BY <1>1, <1>2, Located
<1>4. PICK k \in 1..Len(h) : /\ Len(Messages(h, k)) = i
                             /\ \E e \in Pairs : Yields(h, k, e) /\ MessageOf(e) = all[i]
  BY <1>1, <1>2, Located
<1>5. PICK f \in Pairs : Yields(h, l, f) /\ MessageOf(f) = all[n] BY <1>3
<1>6. PICK e \in Pairs : Yields(h, k, e) /\ MessageOf(e) = all[i] BY <1>4
<1>7. f[1] = "input" BY <1>5 DEF MessageOf, Yields, EndsMessage
<1>8. h[l].kind = "input"
  <2>1. Has(h[l], f) /\ RecordInv(h[l]) BY <1>5 DEF Yields, Plain
  <2>2. h[l].kind # "remove" BY <2>1, OfRun
  <2>3. PICK j \in 1..Len(h[l].events) : h[l].events[j] = f BY <2>1 DEF Has
  <2>4. h[l].kind # "events" BY <1>7, <2>1, <2>3 DEF RecordInv
  <2> QED BY <2>1, <2>2, <2>4 DEF RecordInv
<1>9. k < l
  <2> SUFFICES ASSUME ~ (k < l) PROVE FALSE OBVIOUS
  <2>1. l \in 0..Len(h) /\ k \in l..Len(h) BY <1>1
  <2>2. Begins(Messages(h, l), Messages(h, k)) BY <1>1, <2>1, MessagesPrefix
  <2>3. n <= i BY <1>3, <1>4, <2>2 DEF Begins
  <2>4. n \in Nat /\ i \in Nat OBVIOUS
  <2> QED BY <2>3, <2>4
<1>10. Has(h[k], e) BY <1>6 DEF Yields
<1>11. e[2] # x BY <1>8, <1>9, <1>10
<1>12. MessageOf(e)[2] = e[2] BY MessageIsPair
<1> QED BY <1>6, <1>11, <1>12

\* Two events that can be seen come from two records in that order, or from one.
LEMMA EventOrder ==
  ASSUME NEW h \in Seq(Records), NEW i \in 1..Len(VisibleEvents(h, Len(h))),
         NEW j \in 1..Len(VisibleEvents(h, Len(h))), i < j
  PROVE  \E k, l \in 1..Len(h) : TwoOf(h, k, l, VisibleEvents(h, Len(h)), i, j)
<1> DEFINE Good(n) == \A p, q \in 1..Len(VisibleEvents(h, n)) :
                        p < q => \E k, l \in 1..n : TwoOf(h, k, l, VisibleEvents(h, n), p, q)
           S == {n \in 0..Len(h) : Good(n)}
<1>1. Len(h) \in Nat BY LenProperties
<1>2. VisibleEvents(h, 0) = <<>> /\ \A n \in 0..Len(h) : VisibleEvents(h, n) \in Seq(Pairs) BY VisibleStep
<1>3. 0 \in S BY <1>2, EmptySeq, <1>1
<1>4. ASSUME NEW m \in 0..(Len(h) - 1), m \in S PROVE m + 1 \in S
  <2> SUFFICES ASSUME NEW n, n = m + 1 PROVE n \in S OBVIOUS
  <2>1. n \in 1..Len(h) /\ n - 1 = m /\ m \in 0..Len(h) /\ n \in 0..Len(h) BY <1>1
  <2> DEFINE s == VisibleEvents(h, m)
             u == h[n].events
             t == VisibleEvents(h, n)
  <2>2. Good(m) BY <1>4
  <2>3. CASE ~ Visible(h, n)
    <3>1. Part(h, n) = <<>> BY <2>3 DEF Part
    <3>2. t = s \o <<>> /\ s \in Seq(Pairs) BY <2>1, <3>1, VisibleStep
    <3>3. t = s
      <4> HIDE DEF s, t
      <4> QED BY <3>2, ConcatEmptySeq
    <3>4. ASSUME NEW p \in 1..Len(t), NEW q \in 1..Len(t), p < q PROVE \E k, l \in 1..n : TwoOf(h, k, l, t, p, q)
      <4>1. PICK k \in 1..m, l \in 1..m : TwoOf(h, k, l, t, p, q) BY <2>2, <3>3, <3>4
      <4>2. k \in 1..n /\ l \in 1..n BY <2>1
      <4> HIDE DEF t
      <4> QED BY <4>1, <4>2
    <3> QED BY <2>1, <3>4
  <2>4. CASE Visible(h, n)
    <3>1. /\ s \in Seq(Pairs) /\ u \in Seq(Pairs) /\ t = s \o u /\ Len(s) \in Nat /\ Len(u) \in Nat
          /\ \A p \in 1..Len(s) : (s \o u)[p] = s[p]
          /\ \A p \in 1..Len(u) : (s \o u)[Len(s) + p] = u[p]
          /\ \A p \in 1..Len(s) : \E l \in 1..(n - 1) : Visible(h, l) /\ Has(h[l], s[p])
          /\ Len(s \o u) = Len(s) + Len(u)
      <4>1. LET s0 == VisibleEvents(h, n - 1)
                u0 == h[n].events
            IN /\ s0 \in Seq(Pairs) /\ u0 \in Seq(Pairs) /\ VisibleEvents(h, n) = s0 \o u0
               /\ Len(s0) \in Nat /\ Len(u0) \in Nat
               /\ \A p \in 1..Len(s0) : (s0 \o u0)[p] = s0[p]
               /\ \A p \in 1..Len(u0) : (s0 \o u0)[Len(s0) + p] = u0[p]
               /\ \A p \in 1..Len(s0) : \E l \in 1..(n - 1) : Visible(h, l) /\ Has(h[l], s0[p])
               /\ s0 \o u0 \in Seq(Pairs) /\ Len(s0 \o u0) = Len(s0) + Len(u0)
        BY <2>1, <2>4, PartJoined
      <4> QED BY <2>1, <4>1
    <3>2. ASSUME NEW p \in 1..Len(t), NEW q \in 1..Len(t), p < q PROVE \E k, l \in 1..n : TwoOf(h, k, l, t, p, q)
      <4>1. CASE q <= Len(s)
        <5>1. p \in 1..Len(s) /\ q \in 1..Len(s) BY <3>1, <3>2, <4>1
        <5>2. PICK k \in 1..m, l \in 1..m : TwoOf(h, k, l, s, p, q) BY <2>2, <3>2, <5>1
        <5>3. t[p] = s[p] /\ t[q] = s[q] BY <3>1, <5>1
        <5>4. TwoOf(h, k, l, t, p, q)
          <6> HIDE DEF s, t
          <6> QED BY <5>2, <5>3 DEF TwoOf
        <5>5. k \in 1..n /\ l \in 1..n BY <2>1
        <5> HIDE DEF t
        <5> QED BY <5>4, <5>5
      <4>2. CASE ~ (q <= Len(s))
        <5> DEFINE b == q - Len(s)
        <5>1. b \in 1..Len(u) /\ Len(s) + b = q
          <6>1. Len(s) \in Nat /\ Len(u) \in Nat /\ Len(t) = Len(s) + Len(u) BY <3>1
          <6> HIDE DEF s, u, t
          <6> QED BY <4>2, <6>1
        <5>2. t[q] = u[b]
          <6> HIDE DEF b, s, u, t
          <6> QED BY <3>1, <5>1
        <5>3. n \in 1..n BY <2>1
        <5>4. CASE p <= Len(s)
          <6>1. p \in 1..Len(s) BY <5>4
          <6>2. PICK k \in 1..(n - 1) : Visible(h, k) /\ Has(h[k], s[p]) BY <3>1, <6>1
          <6>3. PICK a \in 1..Len(h[k].events) : h[k].events[a] = s[p] BY <6>2 DEF Has
          <6>4. t[p] = s[p] BY <3>1, <6>1
          <6>5. k < n /\ k \in 1..n BY <2>1
          <6> HIDE DEF b, s, t
          <6>6. TwoOf(h, k, n, t, p, q) BY <2>4, <5>1, <5>2, <6>2, <6>3, <6>4, <6>5 DEF TwoOf
              <6> QED BY <5>3, <6>5, <6>6
        <5>5. CASE ~ (p <= Len(s))
          <6> DEFINE a == p - Len(s)
          <6>1. a \in 1..Len(u) /\ Len(s) + a = p /\ a < b
            <7>1. Len(s) \in Nat /\ Len(u) \in Nat /\ Len(t) = Len(s) + Len(u) BY <3>1
            <7> HIDE DEF s, u, t
            <7> QED BY <3>2, <5>5, <7>1
          <6>2. t[p] = u[a]
            <7> HIDE DEF a, b, s, u, t
            <7> QED BY <3>1, <6>1
          <6> HIDE DEF a, b, s, t
          <6>3. TwoOf(h, n, n, t, p, q) BY <2>4, <5>1, <5>2, <6>1, <6>2 DEF TwoOf
              <6> QED BY <5>3, <6>3
        <5> QED BY <5>4, <5>5
      <4> QED BY <4>1, <4>2
    <3> QED BY <2>1, <3>2
  <2> QED BY <2>3, <2>4
<1> HIDE DEF S
<1>5. \A n \in 0..Len(h) : n \in S BY <1>1, <1>3, <1>4, UpTo
<1>6. Len(h) \in 0..Len(h) BY <1>1
<1>7. Good(Len(h)) BY <1>5, <1>6 DEF S
<1> QED BY <1>7

-----------------------------------------------------------------------------
(* What the store appends.                                                 *)

\* A set of numbers has a least.
LEMMA MinIn ==
  ASSUME NEW S, S \subseteq Nat, S # {}
  PROVE  Min(S) \in S /\ \A k \in S : Min(S) <= k
<1>1. PICK m \in S : \A y \in S : ~ (<<y, m>> \in OpToRel(<, Nat)) BY NatLessThanWellFounded, WFMin
<1>2. \A k \in S : m <= k
  <2> SUFFICES ASSUME NEW k \in S, ~ (m <= k) PROVE FALSE OBVIOUS
  <2>1. k \in Nat /\ m \in Nat /\ k < m OBVIOUS
  <2>2. <<k, m>> \in OpToRel(<, Nat) BY <2>1 DEF OpToRel
  <2> QED BY <1>1, <2>2
<1> QED BY <1>2 DEF Min

\* Appending the events of one run.
LEMMA FlushIs ==
  ASSUME NEW m \in Memories, NEW d, d.history \in Seq(Records), NEW x \in Runs,
         m.count < Len(m.events), \A i \in (m.count + 1)..Len(m.events) : m.events[i][2] = x
  PROVE  \E rec : /\ Tailed(m, rec) /\ rec.run \in {x, m.active}
                  /\ (\E i \in 1..Len(rec.events) : Named(rec.events[i])) => rec.run = x
                  /\ Flush(d, m) = Outcome([m EXCEPT !.count = Len(m.events)],
                                           <<<<"history", Append(d.history, rec)>>>>)
<1> DEFINE tail == SubSeq(m.events, m.count + 1, Len(m.events))
           named == {i \in DOMAIN tail : Named(tail[i])}
           r == IF named = {} THEN m.active ELSE tail[Min(named)][2]
           rec == Record("events", r, tail)
<1>1. m.events \in Seq(Pairs) /\ m.count \in Nat /\ m.active \in Runs \cup {None} BY DEF Memories
<1>2. Len(m.events) \in Nat BY <1>1, LenProperties
<1>3. \A i \in (m.count + 1)..Len(m.events) : m.events[i] \in Pairs BY <1>1, <1>2, ElementOfSeq
<1> DEFINE a == m.count + 1
           b == Len(m.events)
<1>4. /\ tail \in Seq(Pairs) /\ Len(tail) = b - m.count
      /\ \A i \in 1..Len(tail) : tail[i] = m.events[m.count + i] /\ m.count + i \in a..b
  <2>1. a \in Nat /\ b \in Nat /\ a <= b /\ \A i \in a..b : m.events[i] \in Pairs BY <1>1, <1>2, <1>3
  <2> HIDE DEF a, b
  <2>2. /\ SubSeq(m.events, a, b) \in Seq(Pairs)
        /\ Len(SubSeq(m.events, a, b)) = b - a + 1
        /\ \A i \in 1..(b - a + 1) : SubSeq(m.events, a, b)[i] = m.events[a + i - 1]
    BY <2>1, SubSeqProperties
  <2> DEFINE t == SubSeq(m.events, a, b)
  <2>3. tail = t BY DEF a, b
  <2> HIDE DEF tail, t
  <2>4. t \in Seq(Pairs) /\ Len(t) = b - a + 1 /\ \A i \in 1..(b - a + 1) : t[i] = m.events[a + i - 1]
    BY <2>2 DEF t
  <2>5. b - a + 1 = b - m.count /\ \A i \in 1..(b - a + 1) : a + i - 1 = m.count + i /\ m.count + i \in a..b
    BY <1>1, <1>2, <2>1 DEF a, b
  <2> QED BY <2>3, <2>4, <2>5
<1> HIDE DEF a, b
<1>5. DOMAIN tail = 1..Len(tail) /\ tail # <<>>
  <2>1. Len(tail) # 0 BY <1>1, <1>2, <1>4 DEF b
  <2> HIDE DEF tail
  <2> QED BY <1>4, <2>1, LenProperties, EmptySeq
<1>6. \A i \in 1..Len(tail) : tail[i][2] = x BY <1>4 DEF a, b
<1>7. Flush(d, m) = Outcome([m EXCEPT !.count = Len(m.events)], <<<<"history", Append(d.history, rec)>>>>)
  BY <1>5 DEF Flush
<1>8. r \in {x, m.active} /\ (named # {} => r = x)
  <2>1. CASE named = {} BY <2>1
  <2>2. CASE named # {}
    <3>1. named \subseteq Nat BY <1>5
    <3> HIDE DEF tail
    <3>2. Min(named) \in named BY <2>2, <3>1, MinIn
    <3>3. Min(named) \in 1..Len(tail) BY <1>5, <3>2
    <3>4. tail[Min(named)][2] = x BY <1>6, <3>3
    <3> QED BY <2>2, <3>4
  <2> QED BY <2>1, <2>2
<1>9. r \in Nat
  <2>1. Runs \subseteq Nat BY RunsAssumption DEF Runs
  <2> HIDE DEF r
  <2> QED BY <1>1, <1>8, <2>1 DEF None
<1>10. rec = [kind |-> "events", run |-> r, events |-> tail] BY DEF Record
<1> HIDE DEF r, named, tail
<1>11. rec \in Records /\ rec.kind = "events" /\ rec.run = r /\ rec.events = tail BY <1>4, <1>9, <1>10 DEF Records
<1> HIDE DEF rec
<1>12. Tailed(m, rec) BY <1>4, <1>11 DEF Tailed, b
<1>13. (\E i \in 1..Len(rec.events) : Named(rec.events[i])) => rec.run = x
  BY <1>5, <1>8, <1>11 DEF named
<1> QED BY <1>7, <1>8, <1>11, <1>12, <1>13

-----------------------------------------------------------------------------
(* The view of the backend, and what can be seen of a history in order.    *)

\* No summary is.
LEMMA EmptyIsSound ==
  ASSUME NEW h
  PROVE  Sound(EmptyContext, h) /\ EmptyContext.upto = 0 /\ EmptyContext.pending = None
<1>1. <<>> \in Seq(Pairs) BY EmptySeq
<1> SUFFICES ASSUME NEW s \in Seq(Pairs), s = <<>>,
                    EmptyContext = [gen |-> 0, rev |-> 0, upto |-> 0, covers |-> s, said |-> s, pending |-> None]
             PROVE  Sound(EmptyContext, h) /\ EmptyContext.upto = 0 /\ EmptyContext.pending = None
  BY <1>1 DEF EmptyContext
<1> QED BY DEF Sound, Contexts

\* A summary that is trusted says the messages it stands for.
LEMMA ValidatedIs ==
  ASSUME NEW h \in Seq(Records), NEW c, Sound(c, h)
  PROVE  LET v == Validated(c, h)
         IN /\ v = c \/ v = EmptyContext
            /\ Sound(v, h)
            /\ v.upto # 0 => v.said = Messages(h, v.upto)
<1>1. CASE c.upto # 0 /\ Messages(h, c.upto) # c.covers BY <1>1, EmptyIsSound DEF Validated
<1>2. CASE ~ (c.upto # 0 /\ Messages(h, c.upto) # c.covers) BY <1>2 DEF Validated, Sound
<1> QED BY <1>1, <1>2

\* What follows record u.
LEMMA TailIs ==
  ASSUME NEW h \in Seq(Records), NEW u \in 0..Len(h)
  PROVE  After(h, u, SubSeq(h, u + 1, Len(h)))
<1>1. Len(h) \in Nat /\ u \in Nat BY LenProperties
<1>2. \A i \in (u + 1)..Len(h) : h[i] \in Records BY <1>1, ElementOfSeq
<1> DEFINE a == u + 1
           b == Len(h)
           g == SubSeq(h, a, b)
<1>3. CASE u < Len(h)
  <2>1. a \in Nat /\ b \in Nat /\ a <= b /\ \A i \in a..b : h[i] \in Records BY <1>1, <1>2, <1>3
  <2> HIDE DEF a, b
  <2>2. g \in Seq(Records) /\ Len(g) = b - a + 1 /\ \A i \in 1..(b - a + 1) : g[i] = h[a + i - 1]
    BY <2>1, SubSeqProperties
  <2> HIDE DEF g
  <2>3. b - a + 1 = Len(h) - u /\ \A i \in 1..(b - a + 1) : a + i - 1 = u + i BY <1>1 DEF a, b
  <2>4. After(h, u, g) BY <2>2, <2>3 DEF After
  <2> QED BY <2>4 DEF g, a, b
<1>4. CASE u = Len(h)
  <2>1. g = <<>> BY <1>1, <1>4, SubSeqProperties
  <2>2. <<>> \in Seq(Records) /\ Len(<<>>) = 0 BY EmptySeq
  <2>3. Len(h) - u = 0 /\ 1..0 = {} BY <1>1, <1>4
  <2>4. After(h, u, <<>>) BY <2>2, <2>3 DEF After
  <2> QED BY <2>1, <2>4
<1> QED BY <1>1, <1>3, <1>4

\* The summary with the messages after it is the conversation.
LEMMA ViewIs ==
  ASSUME NEW d, HistoryInv(d.history), Sound(d.context, d.history)
  PROVE  /\ View(d).context = Validated(d.context, d.history) /\ Sound(View(d).context, d.history)
         /\ View(d).tail \in Seq(Pairs)
         /\ View(d).context.said \o View(d).tail = AllMessages(d.history)
<1> DEFINE h == d.history
           c == Validated(d.context, d.history)
           g == SubSeq(h, c.upto + 1, Len(h))
<1>1. View(d).context = c /\ View(d).tail = AllMessages(g) BY DEF View
<1>2. Plain(h) /\ h \in Seq(Records) /\ Len(h) \in Nat BY LenProperties DEF HistoryInv, Plain
<1>3. Sound(c, h) /\ (c.upto # 0 => c.said = Messages(h, c.upto)) BY <1>2, ValidatedIs
<1> HIDE DEF c
<1>4. c.upto \in 0..Len(h) /\ (c.upto # 0 => c.upto \in 1..Len(h)) BY <1>2, <1>3 DEF Sound
<1>5. After(h, c.upto, g) BY <1>2, <1>4, TailIs
<1>6. g \in Seq(Records) /\ Len(g) \in Nat /\ Len(g) \in 0..Len(g) BY <1>5, LenProperties DEF After
<1>7. AllMessages(g) \in Seq(Pairs) BY <1>6, MessagesTyped DEF AllMessages
<1>8. CASE c.upto # 0
  <2>1. EndsIn(h, c.upto) BY <1>3, <1>8 DEF Sound
  <2>2. AllMessages(h) = Messages(h, c.upto) \o AllMessages(g) BY <1>4, <1>5, <1>8, <2>1, Split
  <2> QED BY <1>1, <1>3, <1>7, <1>8, <2>2 DEF c
<1>9. CASE c.upto = 0
  <2>1. Len(g) = Len(h) /\ \A j \in 1..Len(g) : g[j] = h[j]
    <3>1. Len(g) = Len(h) - 0 /\ \A j \in 1..Len(g) : g[j] = h[0 + j] BY <1>5, <1>9 DEF After
    <3>2. \A j \in 1..Len(g) : 0 + j = j OBVIOUS
    <3>3. \A j \in 1..Len(g) : g[j] = h[j] BY <3>1, <3>2
    <3> HIDE DEF g, h
    <3> QED BY <1>2, <3>1, <3>3
  <2>2. g = h BY <1>2, <1>6, <2>1, SeqEqual
  <2>3. c.said = <<>> BY <1>3, <1>9 DEF Sound
  <2>4. <<>> \o AllMessages(g) = AllMessages(g) BY <1>7, ConcatEmptySeq
  <2> QED BY <1>1, <1>3, <1>7, <2>2, <2>3, <2>4 DEF c
<1> QED BY <1>8, <1>9

\* A branch that starts with the messages of the summary starts with what it says.
LEMMA BranchIs ==
  ASSUME NEW d, HistoryInv(d.history), Sound(d.context, d.history), NEW r \in Runs, CanBranch(d, r),
         Inherits(d, BranchHistory(d, r))
  PROVE  IsPrefix(d.context.said, AllMessages(BranchHistory(d, r)))
<1> DEFINE h == d.history
           seen == {k \in DOMAIN h : Visible(h, k) /\ h[k].run = r}
           cut == CHOOSE k \in seen : \A j \in seen : j <= k
           b == BranchHistory(d, r)
           n == Min({d.context.upto, Len(b)})
<1>1. h \in Seq(Records) /\ Len(h) \in Nat /\ DOMAIN h = 1..Len(h) BY LenProperties DEF HistoryInv, Plain
<1>2. cut \in 1..Len(h)
  <2>1. seen \subseteq 1..Len(h) /\ seen # {} BY <1>1 DEF CanBranch
  <2> HIDE DEF seen
  <2>2. seen \subseteq Nat /\ \A k \in seen : k <= Len(h) BY <1>1, <2>1
  <2>3. Max(seen) \in seen /\ \A k \in seen : k <= Max(seen) BY <1>1, <2>1, <2>2, MaxIn
  <2> QED BY <2>1, <2>3
<1> HIDE DEF cut, seen
<1>3. b = [k \in 1..cut |-> IF Visible(h, k) THEN h[k] ELSE Record("remove", MaxRuns + 1, <<>>)]
  BY DEF BranchHistory, cut, seen
<1>4. \A k \in 1..cut : b[k] \in Records
  <2> SUFFICES ASSUME NEW k \in 1..cut PROVE b[k] \in Records OBVIOUS
  <2>1. k \in 1..Len(h) BY <1>1, <1>2
  <2>2. h[k] \in Records BY <1>1, <2>1, ElementOfSeq
  <2>3. Record("remove", MaxRuns + 1, <<>>) \in Records
    <3>1. <<>> \in Seq(Pairs) /\ MaxRuns + 1 \in Nat BY EmptySeq, RunsAssumption
    <3> SUFFICES ASSUME NEW s \in Seq(Pairs), NEW q \in Nat PROVE Record("remove", q, s) \in Records
      BY <3>1
    <3> QED BY DEF Record, Records
  <2> QED BY <1>3, <2>2, <2>3
<1>5. b \in Seq(Records) /\ Len(b) = cut
  <2>1. b = [k \in 1..cut |-> b[k]] /\ cut \in Nat BY <1>2, <1>3
  <2> HIDE DEF b
  <2>2. Row(b) /\ Len(b) = cut
    <3> DEFINE f == [k \in 1..cut |-> b[k]]
    <3>1. Row(f) /\ Len(f) = cut BY <2>1, RowOfFunction
    <3> QED BY <2>1, <3>1
  <2>3. b = [k \in 1..Len(b) |-> b[k]] BY <2>2 DEF Row
  <2>4. \A k \in 1..Len(b) : b[k] \in Records BY <1>4, <2>2
  <2> QED BY <1>4, <2>1, <2>2, IsASeq
<1> HIDE DEF b
<1>6. n \in 0..Len(b)
  <2>1. d.context.upto \in Nat /\ Len(b) \in Nat BY <1>2, <1>5 DEF Sound, Contexts
  <2>2. {d.context.upto, Len(b)} \subseteq Nat /\ Len(b) \in {d.context.upto, Len(b)} BY <2>1
  <2>3. n \in {d.context.upto, Len(b)} /\ n <= Len(b) BY <2>2, MinIn
  <2> QED BY <2>1, <2>3
<1>7. Messages(b, n) = d.context.covers BY DEF Inherits, b, n
<1> HIDE DEF n
<1>8. Len(b) \in Nat /\ Len(b) \in n..Len(b) /\ Len(b) \in 0..Len(b) BY <1>2, <1>5, <1>6
<1>9. Begins(Messages(b, n), AllMessages(b)) BY <1>5, <1>6, <1>8, MessagesPrefix DEF AllMessages
<1>10. Messages(b, n) \in Seq(Pairs) /\ AllMessages(b) \in Seq(Pairs)
  BY <1>5, <1>6, <1>8, MessagesTyped DEF AllMessages
<1>11. IsPrefix(Messages(b, n), AllMessages(b)) BY <1>9, <1>10, BeginsIsPrefix
<1> QED BY <1>7, <1>11 DEF Sound, b

\* No event is seen after the end of its run.
LEMMA NothingAfterEnd ==
  ASSUME NEW h, HistoryInv(h)
  PROVE  LET events == VisibleEvents(h, Len(h))
         IN \A i, j \in 1..Len(events) : i < j /\ Terminal(events[i]) => events[i][2] # events[j][2]
<1> DEFINE v == VisibleEvents(h, Len(h))
<1>1. Plain(h) /\ h \in Seq(Records) BY DEF HistoryInv, Plain
<1> SUFFICES ASSUME NEW i \in 1..Len(v), NEW j \in 1..Len(v), i < j, Terminal(v[i]), v[i][2] = v[j][2]
             PROVE  FALSE
  OBVIOUS
<1>2. PICK k \in 1..Len(h), l \in 1..Len(h) : TwoOf(h, k, l, v, i, j) BY <1>1, EventOrder
<1>3. PICK a \in 1..Len(h[k].events), b \in 1..Len(h[l].events) :
        v[i] = h[k].events[a] /\ v[j] = h[l].events[b] /\ (k < l \/ (k = l /\ a < b))
  BY <1>2 DEF TwoOf
<1> HIDE DEF v
<1>4. Has(h[k], v[i]) /\ Has(h[l], v[j]) /\ Visible(h, l) BY <1>2, <1>3 DEF Has, TwoOf
<1>5. v[i] \in Pairs /\ v[j] \in Pairs BY <1>1, <1>4, RecordFacts
<1>6. CASE k < l BY <1>4, <1>5, <1>6, <1>1, SeenIs DEF HistoryInv, EndsLast
<1>7. CASE k = l /\ a < b BY <1>1, <1>3, RecordFacts, <1>7 DEF Plain, RecordInv
<1> QED BY <1>3, <1>6, <1>7

\* No message of a run with a tombstone is seen.
LEMMA NothingOfRemoved ==
  ASSUME NEW h, HistoryInv(h), NEW r, Removed(h, r), NEW i \in 1..Len(AllMessages(h))
  PROVE  AllMessages(h)[i][2] # r
<1>1. Plain(h) /\ h \in Seq(Records) /\ Len(h) \in Nat /\ Len(h) \in 0..Len(h)
  BY LenProperties DEF HistoryInv, Plain
<1> DEFINE v == VisibleEvents(h, Len(h))
<1>2. v \in Seq(Pairs)  BY <1>1, VisibleStep
<1>3. PICK n \in 1..Len(v) : EndsMessage(v[n]) /\ MessageOf(v[n]) = AllMessages(h)[i]
  BY <1>2, MessagesFrom DEF AllMessages, Messages
<1>4. PICK k \in 1..Len(h) : Visible(h, k) /\ Has(h[k], v[n]) BY <1>1, VisibleFrom
<1> HIDE DEF v
<1>5. h[k].run \in {v[n][2], None} /\ v[n] \in Pairs BY <1>1, <1>4, OfRun
<1>6. AllMessages(h)[i][2] = v[n][2] BY <1>3, <1>5, MessageIsPair
<1>7. h[k].run # None BY DEF HistoryInv, Labelled, Whole, Removed
<1>8. ~ Removed(h, h[k].run) BY <1>1, <1>4, SeenIs
<1> QED BY <1>5, <1>6, <1>7, <1>8

\* A message whose events are in the history of a run without a tombstone is seen.
LEMMA MessageSeen ==
  ASSUME NEW h, HistoryInv(h), NEW k \in 1..Len(h), NEW e, Yields(h, k, e)
  PROVE  MessageOf(e) \in ToSet(AllMessages(h))
<1>1. Plain(h) /\ h \in Seq(Records) /\ Len(h) \in Nat /\ k \in 0..Len(h) /\ Len(h) \in k..Len(h)
      /\ Len(h) \in 0..Len(h)
  BY LenProperties DEF HistoryInv, Plain
<1>2. /\ Len(Messages(h, k)) = Len(Messages(h, k - 1)) + 1 /\ Len(Messages(h, k - 1)) \in Nat
      /\ Messages(h, k)[Len(Messages(h, k))] = MessageOf(e)
  BY <1>1, YieldEnds
<1>3. Begins(Messages(h, k), AllMessages(h)) BY <1>1, MessagesPrefix DEF AllMessages
<1>4. AllMessages(h) \in Seq(Pairs) BY <1>1, MessagesTyped DEF AllMessages
<1>5. DOMAIN AllMessages(h) = 1..Len(AllMessages(h)) /\ Len(AllMessages(h)) \in Nat BY <1>4, LenProperties
<1> DEFINE n == Len(Messages(h, k))
<1>6. n \in 1..n /\ n \in Nat BY <1>2
<1> HIDE DEF n
<1>7. n <= Len(AllMessages(h)) /\ AllMessages(h)[n] = MessageOf(e) BY <1>2, <1>3, <1>6 DEF Begins, n
<1>8. n \in DOMAIN AllMessages(h) BY <1>5, <1>6, <1>7
<1> QED BY <1>7, <1>8 DEF ToSet

-----------------------------------------------------------------------------
(* What one event of a run adds to its history.                            *)

\* Quiet events before the new ones do no harm.
LEMMA PieceRecord ==
  ASSUME NEW x \in Runs, NEW s, Piece(s, x), NEW rec \in Records, rec.kind = "events", rec.run \in {x, None},
         NEW w \in Nat, Len(rec.events) = w + Len(s),
         \A i \in 1..w : Quiet(rec.events[i], x),
         \A i \in 1..Len(s) : rec.events[w + i] = s[i]
  PROVE  Carries(rec, s, x)
<1> DEFINE es == rec.events
<1>1. Len(s) \in Nat \ {0} BY DEF Piece
<1>2. \A i \in 1..Len(es) : \/ i \in 1..w /\ Quiet(es[i], x)
                            \/ i - w \in 1..Len(s) /\ es[i] = s[i - w] /\ w + (i - w) = i
  <2> SUFFICES ASSUME NEW i \in 1..Len(es), i \notin 1..w
               PROVE  i - w \in 1..Len(s) /\ es[i] = s[i - w] /\ w + (i - w) = i
    OBVIOUS
  <2>1. i - w \in 1..Len(s) /\ w + (i - w) = i BY <1>1
  <2> DEFINE j == i - w
  <2> HIDE DEF j
  <2>2. es[w + j] = s[j] BY <2>1 DEF j
  <2> QED BY <2>1, <2>2 DEF j
<1>3. \A i \in 1..Len(s) : w + i \in 1..Len(es) /\ es[w + i] = s[i] BY <1>1
<1>4. \A f : Has(rec, f) => Holds(s, f) \/ Quiet(f, x) BY <1>2 DEF Has, Holds
<1>5. \A f : Holds(s, f) => Has(rec, f) BY <1>3 DEF Has, Holds
<1>6. \A i \in 1..Len(es) : Quiet(es[i], x) => /\ es[i][2] = x /\ ~ EndsMessage(es[i]) /\ ~ Terminal(es[i])
                                               /\ es[i][1] \notin {"input", "text_end", "call", "result"}
  BY DEF Quiet, EndsMessage, Terminal
<1>7. RecordInv(rec)
  <2>1. \A i \in 1..Len(es) : es[i][2] = x /\ es[i][1] # "input" BY SMTT(30), <1>2, <1>6 DEF Piece
  <2>2. ASSUME NEW i \in 1..Len(es), NEW j \in 1..Len(es), EndsMessage(es[i]), EndsMessage(es[j])
        PROVE  i = j
    <3>1. i - w \in 1..Len(s) /\ j - w \in 1..Len(s) /\ EndsMessage(s[i - w]) /\ EndsMessage(s[j - w])
      BY <1>2, <1>6, <2>2
    <3>2. i - w = j - w BY <3>1 DEF Piece
    <3> QED BY <3>2
  <2>3. ASSUME NEW i \in 1..Len(es), es[i][1] = "text_end"
        PROVE  \E j \in 1..(i - 1) : es[j] = Says("text", es[i][2])
    <3>1. i - w \in 1..Len(s) /\ s[i - w][1] = "text_end" /\ es[i][2] = x BY <1>2, <1>6, <2>1, <2>3
    <3>2. PICK j \in 1..(i - w - 1) : s[j] = Says("text", x) BY <3>1 DEF Piece
    <3>3. j \in 1..Len(s) /\ w + j \in 1..(i - 1) BY SMTT(30), <3>1, <3>2
    <3>4. es[w + j] = Says("text", x) BY <1>3, <3>2, <3>3
    <3> QED BY <3>1, <3>3, <3>4
  <2>4. ASSUME NEW i \in 1..Len(es), NEW j \in 1..Len(es), es[i][1] = "call"
        PROVE  es[j][1] \notin {"text_end", "result"}
    <3>1. i - w \in 1..Len(s) /\ s[i - w][1] = "call" BY <1>2, <1>6, <2>4
    <3>2. \A n \in 1..Len(s) : s[n][1] \notin {"text_end", "result"} BY <3>1 DEF Piece
    <3> QED BY <1>2, <1>6, <3>2
  <2>5. ASSUME NEW i \in 1..Len(es), Terminal(es[i]) PROVE i = Len(es) BY <1>2, <1>6, <2>5, <1>1 DEF Piece
  <2> QED BY <2>1, <2>2, <2>3, <2>4, <2>5 DEF RecordInv
<1> QED BY <1>4, <1>5, <1>7 DEF Carries

\* What the store appends when new events come behind those that wait.
LEMMA FlushPiece ==
  ASSUME NEW x \in Runs, NEW m \in Memories, Waits(m, x), NEW s, Piece(s, x), NEW m1, Longer(m, m1, s),
         m1.active \in {x, None}, NEW d, d.history \in Seq(Records)
  PROVE  \E rec : Flushed(d, m1, s, x, rec)
<1>1. m1 \in Memories /\ m1.count = m.count /\ Len(m1.events) = Len(m.events) + Len(s) BY DEF Longer
<1>2. Len(s) \in Nat \ {0} /\ m.count \in Nat /\ Len(m.events) \in Nat /\ m.count <= Len(m.events)
  BY LenProperties DEF Piece, Waits, Memories
<1> DEFINE w == Len(m.events) - m.count
<1>3. w \in Nat /\ Len(m.events) = m.count + w BY <1>2
<1>4. \A i \in 1..w : Quiet(m1.events[m.count + i], x)
  <2> SUFFICES ASSUME NEW i \in 1..w PROVE Quiet(m1.events[m.count + i], x) OBVIOUS
  <2>1. m.count + i \in (m.count + 1)..Len(m.events) /\ m.count + i \in 1..Len(m.events) BY <1>2, <1>3
  <2> DEFINE n == m.count + i
  <2> HIDE DEF n
  <2>2. m1.events[n] = m.events[n] BY <2>1 DEF Longer, n
  <2> QED BY <2>1, <2>2 DEF Waits, Quiet, n
<1> HIDE DEF w
<1>5. \A i \in 1..Len(s) : m1.events[m.count + (w + i)] = s[i] BY <1>2, <1>3 DEF Longer
<1>6. m1.count < Len(m1.events) BY <1>1, <1>2
<1>7. \A i \in (m1.count + 1)..Len(m1.events) : m1.events[i][2] = x
  <2> SUFFICES ASSUME NEW i \in (m1.count + 1)..Len(m1.events) PROVE m1.events[i][2] = x OBVIOUS
  <2> DEFINE j == i - m.count
  <2>1. i = m.count + j /\ j \in 1..(w + Len(s)) BY <1>1, <1>2, <1>3
  <2> HIDE DEF j
  <2>2. CASE j \in 1..w BY <1>4, <2>1, <2>2 DEF Quiet
  <2>3. CASE j \notin 1..w
    <3> DEFINE n == j - w
    <3>1. n \in 1..Len(s) /\ j = w + n BY <1>2, <1>3, <2>1, <2>3
    <3> HIDE DEF n
    <3>2. m1.events[m.count + (w + n)] = s[n] BY <1>5, <3>1
    <3> QED BY <2>1, <3>1, <3>2 DEF Piece
  <2> QED BY <2>2, <2>3
<1>8. PICK rec : /\ Tailed(m1, rec) /\ rec.run \in {x, m1.active}
                 /\ (\E i \in 1..Len(rec.events) : Named(rec.events[i])) => rec.run = x
                 /\ Flush(d, m1) = Outcome([m1 EXCEPT !.count = Len(m1.events)],
                                           <<<<"history", Append(d.history, rec)>>>>)
  BY <1>1, <1>6, <1>7, FlushIs
<1>9. /\ rec \in Records /\ rec.kind = "events" /\ Len(rec.events) = w + Len(s)
      /\ \A i \in 1..Len(rec.events) : rec.events[i] = m1.events[m.count + i] BY <1>1, <1>2, <1>3, <1>8 DEF Tailed
<1>10. \A i \in 1..w : Quiet(rec.events[i], x)
  <2>1. \A i \in 1..w : i \in 1..Len(rec.events) BY <1>2, <1>3, <1>9
  <2> QED BY <1>4, <1>9, <2>1
<1>11. \A i \in 1..Len(s) : rec.events[w + i] = s[i]
  <2>1. \A i \in 1..Len(s) : w + i \in 1..Len(rec.events) BY <1>2, <1>3, <1>9
  <2> QED BY <1>5, <1>9, <2>1
<1>12. rec.run \in {x, None} BY <1>8
<1>13. Carries(rec, s, x) BY <1>3, <1>9, <1>10, <1>11, <1>12, PieceRecord
<1>14. (\E f : Holds(s, f) /\ Named(f)) => rec.run = x BY <1>8, <1>13 DEF Carries, Has
<1>15. Flushed(d, m1, s, x, rec) BY <1>8, <1>12, <1>13, <1>14 DEF Flushed
<1> QED BY <1>15

-----------------------------------------------------------------------------
(* The history of a run against what of its stream has been dealt with.    *)

\* What of them is of weight.
LEMMA BroughtIs ==
  ASSUME NEW x \in Runs, NEW e \in Pairs, e[2] = x, NEW S, NEW s, Brings(s, e, S, x),
         NEW rec, Carries(rec, s, x), NEW f, Has(rec, f)
  PROVE  /\ f[2] = x
         /\ f[1] \in {"result", "call"} \/ Terminal(f) => f = e
         /\ f[1] = "text_end" => Says("text_end", x) \notin S \/ f = e
         /\ EndsMessage(f) => f[1] \in {"text_end", "result"}
         /\ ~ Terminal(e) /\ EndsMessage(f) => f = e
         /\ f \in Pairs => f = Says(f[1], x)
<1>1. f \in Pairs BY ElementOfSeq DEF Carries, Records, Has
<1>2. f = Says(f[1], f[2]) /\ e = Says(e[1], e[2]) BY <1>1, PairIs
<1>3. CASE Quiet(f, x) BY <1>2, <1>3 DEF Quiet, Terminal, EndsMessage
<1>4. CASE Holds(s, f)
  <2>1. f[2] = x /\ f[1] # "input" BY <1>4 DEF Holds, Brings, Piece
  <2>2. CASE f = e BY <1>2, <2>1, <2>2 DEF EndsMessage, Terminal
  <2>3. CASE /\ f \in {Says("text", x), Says("text_end", x)} /\ Says("text_end", x) \notin S
             /\ e[1] = "text_end" \/ Terminal(e)
    BY <1>2, <2>1, <2>3 DEF EndsMessage, Terminal, Says
  <2>4. CASE f = Says("run_started", x) /\ Terminal(e)
    BY <1>2, <2>1, <2>4 DEF EndsMessage, Terminal, Says
  <2> QED BY <1>4, <2>2, <2>3, <2>4 DEF Brings
<1> QED BY <1>3, <1>4 DEF Carries

\* The record of an event that comes next can be appended.
LEMMA TellFits ==
  ASSUME NEW h \in Seq(Records), NEW x \in Runs, NEW e \in Pairs, e[2] = x, NEW S, e \notin S,
         ~ Over(S, x), NEW deaf, NEW again, Told(h, x, S, deaf, again), e[1] = "result" => Says("call", x) \in S,
         NEW s, Brings(s, e, S, x), NEW rec, Carries(rec, s, x), rec.run \in {x, None},
         ~ Removed(h, x), rec.run = None => Whole(h)
  PROVE  Fits(h, rec)
<1>1. \A f : Has(rec, f) => /\ f[2] = x
                            /\ f[1] \in {"result", "call"} \/ Terminal(f) => f = e
                            /\ f[1] = "text_end" => Says("text_end", x) \notin S \/ f = e
                            /\ EndsMessage(f) => f[1] \in {"text_end", "result"}
                            /\ f \in Pairs => f = Says(f[1], x)
  BY BroughtIs
<1>2. e = Says(e[1], x) BY PairIs
<1>3. ASSUME NEW f \in Pairs, Has(rec, f), EndsMessage(f) PROVE ~ In(h, f)
  <2>1. f = Says(f[1], x) /\ f[1] \in {"text_end", "result"} BY <1>1, <1>3
  <2>2. Says(f[1], x) \notin S BY <1>1, <1>3, <2>1, <1>2
  <2> QED BY <2>1, <2>2 DEF Told
<1>4. ASSUME NEW y \in Runs, Has(rec, Says("result", y)) PROVE CallLast(h, y) \/ ~ In(h, Says("call", y))
  BY <1>1, <1>4 DEF Says, Told
<1>5. ~ Removed(h, rec.run) BY DEF Removed, Whole
<1>6. ASSUME NEW f \in Pairs, NEW t \in Pairs, Terminal(f), In(h, f), Has(rec, t), t[2] = f[2]
      PROVE  FALSE BY <1>1, <1>6, PairIs DEF Terminal, Over, Told
<1>7. RecordInv(rec) /\ rec.kind # "remove" BY DEF Carries
<1> QED BY <1>3, <1>4, <1>5, <1>6, <1>7 DEF Fits

\* With it the event was dealt with.
LEMMA TellMore ==
  ASSUME NEW h \in Seq(Records), NEW x \in Runs, NEW e \in Pairs, e[2] = x, NEW S, e \notin S,
         ~ Over(S, x), Sane(S, x), Sane(S \cup {e}, x),
         e[1] \in {"run_started", "text_end", "call", "result", "run_finished", "run_error"},
         NEW deaf, NEW again, Told(h, x, S, deaf, again),
         NEW s, Brings(s, e, S, x), NEW rec, Carries(rec, s, x), NEW g, Grown(h, g, rec)
  PROVE  Told(g, x, S \cup {e}, deaf, again)
<1> DEFINE T == S \cup {e}
<1>1. \A f : Has(rec, f) => /\ f[2] = x
                            /\ f[1] \in {"result", "call"} \/ Terminal(f) => f = e
                            /\ f[1] = "text_end" => Says("text_end", x) \notin S \/ f = e
                            /\ EndsMessage(f) => f[1] \in {"text_end", "result"}
                            /\ ~ Terminal(e) /\ EndsMessage(f) => f = e
  BY BroughtIs
<1>2. e = Says(e[1], x) /\ Has(rec, e) BY PairIs DEF Brings, Carries
<1>3. /\ g \in Seq(Records) /\ Len(h) \in Nat /\ Len(g) = Len(h) + 1 /\ Len(g) \in 1..Len(g) /\ g[Len(g)] = rec
      /\ \A k \in 1..Len(h) : k \in 1..Len(g) /\ g[k] = h[k] /\ k # Len(g)
      /\ \A f : In(g, f) <=> In(h, f) \/ Has(rec, f)
  BY GrownFacts
<1>4. \A k \in 1..Len(h) : EndsIn(g, k) <=> EndsIn(h, k) BY <1>3 DEF EndsIn
<1>5. ASSUME ~ Over(T, x), Says("call", x) \in T, Says("result", x) \notin T
      PROVE  CallLast(g, x) \/ (deaf /\ ~ In(g, Says("call", x)))
  <2>1. ~ Terminal(e) /\ e # Says("result", x) /\ Says("result", x) \notin S
    BY <1>2, <1>5 DEF Over, Terminal
  <2>2. CASE e = Says("call", x)
    <3>1. \A f \in Pairs : Has(rec, f) => ~ EndsMessage(f)
      BY <1>1, <2>1, <2>2 DEF EndsMessage, Says
    <3>2. ~ EndsIn(g, Len(g)) BY <1>3, <3>1 DEF EndsIn
    <3>3. \A n \in Len(g)..Len(g) : n = Len(g) BY <1>3
    <3> QED BY <1>2, <1>3, <2>2, <3>2, <3>3 DEF CallLast
  <2>3. CASE e # Says("call", x)
    <3>1. Says("call", x) \in S BY <1>5, <2>3
    <3>2. e # Says("text_end", x) BY <2>1, <3>1 DEF Sane, Says
    <3>3. \A f \in Pairs : Has(rec, f) => ~ EndsMessage(f) BY <1>2, <2>1, <3>2, <1>1 DEF EndsMessage
    <3>4. ~ EndsIn(g, Len(g)) BY <1>3, <3>3 DEF EndsIn
    <3>5. CASE CallLast(h, x)
      <4>1. PICK k \in 1..Len(h) : Has(h[k], Says("call", x)) /\ \A n \in k..Len(h) : ~ EndsIn(h, n)
        BY <3>5 DEF CallLast
      <4>2. \A n \in k..Len(g) : n = Len(g) \/ (n \in k..Len(h) /\ n \in 1..Len(h)) BY <1>3
      <4>3. \A n \in k..Len(g) : ~ EndsIn(g, n) BY <1>4, <3>4, <4>1, <4>2
      <4> QED BY <1>3, <4>1, <4>3 DEF CallLast
    <3>6. CASE deaf /\ ~ In(h, Says("call", x)) BY <1>1, <2>3, <1>3, <3>6 DEF Says
    <3>7. ~ Over(S, x) BY DEF Over
    <3> QED BY <2>1, <3>1, <3>5, <3>6 DEF Told
  <2> QED BY <2>2, <2>3
<1>6. ASSUME Says("call", x) \notin T PROVE again \/ ~ In(g, Says("call", x)) BY <1>6, <1>1, <1>3 DEF Told, Says
<1>7. ASSUME ~ Over(T, x), NEW t \in {"text_end", "result", "run_finished", "run_error"}, Says(t, x) \notin T
      PROVE  ~ In(g, Says(t, x))
  <2>1. ~ In(h, Says(t, x)) BY <1>7 DEF Told
  <2>2. ~ Terminal(e) BY <1>2, <1>7 DEF Over, Terminal
  <2>3. EndsMessage(Says(t, x)) \/ Terminal(Says(t, x)) BY DEF EndsMessage, Terminal, Says
  <2>4. ~ Has(rec, Says(t, x)) BY <1>1, <1>7, <2>2, <2>3
  <2> QED BY <1>3, <2>1, <2>4
<1>8. ASSUME ~ deaf, ~ again, Says("text_end", x) \in T PROVE In(g, Says("text_end", x))
  BY <1>2, <1>3, <1>8 DEF Told
<1>9. ASSUME ~ deaf, ~ again, Says("result", x) \in T PROVE CalledBefore(g, x)
  <2>1. CASE Says("result", x) \in S BY <1>9, <2>1, <1>3 DEF Told, CalledBefore
  <2>2. CASE Says("result", x) \notin S
    <3>1. e = Says("result", x) /\ e # Says("call", x) BY <1>9, <2>2 DEF Says
    <3>2. Says("call", x) \in S BY <1>9, <3>1 DEF Sane
    <3>3. CallLast(h, x) BY <1>9, <2>2, <3>2 DEF Told
    <3>4. PICK l \in 1..Len(h) : Has(h[l], Says("call", x)) BY <3>3 DEF CallLast
    <3>5. l \in 1..Len(g) /\ l < Len(g) /\ Has(g[l], Says("call", x)) BY <1>3, <3>4
    <3> QED BY <1>2, <1>3, <3>1, <3>5 DEF CalledBefore
  <2> QED BY <2>1, <2>2
<1> QED BY <1>5, <1>6, <1>7, <1>8, <1>9 DEF Told

\* A write that failed lost it, and is noted.
LEMMA TellNot ==
  ASSUME NEW h, NEW x, NEW e, NEW S, NEW deaf, Told(h, x, S, deaf, FALSE),
         ~ Over(S, x)
  PROVE  Told(h, x, S \cup {e}, TRUE, FALSE)
<1> DEFINE T == S \cup {e}
<1>1. ASSUME ~ Over(T, x), Says("call", x) \in T, Says("result", x) \notin T
      PROVE  CallLast(h, x) \/ ~ In(h, Says("call", x)) BY <1>1 DEF Told
<1>2. Says("call", x) \notin T => ~ In(h, Says("call", x)) BY DEF Told
<1>3. \A t \in {"text_end", "result", "run_finished", "run_error"} : Says(t, x) \notin T => ~ In(h, Says(t, x))
  BY DEF Told
<1> QED BY <1>1, <1>2, <1>3 DEF Told

\* An event of no weight for the history.
LEMMA TellNothing ==
  ASSUME NEW h, NEW x, NEW e, e[1] \in {"text_start", "text", "compacted"}, NEW S, NEW deaf, NEW again,
         Told(h, x, S, deaf, again)
  PROVE  Told(h, x, S \cup {e}, deaf, again)
BY DEF Says, Over, Told

\* The record of a run whose input is in the history.
LEMMA GrownBefore ==
  ASSUME NEW h \in Seq(Records), NEW rec, rec.kind # "input", NEW g, Grown(h, g, rec), NEW x, NoneBefore(h, x)
  PROVE  NoneBefore(g, x)
BY GrownFacts DEF NoneBefore

-----------------------------------------------------------------------------
(* The pieces, and the memory with them.                                   *)

\* A single event.
LEMMA PieceOne ==
  ASSUME NEW x \in Runs, NEW e \in Pairs, e[2] = x, e[1] \notin {"input", "text_end"}
  PROVE  Piece(<<e>>, x) /\ \A f : Holds(<<e>>, f) <=> f = e
<1>1. <<e>> \in Seq(Pairs) /\ Len(<<e>>) = 1 /\ <<e>>[1] = e OBVIOUS
<1>2. \A i \in 1..1 : i = 1 OBVIOUS
<1> DEFINE s == <<e>>
<1>3. s \in Seq(Pairs) /\ Len(s) = 1 /\ \A i \in 1..1 : s[i] = e BY <1>1, <1>2
<1> HIDE DEF s
<1>4. \A f : Holds(s, f) <=> f = e BY <1>3 DEF Holds
<1>5. Piece(s, x) BY <1>2, <1>3 DEF Piece
<1> QED BY <1>4, <1>5 DEF s

\* Events are pairs.
LEMMA SaysIsPair ==
  ASSUME NEW x \in Runs
  PROVE  \A t \in Kinds : Says(t, x) \in Pairs /\ Says(t, x)[1] = t /\ Says(t, x)[2] = x
BY DEF Says, Pairs

\* A text that is closed.
LEMMA PieceText ==
  ASSUME NEW x \in Runs
  PROVE  /\ Piece(Text(x), x) /\ Len(Text(x)) = 2
         /\ \A f : Holds(Text(x), f) <=> f \in {Says("text", x), Says("text_end", x)}
<1> DEFINE a == Says("text", x)
           b == Says("text_end", x)
           s == <<a, b>>
<1>1. "text" \in Kinds /\ "text_end" \in Kinds BY DEF Kinds, Relayable
<1>2. a \in Pairs /\ b \in Pairs /\ a[1] = "text" /\ a[2] = x /\ b[1] = "text_end" /\ b[2] = x
  BY <1>1, SaysIsPair
<1>3. a = Says("text", x) OBVIOUS
<1>4. Text(x) = s BY DEF Text
<1> HIDE DEF a, b
<1>5. s \in Seq(Pairs) /\ Len(s) = 2 /\ s[1] = a /\ s[2] = b BY <1>2
<1>6. \A i \in 1..2 : i = 1 \/ i = 2 OBVIOUS
<1>7. 1 \in 1..2 /\ 2 \in 1..2 /\ 1 \in 1..(2 - 1) OBVIOUS
<1> HIDE DEF s
<1>8. \A f : Holds(s, f) <=> f \in {a, b} BY <1>5, <1>6, <1>7 DEF Holds
<1>9. Piece(s, x) BY <1>2, <1>5, <1>6, <1>3, <1>7 DEF Terminal, EndsMessage, Piece
<1> QED BY <1>4, <1>5, <1>8, <1>9 DEF a, b

\* A text that is closed, with the end of the run after it.
LEMMA PieceBoth ==
  ASSUME NEW x \in Runs, NEW t, Piece(t, x),
         \A f : Holds(t, f) => f[1] \in {"run_started", "run_finished", "run_error"}
  PROVE  /\ Piece(Text(x) \o t, x)
         /\ \A f : Holds(Text(x) \o t, f) <=> f \in {Says("text", x), Says("text_end", x)} \/ Holds(t, f)
<1> DEFINE u == Text(x)
           s == u \o t
<1>1. Piece(u, x) /\ Len(u) = 2 /\ \A f : Holds(u, f) <=> f \in {Says("text", x), Says("text_end", x)}
  BY PieceText
<1>2. u \in Seq(Pairs) /\ t \in Seq(Pairs) /\ Len(t) \in Nat \ {0} BY <1>1 DEF Piece
<1>3. /\ s \in Seq(Pairs) /\ Len(s) = 2 + Len(t)
      /\ \A i \in 1..(2 + Len(t)) : s[i] = IF i <= 2 THEN u[i] ELSE t[i - 2]
  <2>1. Len(u) = 2 BY <1>1
  <2>2. u \in Seq(Pairs) /\ t \in Seq(Pairs) BY <1>2
  <2> HIDE DEF u, s
  <2>3. /\ s \in Seq(Pairs) /\ Len(s) = Len(u) + Len(t)
        /\ \A i \in 1..(Len(u) + Len(t)) : s[i] = IF i <= Len(u) THEN u[i] ELSE t[i - Len(u)]
    BY <2>2, ConcatProperties DEF s
  <2> QED BY <2>1, <2>3
<1>4. \A f \in {Says("text", x), Says("text_end", x)} :
        /\ f[2] = x /\ f[1] \in {"text", "text_end"}
  BY DEF Says
<1> HIDE DEF u, s
<1>5. \A i \in 1..2 : i \in 1..Len(s) /\ s[i] = u[i] BY <1>2, <1>3
<1>6. \A i \in 1..Len(t) : 2 + i \in 1..Len(s) /\ s[2 + i] = t[i]
  <2> SUFFICES ASSUME NEW i \in 1..Len(t) PROVE 2 + i \in 1..Len(s) /\ s[2 + i] = t[i] OBVIOUS
  <2>1. 2 + i \in 1..(2 + Len(t)) /\ ~ (2 + i <= 2) /\ 2 + i - 2 = i BY <1>2
  <2> QED BY <1>3, <2>1
<1>7. \A i \in 1..Len(s) : \/ i \in 1..2 /\ s[i] = u[i]
                           \/ i - 2 \in 1..Len(t) /\ s[i] = t[i - 2]
  <2> SUFFICES ASSUME NEW i \in 1..Len(s), i \notin 1..2 PROVE i - 2 \in 1..Len(t) /\ s[i] = t[i - 2] BY <1>5
  <2>1. ~ (i <= 2) /\ i - 2 \in 1..Len(t) BY <1>2, <1>3
  <2> QED BY <1>3, <2>1
<1>8. \A f : Holds(s, f) <=> Holds(u, f) \/ Holds(t, f) BY SMTT(30), <1>1, <1>5, <1>6, <1>7 DEF Holds
<1>9. \A i \in 1..Len(t) : t[i][1] \in {"run_started", "run_finished", "run_error"} BY DEF Holds
<1>10. \A i \in 1..2 : u[i][1] \in {"text", "text_end"} BY <1>1, <1>4 DEF Holds
<1>11. Piece(s, x)
  <2>1. \A i \in 1..Len(s) : s[i][2] = x /\ s[i][1] # "input" /\ s[i][1] # "call"
    <3>1. \A i \in 1..Len(u) : u[i][2] = x BY <1>1 DEF Piece
    <3>2. \A i \in 1..Len(t) : t[i][2] = x BY DEF Piece
    <3>3. \A i \in 1..2 : u[i][2] = x BY <1>1, <3>1
    <3> QED BY SMTT(30), <1>7, <1>9, <1>10, <3>2, <3>3
  <2>2. ASSUME NEW i \in 1..Len(s), NEW j \in 1..Len(s), EndsMessage(s[i]), EndsMessage(s[j])
        PROVE  i = j BY <1>7, <1>9, <2>2, <1>1 DEF EndsMessage, Piece
  <2>3. ASSUME NEW i \in 1..Len(s), s[i][1] = "text_end"
        PROVE  \E j \in 1..(i - 1) : s[j] = Says("text", x)
    <3>1. i \in 1..2 /\ u[i][1] = "text_end" BY <1>7, <1>9, <2>3
    <3>2. PICK j \in 1..(i - 1) : u[j] = Says("text", x) BY <1>1, <3>1 DEF Piece
    <3>3. j \in 1..2 BY <3>1
    <3> QED BY <1>5, <3>2, <3>3
  <2>4. ASSUME NEW i \in 1..Len(s), Terminal(s[i]) PROVE i = Len(s)
    <3>1. i - 2 \in 1..Len(t) /\ Terminal(t[i - 2]) BY <1>7, <1>10, <2>4 DEF Terminal
    <3>2. i - 2 = Len(t) BY <3>1 DEF Piece
    <3> QED BY <1>2, <1>3, <3>2
  <2>5. Len(s) \in Nat \ {0} BY <1>2, <1>3
  <2> QED BY <1>3, <2>1, <2>2, <2>3, <2>4, <2>5 DEF Piece
<1> QED BY <1>1, <1>8, <1>11 DEF s, u

\* A stop of a run that had not started.
LEMMA PieceEnds ==
  ASSUME NEW x \in Runs
  PROVE  LET s == <<Says("run_started", x), Says("run_finished", x)>>
         IN Piece(s, x) /\ \A f : Holds(s, f) <=> f \in {Says("run_started", x), Says("run_finished", x)}
<1> DEFINE a == Says("run_started", x)
           b == Says("run_finished", x)
           s == <<a, b>>
<1>1. "run_started" \in Kinds /\ "run_finished" \in Kinds BY DEF Kinds, Relayable
<1>2. a \in Pairs /\ b \in Pairs /\ a[1] = "run_started" /\ a[2] = x /\ b[1] = "run_finished" /\ b[2] = x
  BY <1>1, SaysIsPair
<1> HIDE DEF a, b
<1>5. s \in Seq(Pairs) /\ Len(s) = 2 /\ s[1] = a /\ s[2] = b BY <1>2
<1>6. \A i \in 1..2 : i = 1 \/ i = 2 OBVIOUS
<1>7. 1 \in 1..2 /\ 2 \in 1..2 OBVIOUS
<1> HIDE DEF s
<1>8. \A f : Holds(s, f) <=> f \in {a, b} BY <1>5, <1>6, <1>7 DEF Holds
<1>9. Piece(s, x) BY <1>2, <1>5, <1>6 DEF Terminal, EndsMessage, Piece
<1> QED BY <1>8, <1>9 DEF a, b, s

\* More events behind those of the memory.
LEMMA LongerBy ==
  ASSUME NEW m \in Memories, NEW m1 \in Memories, m1.count = m.count, NEW s \in Seq(Pairs), m1.events = m.events \o s
  PROVE  Longer(m, m1, s)
<1>1. m.events \in Seq(Pairs) BY DEF Memories
<1>2. /\ Len(m1.events) = Len(m.events) + Len(s) /\ Len(m.events) \in Nat /\ Len(s) \in Nat
      /\ \A i \in 1..(Len(m.events) + Len(s)) :
           m1.events[i] = IF i <= Len(m.events) THEN m.events[i] ELSE s[i - Len(m.events)]
  BY <1>1, ConcatProperties, LenProperties
<1>3. \A i \in 1..Len(m.events) : m1.events[i] = m.events[i] BY <1>2
<1>4. ASSUME NEW i \in 1..Len(s) PROVE m1.events[Len(m.events) + i] = s[i]
  <2> DEFINE n == Len(m.events) + i
  <2>1. n \in 1..(Len(m.events) + Len(s)) /\ ~ (n <= Len(m.events)) /\ n - Len(m.events) = i BY <1>2
  <2> QED BY <1>2, <2>1
<1> QED BY <1>2, <1>3, <1>4 DEF Longer

\* One more event is a piece of one event more.
LEMMA AppendIsJoin ==
  ASSUME NEW u \in Seq(Pairs), NEW e \in Pairs
  PROVE  Append(u, e) = u \o <<e>> /\ <<e>> \in Seq(Pairs)
<1>1. <<e>> \in Seq(Pairs) /\ Len(<<e>>) = 1 /\ <<e>>[1] = e OBVIOUS
<1> DEFINE s == <<e>>
           a == Append(u, e)
<1> HIDE DEF s
<1>2. s \in Seq(Pairs) /\ Len(s) = 1 /\ s[1] = e BY <1>1 DEF s
<1>3. /\ u \o s \in Seq(Pairs) /\ Len(u \o s) = Len(u) + 1 /\ Len(u) \in Nat
      /\ \A i \in 1..(Len(u) + 1) : (u \o s)[i] = IF i <= Len(u) THEN u[i] ELSE s[i - Len(u)]
  BY <1>2, ConcatProperties, LenProperties
<1>4. /\ a \in Seq(Pairs) /\ Len(a) = Len(u) + 1
      /\ \A i \in 1..(Len(u) + 1) : a[i] = IF i = Len(u) + 1 THEN e ELSE u[i]
  BY AppendProperties
<1> HIDE DEF a
<1>5. \A i \in 1..(Len(u) + 1) : a[i] = (u \o s)[i]
  <2> SUFFICES ASSUME NEW i \in 1..(Len(u) + 1) PROVE a[i] = (u \o s)[i] OBVIOUS
  <2>1. CASE i = Len(u) + 1 BY <1>3, <2>1, <1>2, <1>4
  <2>2. CASE i # Len(u) + 1 BY <1>3, <2>2, <1>4
  <2> QED BY <2>1, <2>2
<1>6. a = u \o s BY <1>3, <1>4, <1>5, SeqEqual
<1> QED BY <1>1, <1>6 DEF a, s

-----------------------------------------------------------------------------
(* The memory after the texts of a run are closed.                         *)

\* A function on 1 is a sequence of one.
LEMMA SingleIs ==
  ASSUME NEW a \in Pairs
  PROVE  [i \in 1..1 |-> a] = <<a>>
<1> DEFINE f == [i \in 1..1 |-> a]
<1>1. f \in Seq(Pairs) /\ Len(f) = 1 /\ f[1] = a OBVIOUS
<1>2. <<a>> \in Seq(Pairs) /\ Len(<<a>>) = 1 /\ <<a>>[1] = a OBVIOUS
<1> HIDE DEF f
<1>3. \A i \in 1..1 : i = 1 OBVIOUS
<1>4. f = <<a>> BY <1>1, <1>2, <1>3, SeqEqual
<1> QED BY <1>4 DEF f

\* Two of them one behind the other.
LEMMA PairIsJoin ==
  ASSUME NEW a \in Pairs, NEW b \in Pairs
  PROVE  <<a>> \o <<b>> = <<a, b>>
<1> DEFINE s == <<a>>
           t == <<b>>
           u == <<a, b>>
<1>1. s \in Seq(Pairs) /\ t \in Seq(Pairs) /\ Len(s) = 1 /\ Len(t) = 1 /\ s[1] = a /\ t[1] = b OBVIOUS
<1>2. u \in Seq(Pairs) /\ Len(u) = 2 /\ u[1] = a /\ u[2] = b OBVIOUS
<1> HIDE DEF s, t, u
<1>3. /\ s \o t \in Seq(Pairs) /\ Len(s \o t) = Len(s) + Len(t)
      /\ \A i \in 1..(Len(s) + Len(t)) : (s \o t)[i] = IF i <= Len(s) THEN s[i] ELSE t[i - Len(s)]
  BY <1>1, ConcatProperties
<1>4. \A i \in 1..2 : (s \o t)[i] = u[i] BY <1>1, <1>2, <1>3
<1>5. s \o t = u BY <1>1, <1>2, <1>3, <1>4, SeqEqual
<1> QED BY <1>5 DEF s, t, u

\* The texts of run x are one, if it has content, or none.
LEMMA SealedIs ==
  ASSUME NEW m \in Memories, NEW x \in Runs, \A b \in m.text : b.msg = x
  PROVE  LET s == IF \E b \in m.text : b.run = x /\ b.some THEN Text(x) ELSE <<>>
         IN \E w : /\ w \subseteq Pairs /\ \A r : <<"U", r>> \in w => <<"U", r>> \in m.messages
                   /\ Sealed(m, x) = [m EXCEPT !.events = m.events \o s, !.messages = w,
                                               !.text = {b \in m.text : b.run # x}]
                   /\ s \in Seq(Pairs) /\ m.events \o s \in Seq(Pairs)
<1> DEFINE filled == {b \in m.text : b.run = x /\ b.some}
           names == {b.msg : b \in filled}
           texts == SetToSeq(names)
           s == IF \E b \in m.text : b.run = x /\ b.some THEN Text(x) ELSE <<>>
           w == m.messages \cup {<<"T", b.msg>> : b \in filled}
           a == [i \in DOMAIN texts |-> Says("text", texts[i])]
           z == [i \in DOMAIN texts |-> Says("text_end", texts[i])]
<1>1. Sealed(m, x) = [m EXCEPT !.events = m.events \o a \o z, !.messages = w,
                               !.text = {b \in m.text : b.run # x}]
  BY DEF Sealed
<1>2. m.events \in Seq(Pairs) /\ m.messages \subseteq Pairs BY DEF Memories
<1>3. w \subseteq Pairs /\ \A r : <<"U", r>> \in w => <<"U", r>> \in m.messages BY <1>2 DEF Pairs, Kinds
<1>4. s \in Seq(Pairs) /\ m.events \o s \in Seq(Pairs)
  <2>1. Text(x) \in Seq(Pairs) BY PieceText DEF Piece
  <2>2. <<>> \in Seq(Pairs) BY EmptySeq
  <2>3. s \in Seq(Pairs) BY <2>1, <2>2
  <2> HIDE DEF s
  <2> QED BY <1>2, <2>3, ConcatProperties
<1>5. m.events \o a \o z = m.events \o s
  <2>1. CASE \E b \in m.text : b.run = x /\ b.some
    <3>1. names = {x} BY <2>1
    <3>2. IsFiniteSet(names) /\ Cardinality(names) = 1 BY <3>1, FS_Singleton
    <3>3. texts \in Seq(names) /\ Len(texts) = 1 BY <3>2, SetToSeqFacts
    <3>4. DOMAIN texts = 1..1 /\ texts[1] = x BY <3>3, LenProperties, ElementOfSeq, <3>1
    <3> HIDE DEF texts
    <3>5. "text" \in Kinds /\ "text_end" \in Kinds BY DEF Kinds, Relayable
    <3>6. Says("text", x) \in Pairs /\ Says("text_end", x) \in Pairs BY <3>5, SaysIsPair
    <3>7. \A i \in 1..1 : texts[i] = x BY <3>4
    <3>8. a = [i \in 1..1 |-> Says("text", x)] /\ z = [i \in 1..1 |-> Says("text_end", x)] BY <3>4, <3>7
    <3>9. a = <<Says("text", x)>> /\ z = <<Says("text_end", x)>> BY <3>6, <3>8, SingleIs
    <3>10. a \in Seq(Pairs) /\ z \in Seq(Pairs) BY <3>6, <3>9
    <3>11. m.events \o a \o z = m.events \o (a \o z) BY <1>2, <3>10, JoinThree
    <3>12. a \o z = Text(x) BY <3>6, <3>9, PairIsJoin DEF Text
    <3> QED BY <2>1, <3>11, <3>12
  <2>2. CASE ~ \E b \in m.text : b.run = x /\ b.some
    <3>1. names = {} BY <2>2
    <3>2. IsFiniteSet(names) /\ Cardinality(names) = 0 BY <3>1, FS_EmptySet
    <3>3. texts \in Seq(names) /\ Len(texts) = 0 BY <3>2, SetToSeqFacts
    <3>4. DOMAIN texts = {} BY <3>3, LenProperties
    <3> HIDE DEF texts
    <3>5. a = <<>> /\ z = <<>> BY <3>4
    <3>6. m.events \o <<>> = m.events BY <1>2, ConcatEmptySeq
    <3> QED BY <2>2, <3>5, <3>6
  <2> QED BY <2>1, <2>2
<1> HIDE DEF a, z, w, s, filled, names, texts
<1>6. Sealed(m, x) = [m EXCEPT !.events = m.events \o s, !.messages = w, !.text = {b \in m.text : b.run # x}]
  BY <1>1, <1>5
<1> QED BY <1>3, <1>4, <1>6 DEF s

-----------------------------------------------------------------------------
(* The memory against what of the stream has been dealt with.              *)

\* An event that leaves the buffers alone.
LEMMA HearLike ==
  ASSUME NEW m \in Memories, NEW x \in Runs, NEW S, NEW again, Heard(m, x, S, again), ~ Off(m, x), ~ Over(S, x),
         NEW m1 \in Memories, SameStops(m, m1), m1.text = m.text, m1.active \in {x, None},
         NEW T, ~ Over(T, x), \A t \in {"text_start", "text", "text_end"} : Says(t, x) \in T <=> Says(t, x) \in S,
         Says("run_started", x) \in T /\ ~ again => m1.active = x
  PROVE  Heard(m1, x, T, again)
BY DEF Off, SameStops, Heard

\* The memory with more events, whatever else of it changes.
LEMMA MovedBy ==
  ASSUME NEW m \in Memories, NEW s \in Seq(Pairs), NEW w \in SUBSET Pairs, NEW a \in Runs \cup {None},
         NEW ts \in SUBSET Texts, NEW us \in SUBSET Tools, NoUser(w, m.messages),
         NEW ev, ev = m.events \o s
  PROVE  Moved(m, Made(m, ev, w, a, ts, us), s)
<1> DEFINE m1 == Made(m, ev, w, a, ts, us)
<1>1. ev \in Seq(Pairs) BY ConcatProperties DEF Memories
<1>2. m1 \in Memories /\ m1.events = ev /\ m1.count = m.count BY <1>1 DEF Memories, Made
<1>3. SameStops(m, m1) /\ SameUsers(m, m1) BY DEF SameStops, SameUsers, NoUser, Memories, Made
<1> HIDE DEF m1
<1>4. Longer(m, m1, s) BY <1>2, LongerBy
<1> QED BY <1>3, <1>4 DEF Moved, m1

\* With one.
LEMMA MovedOne ==
  ASSUME NEW m \in Memories, NEW e \in Pairs, NEW w \in SUBSET Pairs, NEW a \in Runs \cup {None},
         NEW ts \in SUBSET Texts, NEW us \in SUBSET Tools, NoUser(w, m.messages)
  PROVE  /\ Moved(m, Made(m, Append(m.events, e), w, a, ts, us), <<e>>)
         /\ Made(m, Append(m.events, e), w, a, ts, us) \in Memories
         /\ Made(m, Append(m.events, e), w, a, ts, us).text = ts
         /\ Made(m, Append(m.events, e), w, a, ts, us).active = a
         /\ SameStops(m, Made(m, Append(m.events, e), w, a, ts, us))
<1> DEFINE ev == Append(m.events, e)
<1>1. ev = m.events \o <<e>> /\ <<e>> \in Seq(Pairs) BY AppendIsJoin DEF Memories
<1> HIDE DEF ev
<1>2. Moved(m, Made(m, ev, w, a, ts, us), <<e>>) BY <1>1, MovedBy
<1>3. Made(m, ev, w, a, ts, us).text = ts /\ Made(m, ev, w, a, ts, us).active = a BY DEF Made, Memories
<1> QED BY <1>2, <1>3 DEF ev, Moved, Longer

\* One event brings itself.
LEMMA BringsOne ==
  ASSUME NEW x \in Runs, NEW e \in Pairs, e[2] = x, e[1] \notin {"input", "text_end"}, NEW S
  PROVE  Brings(<<e>>, e, S, x)
BY PieceOne DEF Brings

\* What an accepted event makes of the memory: the start of the run.
LEMMA ProjectedStart ==
  ASSUME NEW m \in Memories, NEW e, NEW x, e[2] = x, e[1] = "run_started"
  PROVE  Projected(m, e) = Made(m, Append(m.events, e), m.messages, x, m.text, m.tool)
<1>1. Projected(m, e) = [[m EXCEPT !.events = Append(m.events, e)] EXCEPT !.active = x]
  BY DEF Projected, Terminal
<1> DEFINE ev == Append(m.events, e)
<1> HIDE DEF ev
<1> QED BY <1>1 DEF Memories, Made, ev

\* What an accepted event makes of the memory: a call.
LEMMA ProjectedCall ==
  ASSUME NEW m \in Memories, NEW e, NEW x, e[2] = x, e[1] = "call"
  PROVE  Projected(m, e) = Made(m, Append(m.events, e), m.messages, m.active, m.text, Called(m, x))
<1>1. Projected(m, e) = [[m EXCEPT !.events = Append(m.events, e)] EXCEPT !.tool =
              (m.tool \ ToolsOf(m, x)) \cup {[msg |-> x, run |-> m.active]}]
  BY DEF Projected, ToolsOf, Terminal
<1> DEFINE ev == Append(m.events, e)
           us == Called(m, x)
<1>2. Projected(m, e) = [[m EXCEPT !.events = ev] EXCEPT !.tool = us] BY <1>1 DEF Called
<1> HIDE DEF ev, us
<1> QED BY <1>2 DEF Memories, Made, ev, us
\* What an accepted event makes of the memory: the result of a call.
LEMMA ProjectedResult ==
  ASSUME NEW m \in Memories, NEW e, NEW x, e[2] = x, e[1] = "result", ToolsOf(m, x) # {}
  PROVE  Projected(m, e) = Made(m, Append(m.events, e), m.messages \cup {<<"K", x>>}, m.active, m.text, Returned(m, x))
<1> DEFINE ev == Append(m.events, e)
           us == Returned(m, x)
           w == m.messages \cup {<<"K", x>>}
<1>2. Projected(m, e) = [[m EXCEPT !.events = ev] EXCEPT !.tool = us, !.messages = w]
  BY DEF Projected, ToolsOf, Terminal, Returned
<1> HIDE DEF ev, us, w
<1> QED BY <1>2 DEF Memories, Made, ev, us, w

\* What an accepted event makes of the memory: the start of a text.
LEMMA ProjectedOpen ==
  ASSUME NEW m \in Memories, NEW e, NEW x, e[2] = x, e[1] = "text_start"
  PROVE  Projected(m, e) = Made(m, Append(m.events, e), m.messages, m.active, Opened(m, x), m.tool)
<1> DEFINE ev == Append(m.events, e)
           ts == Opened(m, x)
<1>1. Projected(m, e) = [[m EXCEPT !.events = ev] EXCEPT !.text =
         (m.text \ TextsOf(m, x)) \cup {[msg |-> x, run |-> m.active, some |-> FALSE]}]
  BY DEF Projected, TextsOf, Terminal
<1>2. Projected(m, e) = [[m EXCEPT !.events = ev] EXCEPT !.text = ts] BY <1>1 DEF Opened
<1> HIDE DEF ev, ts
<1> QED BY <1>2 DEF Memories, Made, ev, ts

\* What an accepted event makes of the memory: the end of a text.
LEMMA ProjectedClose ==
  ASSUME NEW m \in Memories, NEW e, NEW x, e[2] = x, e[1] = "text_end", \E b \in m.text : b.msg = x /\ b.some
  PROVE  Projected(m, e) = Made(m, m.events \o <<Says("text", x), e>>, m.messages \cup {<<"T", x>>}, m.active,
                                Closed(m, x), m.tool)
<1> DEFINE ev == m.events \o <<Says("text", x), e>>
           w == m.messages \cup {<<"T", x>>}
           ts == Closed(m, x)
<1>1. \E b \in {c \in m.text : c.msg = x} : b.some OBVIOUS
<1>2. Projected(m, e) = [m EXCEPT !.events = ev, !.text = ts, !.messages = w]
  BY <1>1 DEF Projected, TextsOf, Terminal, Closed
<1> HIDE DEF ev, ts, w
<1> QED BY <1>2 DEF Memories, Made, ev, ts, w

\* What an accepted event makes of the memory: a result without a call.
LEMMA ProjectedAlone ==
  ASSUME NEW m \in Memories, NEW e, NEW x, e[2] = x, e[1] = "result", ToolsOf(m, x) = {}
  PROVE  Projected(m, e) = Made(m, Append(m.events, e), m.messages, m.active, m.text, m.tool)
<1> DEFINE ev == Append(m.events, e)
<1>2. Projected(m, e) = [m EXCEPT !.events = ev] BY DEF Projected, ToolsOf, Terminal
<1> HIDE DEF ev
<1> QED BY <1>2 DEF Memories, Made, ev

\* What an accepted event makes of the memory: a mark.
LEMMA ProjectedMark ==
  ASSUME NEW m \in Memories, NEW e, NEW x, e[2] = x, e[1] = "compacted"
  PROVE  Projected(m, e) = Made(m, Append(m.events, e), m.messages, m.active, m.text, m.tool)
<1> DEFINE ev == Append(m.events, e)
<1>2. Projected(m, e) = [m EXCEPT !.events = ev] BY DEF Projected, Terminal
<1> HIDE DEF ev
<1> QED BY <1>2 DEF Memories, Made, ev

\* What an accepted event makes of the memory: a terminal.
LEMMA ProjectedEnd ==
  ASSUME NEW m, NEW e, NEW x, e[2] = x, Terminal(e)
  PROVE  Projected(m, e) = [Sealed(m, x) EXCEPT !.events = Append(@, e), !.active = None, !.inputs = @ \ {x},
                                                !.text = {}, !.tool = {}]
BY DEF Terminal, Projected

\* The start of the run, a call and its result.
LEMMA HearOne ==
  ASSUME NEW m \in Memories, NEW x \in Runs, NEW S, NEW again, Heard(m, x, S, again), ~ Off(m, x), ~ Over(S, x),
         NEW e \in Pairs, e[2] = x, e[1] \in {"run_started", "call", "result"},
         Sane(S \cup {e}, x)
  PROVE  /\ Moved(m, Projected(m, e), <<e>>)
         /\ Heard(Projected(m, e), x, S \cup {e}, again)
         /\ ~ again => Projected(m, e).active = x
<1> DEFINE T == S \cup {e}
           m1 == Projected(m, e)
           tools == ToolsOf(m, x)
<1>0. PICK w \in SUBSET Pairs, us \in SUBSET Tools, a \in Runs \cup {None} :
        /\ m1 = Made(m, Append(m.events, e), w, a, m.text, us)
        /\ NoUser(w, m.messages)
        /\ a = IF e[1] = "run_started" THEN x ELSE m.active
  <2>1. m.active \in Runs \cup {None} /\ m.tool \in SUBSET Tools /\ m.messages \in SUBSET Pairs BY DEF Memories
  <2>0. NoUser(m.messages, m.messages) BY DEF NoUser
  <2>2. CASE e[1] = "run_started" BY <2>2, ProjectedStart, <2>0, <2>1
  <2>3. CASE e[1] = "call"
    <3>1. Projected(m, e) = Made(m, Append(m.events, e), m.messages, m.active, m.text,
                                 Called(m, x))
      BY <2>3, ProjectedCall
    <3> DEFINE us == Called(m, x)
    <3>2. us \in SUBSET Tools BY <2>1 DEF Tools, Called
    <3>3. m1 = Made(m, Append(m.events, e), m.messages, m.active, m.text, us) BY <3>1
    <3> HIDE DEF us, m1
    <3> QED BY <2>0, <2>1, <2>3, <3>3, <3>2
  <2>4. CASE e[1] = "result" /\ tools # {}
    <3>1. Projected(m, e) = Made(m, Append(m.events, e), m.messages \cup {<<"K", x>>}, m.active, m.text,
                                 Returned(m, x))
      BY <2>4, ProjectedResult
    <3> DEFINE us == Returned(m, x)
               w == m.messages \cup {<<"K", x>>}
    <3>0. m1 = Made(m, Append(m.events, e), w, m.active, m.text, us) BY <3>1
    <3>2. us \in SUBSET Tools BY <2>1 DEF Returned
    <3>3. w \in SUBSET Pairs BY <2>1 DEF Pairs, Kinds
    <3>4. NoUser(w, m.messages) BY DEF NoUser
    <3> HIDE DEF us, m1, w
    <3> QED BY <2>1, <2>4, <3>0, <3>2, <3>3, <3>4
  <2>5. CASE e[1] = "result" /\ tools = {} BY <2>5, ProjectedAlone, <2>0, <2>1
  <2> QED BY <2>2, <2>3, <2>4, <2>5
<1>4. Says("run_started", x) \in T /\ (e[1] # "run_started" => Says("run_started", x) \in S)
  BY PairIs DEF Relayable, Sane, Says
<1>5. a \in {x, None} /\ (~ again => a = x) BY <1>0, <1>4 DEF Heard
<1> HIDE DEF m1
<1>6. m.text \in SUBSET Texts BY DEF Memories
<1>7. Moved(m, m1, <<e>>) /\ m1.active = a /\ m1.text = m.text /\ m1 \in Memories /\ SameStops(m, m1)
  <2>1. NoUser(w, m.messages) /\ m1 = Made(m, Append(m.events, e), w, a, m.text, us) BY <1>0
  <2>2. /\ Moved(m, Made(m, Append(m.events, e), w, a, m.text, us), <<e>>)
        /\ Made(m, Append(m.events, e), w, a, m.text, us) \in Memories
        /\ Made(m, Append(m.events, e), w, a, m.text, us).text = m.text
        /\ Made(m, Append(m.events, e), w, a, m.text, us).active = a
        /\ SameStops(m, Made(m, Append(m.events, e), w, a, m.text, us))
    BY <1>6, <2>1, MovedOne
  <2> QED BY <2>1, <2>2
<1>8. ~ Over(T, x) /\ \A t \in {"text_start", "text", "text_end"} : Says(t, x) \in T <=> Says(t, x) \in S
  BY DEF Over, Says
<1>9. Heard(m1, x, T, again) BY <1>5, <1>7, <1>8, HearLike
<1> QED BY <1>5, <1>7, <1>9 DEF m1

\* A mark of the stream that is kept for the browser only.
LEMMA HearMark ==
  ASSUME NEW m \in Memories, NEW x \in Runs, NEW S, NEW again, Heard(m, x, S, again), ~ Off(m, x), ~ Over(S, x),
         NEW e \in Pairs, e[2] = x, e[1] = "compacted"
  PROVE  Moved(m, Projected(m, e), <<e>>) /\ Heard(Projected(m, e), x, S, again)
<1> DEFINE m1 == Projected(m, e)
<1>3. m1 = Made(m, Append(m.events, e), m.messages, m.active, m.text, m.tool) BY ProjectedMark
<1> HIDE DEF m1
<1>5. m.messages \in SUBSET Pairs /\ m.active \in Runs \cup {None} /\ m.text \in SUBSET Texts /\ m.tool \in SUBSET Tools
  BY DEF Memories
<1>6. Moved(m, m1, <<e>>) /\ m1.active = m.active /\ m1.text = m.text /\ m1 \in Memories /\ SameStops(m, m1)
  <2>1. NoUser(m.messages, m.messages) BY DEF NoUser
  <2>2. /\ Moved(m, Made(m, Append(m.events, e), m.messages, m.active, m.text, m.tool), <<e>>)
        /\ Made(m, Append(m.events, e), m.messages, m.active, m.text, m.tool) \in Memories
        /\ Made(m, Append(m.events, e), m.messages, m.active, m.text, m.tool).text = m.text
        /\ Made(m, Append(m.events, e), m.messages, m.active, m.text, m.tool).active = m.active
        /\ SameStops(m, Made(m, Append(m.events, e), m.messages, m.active, m.text, m.tool))
    BY <1>5, <2>1, MovedOne
  <2> QED BY <1>3, <2>2
<1>8. m1.active \in {x, None} /\ (Says("run_started", x) \in S /\ ~ again => m1.active = x) BY <1>6 DEF Heard
<1>9. Heard(m1, x, S, again) BY <1>6, <1>8, HearLike
<1> QED BY <1>6, <1>9 DEF m1

-----------------------------------------------------------------------------
(* The events of a text, and the end of the run.                           *)

\* A protocol's step is preceded by the start of the run.
LEMMA BegunIs ==
  ASSUME NEW x \in Runs, NEW S, NEW e \in Pairs, e[2] = x, e[1] \in Relayable, e[1] # "run_started", Sane(S \cup {e}, x)
  PROVE  e = Says(e[1], x) /\ Says("run_started", x) \in S
BY PairIs DEF Says, Sane

\* A text begins.
LEMMA HearOpen ==
  ASSUME NEW m \in Memories, NEW x \in Runs, NEW S, NEW again, Heard(m, x, S, again), ~ Off(m, x), ~ Over(S, x),
         NEW e \in Pairs, e[2] = x, e[1] = "text_start", e \notin S, Sane(S, x), Sane(S \cup {e}, x)
  PROVE  Moved(m, Projected(m, e), <<e>>) /\ Heard(Projected(m, e), x, S \cup {e}, again)
<1> DEFINE T == S \cup {e}
           m1 == Projected(m, e)
           ts == Opened(m, x)
           b0 == [msg |-> x, run |-> m.active, some |-> FALSE]
<1>1. e = Says("text_start", x) /\ Says("run_started", x) \in S BY BegunIs DEF Relayable
<1>2. m.text = {} BY <1>1 DEF Heard
<1>3. ts = {b0} BY <1>2 DEF Opened, TextsOf
<1>4. m.active \in {x, None} /\ (~ again => m.active = x) BY <1>1 DEF Heard
<1>5. b0 \in Texts BY <1>4 DEF Texts
<1>6. m1 = Made(m, Append(m.events, e), m.messages, m.active, ts, m.tool) BY ProjectedOpen
<1>7. ts \in SUBSET Texts BY <1>3, <1>5
<1>8. m.messages \in SUBSET Pairs /\ m.active \in Runs \cup {None} /\ m.tool \in SUBSET Tools BY DEF Memories
<1>9. NoUser(m.messages, m.messages) BY DEF NoUser
<1> HIDE DEF m1, ts
<1>10. /\ Moved(m, Made(m, Append(m.events, e), m.messages, m.active, ts, m.tool), <<e>>)
       /\ Made(m, Append(m.events, e), m.messages, m.active, ts, m.tool) \in Memories
       /\ Made(m, Append(m.events, e), m.messages, m.active, ts, m.tool).text = ts
       /\ Made(m, Append(m.events, e), m.messages, m.active, ts, m.tool).active = m.active
       /\ SameStops(m, Made(m, Append(m.events, e), m.messages, m.active, ts, m.tool))
  BY <1>7, <1>8, <1>9, MovedOne
<1>11. Moved(m, m1, <<e>>) /\ m1 \in Memories /\ m1.text = ts /\ m1.active = m.active /\ SameStops(m, m1)
  BY <1>6, <1>10
<1>12. ~ Off(m1, x) /\ ~ Over(T, x) BY <1>1, <1>11 DEF Off, SameStops, Over, Says
<1>13. Says("text", x) \notin T /\ Says("text_end", x) \notin T /\ Says("text_start", x) \in T
  BY <1>1 DEF Sane, Says
<1>14. Heard(m1, x, T, again)
  <2>1. m1.stoppedActive = None /\ m1.cancelledActive = None BY <1>11 DEF SameStops, Heard
  <2>2. \A b \in m1.text : b = b0 BY <1>3, <1>11
  <2>3. \A b \in m1.text : b.msg = x /\ b.run = m.active /\ ~ b.some BY <2>2
  <2>4. \A b \in m1.text : b.msg = x /\ b.run \in {x, None} /\ (b.run = None => again) BY <1>4, <2>3, NoneIsNoRun
  <2>5. m1.active \in {x, None} /\ (~ again => m1.active = x) BY <1>4, <1>11
  <2> HIDE DEF b0, T
  <2> QED BY <1>12, <1>13, <2>1, <2>3, <2>4, <2>5 DEF Heard
<1> QED BY <1>11, <1>14 DEF m1

\* Some of it comes.
LEMMA HearSome ==
  ASSUME NEW m \in Memories, NEW x \in Runs, NEW S, NEW again, Heard(m, x, S, again), ~ Off(m, x), ~ Over(S, x),
         NEW e \in Pairs, e[2] = x, e[1] = "text", e \notin S, Sane(S, x), Sane(S \cup {e}, x)
  PROVE  LET m1 == Buffered(m, e)
         IN /\ m1 \in Memories /\ m1.events = m.events /\ m1.count = m.count /\ m1.messages = m.messages
            /\ SameStops(m, m1) /\ Heard(m1, x, S \cup {e}, again)
<1> DEFINE T == S \cup {e}
           m1 == Buffered(m, e)
           owner == IF m.text = {} THEN m.active ELSE (CHOOSE b \in m.text : TRUE).run
           b0 == [msg |-> x, run |-> owner, some |-> TRUE]
<1>1. e = Says("text", x) /\ Says("run_started", x) \in S BY BegunIs DEF Relayable
<1>2. {b \in m.text : b.msg = x} = m.text BY DEF Heard
<1>3. owner \in {x, None} /\ (owner = None => again)
  <2>1. CASE m.text = {}
    <3>1. owner = m.active BY <2>1
    <3>2. m.active \in {x, None} /\ (~ again => m.active = x) BY <1>1 DEF Heard
    <3> HIDE DEF owner
    <3>3. x # None BY NoneIsNoRun
    <3> QED BY <3>1, <3>2, <3>3
  <2>2. CASE m.text # {} BY <2>2 DEF Heard
  <2> QED BY <2>1, <2>2
<1>4. b0 \in Texts BY <1>3 DEF Texts
<1>5. m1 = [m EXCEPT !.text = {b0}] BY <1>2 DEF Buffered
<1> HIDE DEF m1
<1>6. {b0} \in SUBSET Texts BY <1>4
<1>7. /\ m1 \in Memories /\ m1.events = m.events /\ m1.count = m.count /\ m1.messages = m.messages
      /\ m1.text = {b0} /\ m1.active = m.active /\ SameStops(m, m1)
  <2> HIDE DEF b0
  <2> QED BY <1>5, <1>6 DEF Memories, SameStops
<1>8. ~ Off(m1, x) /\ ~ Over(T, x) BY <1>1, <1>7 DEF Off, SameStops, Over, Says
<1>9. Says("text", x) \in T /\ Says("text_end", x) \notin T /\ Says("text_start", x) \in T
  BY <1>1 DEF Sane, Says
<1>10. Heard(m1, x, T, again)
  <2>1. m1.stoppedActive = None /\ m1.cancelledActive = None BY <1>7 DEF SameStops, Heard
  <2>2. b0 \in m1.text /\ \A b \in m1.text : b = b0 BY <1>7
  <2>3. \A b \in m1.text : b.msg = x /\ b.run = owner BY <2>2
  <2>4. \E b \in m1.text : b.some BY <2>2
  <2>5. m1.active \in {x, None} /\ (~ again => m1.active = x) BY <1>1, <1>7 DEF Heard
  <2> HIDE DEF owner, b0
  <2> QED BY <1>3, <1>8, <1>9, <2>1, <2>3, <2>4, <2>5 DEF Heard
<1> QED BY <1>7, <1>10 DEF m1

\* The text ends.
LEMMA HearClose ==
  ASSUME NEW m \in Memories, NEW x \in Runs, NEW S, NEW again, Heard(m, x, S, again), ~ Off(m, x), ~ Over(S, x),
         NEW e \in Pairs, e[2] = x, e[1] = "text_end", e \notin S, Sane(S, x), Sane(S \cup {e}, x)
  PROVE  /\ Moved(m, Projected(m, e), Text(x))
         /\ Heard(Projected(m, e), x, S \cup {e}, again)
         /\ ~ again => Projected(m, e).active = x
<1> DEFINE T == S \cup {e}
           m1 == Projected(m, e)
           ts == Closed(m, x)
           w == m.messages \cup {<<"T", x>>}
           ev == m.events \o <<Says("text", x), e>>
<1>1. e = Says("text_end", x) /\ Says("run_started", x) \in S BY BegunIs DEF Relayable
<1>2. Says("text", x) \in S BY <1>1 DEF Sane, Says
<1>3. \E b \in m.text : b.msg = x /\ b.some BY <1>1, <1>2 DEF Heard
<1>4. m1 = Made(m, ev, w, m.active, ts, m.tool) BY <1>3, ProjectedClose
<1>5. ts = {} BY DEF Closed, TextsOf, Heard
<1>6. m.active \in {x, None} /\ (~ again => m.active = x) BY <1>1 DEF Heard
<1>7. ev = m.events \o Text(x) /\ Text(x) \in Seq(Pairs) BY <1>1, PieceText DEF Text, Piece
<1>8. m.messages \in SUBSET Pairs /\ m.active \in Runs \cup {None} /\ m.tool \in SUBSET Tools BY DEF Memories
<1>9. w \in SUBSET Pairs BY <1>8 DEF Pairs, Kinds
<1>10. NoUser(w, m.messages) BY DEF NoUser
<1>11. ts \in SUBSET Texts BY <1>5
<1> HIDE DEF m1, ts, w, ev
<1>12. Moved(m, Made(m, ev, w, m.active, ts, m.tool), Text(x)) BY <1>7, <1>8, <1>9, <1>10, <1>11, MovedBy
<1>13. Moved(m, m1, Text(x)) /\ m1.text = {} /\ m1.active = m.active BY <1>4, <1>5, <1>12 DEF Made, Memories
<1>14. m1 \in Memories /\ SameStops(m, m1) BY <1>13 DEF Moved, Longer
<1>15. ~ Off(m1, x) /\ ~ Over(T, x) BY <1>1, <1>14 DEF Off, SameStops, Over, Says
<1>16. Heard(m1, x, T, again) BY <1>14, <1>1, <1>6, <1>13, <1>15 DEF SameStops, Heard
<1> QED BY <1>6, <1>13, <1>16 DEF m1

\* The run ends: an open text is closed before.
LEMMA HearEnd ==
  ASSUME NEW m \in Memories, NEW x \in Runs, NEW S, NEW again, Heard(m, x, S, again), ~ Off(m, x), ~ Over(S, x),
         NEW e \in Pairs, e[2] = x, Terminal(e)
  PROVE  \E s : /\ Brings(s, e, S, x) /\ Moved(m, Projected(m, e), s)
                /\ Heard(Projected(m, e), x, S \cup {e}, again)
<1> DEFINE T == S \cup {e}
           m1 == Projected(m, e)
           some == \E b \in m.text : b.run = x /\ b.some
           u == IF some THEN Text(x) ELSE <<>>
           s == u \o <<e>>
<1>1. e = Says(e[1], x) /\ e[1] \in {"run_finished", "run_error"} BY PairIs DEF Terminal
<1>2. PICK w : /\ w \subseteq Pairs /\ \A r : <<"U", r>> \in w => <<"U", r>> \in m.messages
               /\ Sealed(m, x) = [m EXCEPT !.events = m.events \o u, !.messages = w,
                                           !.text = {b \in m.text : b.run # x}]
               /\ u \in Seq(Pairs) /\ m.events \o u \in Seq(Pairs) BY SealedIs DEF Heard
<1> HIDE DEF u
<1>3. <<e>> \in Seq(Pairs) /\ Append(m.events \o u, e) = (m.events \o u) \o <<e>> BY <1>2, AppendIsJoin
<1>4. (m.events \o u) \o <<e>> = m.events \o s BY <1>2, <1>3, JoinThree DEF Memories
<1>5. s \in Seq(Pairs) BY <1>2, <1>3, ConcatProperties
<1> DEFINE ev == Append(m.events \o u, e)
           rest == {b \in m.text : b.run # x}
<1>6. ev = m.events \o s BY <1>3, <1>4
<1>7. m1 = [Sealed(m, x) EXCEPT !.events = Append(@, e), !.active = None, !.inputs = @ \ {x}, !.text = {}, !.tool = {}]
  <2> HIDE DEF m1
  <2>1. Projected(m, e) = [Sealed(m, x) EXCEPT !.events = Append(@, e), !.active = None, !.inputs = @ \ {x},
                                               !.text = {}, !.tool = {}]
    <3> HIDE DEF T, some, s, ev, rest
    <3> QED BY <1>1 DEF Projected, Terminal
  <2> QED BY <2>1 DEF m1
<1> HIDE DEF m1, s, some, rest
<1>8. m1 = [m EXCEPT !.events = ev, !.messages = w, !.active = None, !.inputs = m.inputs \ {x}, !.text = {}, !.tool = {}]
  BY <1>2, <1>7 DEF Memories, rest
<1> HIDE DEF ev
<1>9. ev \in Seq(Pairs) BY <1>5, <1>6, ConcatProperties DEF Memories
<1>10. /\ m1 \in Memories /\ m1.events = ev /\ m1.count = m.count /\ m1.messages = w
       /\ m1.text = {} /\ m1.active = None /\ SameStops(m, m1)
  BY <1>2, <1>8, <1>9 DEF Memories, SameStops
<1>11. Longer(m, m1, s) BY <1>5, <1>6, <1>10, LongerBy
<1>12. Moved(m, m1, s) BY <1>2, <1>10, <1>11 DEF Moved, SameUsers, NoUser
<1>13. Brings(s, e, S, x)
  <2>0. Piece(<<e>>, x) /\ \A f : Holds(<<e>>, f) <=> f = e BY <1>1, PieceOne
  <2>1. CASE some BY <2>1, <1>1, <2>0, PieceBoth DEF s, u, some, Heard, Brings
  <2>2. CASE ~ some BY <1>3, <2>2, ConcatEmptySeq, <2>0 DEF s, u, Brings
  <2> QED BY <2>1, <2>2
<1>14. Ended(m1, x)
  <2>1. Holds(s, e) BY <1>13 DEF Brings
  <2>2. PICK i \in 1..Len(s) : s[i] = e BY <2>1 DEF Holds
  <2>3. Len(m.events) + i \in 1..Len(m1.events) /\ m1.events[Len(m.events) + i] = e
    BY <1>5, LenProperties, <1>11, <2>2 DEF Memories, Longer
  <2>4. DOMAIN m1.events = 1..Len(m1.events) BY <1>10, LenProperties DEF Memories
  <2> QED BY <2>3, <2>4 DEF Ended
<1>15. Heard(m1, x, T, again) BY <1>1, <1>10, <1>14 DEF Off, SameStops, Over, Heard
<1> QED BY <1>12, <1>13, <1>15 DEF m1

-----------------------------------------------------------------------------
(* append_event, for the events of the run that holds the lock.            *)

\* Counting changes nothing else of the memory.
LEMMA CountedIs ==
  ASSUME NEW m \in Memories, NEW x \in Runs
  PROVE  /\ Counted(m) \in Memories /\ Waits(Counted(m), x) /\ SameStops(m, Counted(m)) /\ SameUsers(m, Counted(m))
         /\ \A S, again : Heard(m, x, S, again) => Heard(Counted(m), x, S, again)
<1> DEFINE c == Counted(m)
           n == Len(m.events)
<1>1. n \in Nat BY LenProperties DEF Memories
<1> HIDE DEF n
<1>2. /\ c \in Memories /\ c.count = n /\ c.events = m.events /\ c.text = m.text /\ c.active = m.active
      /\ SameStops(m, c) /\ c.messages = m.messages
  BY <1>1 DEF Counted, Memories, SameStops, n
<1> HIDE DEF c
<1>3. Waits(c, x) BY <1>1, <1>2 DEF n, Waits
<1>4. SameUsers(m, c) BY <1>2 DEF SameUsers, NoUser
<1>5. Off(c, x) <=> Off(m, x) BY <1>2 DEF Off, SameStops
<1>6. Ended(c, x) <=> Ended(m, x) BY <1>2 DEF Ended
<1>7. ASSUME NEW S, NEW again, Heard(m, x, S, again) PROVE Heard(c, x, S, again)
  BY <1>2, <1>5, <1>6, <1>7 DEF SameStops, Heard
<1> QED BY <1>2, <1>3, <1>4, <1>7 DEF c

\* An event that is kept for the next append.
LEMMA WaitsMore ==
  ASSUME NEW m \in Memories, NEW x \in Runs, Waits(m, x), NEW e \in Pairs, e[2] = x, e[1] \in {"text_start", "compacted"},
         NEW m1, Longer(m, m1, <<e>>)
  PROVE  Waits(m1, x)
<1> DEFINE s == <<e>>
           n == Len(m.events)
<1>1. Len(s) = 1 /\ s[1] = e OBVIOUS
<1>2. n \in Nat /\ m.count \in 0..n BY LenProperties DEF Memories, Waits, n
<1> HIDE DEF s, n
<1>3. m1.count = m.count /\ Len(m1.events) = n + 1 /\ (\A i \in 1..n : m1.events[i] = m.events[i])
  BY <1>1 DEF Longer, s, n
<1>4. m1.events[n + 1] = e BY <1>1 DEF Longer, s, n
<1>5. ASSUME NEW i \in (m1.count + 1)..Len(m1.events)
      PROVE  m1.events[i][1] \in {"text_start", "compacted"} /\ m1.events[i][2] = x
  <2>1. CASE i = n + 1 BY <1>4, <2>1
  <2>2. CASE i # n + 1 BY <1>2, <1>3, <2>2 DEF Waits, n
  <2> QED BY <2>1, <2>2
<1>6. m1.count \in 0..Len(m1.events) BY <1>2, <1>3
<1> QED BY <1>5, <1>6 DEF Waits

\* An event of a run that is shut out leaves no more than a mark.
LEMMA ShutOutIs ==
  ASSUME NEW m \in Memories, NEW x \in Runs, Waits(m, x), NEW S, NEW again, Heard(m, x, S, again), Off(m, x), ~ Over(S, x),
         NEW e \in Pairs, e[2] = x, NEW T, T = S \cup {e} \/ (T = S /\ e[1] = "compacted")
  PROVE  /\ ShutOut(m, e)
         /\ LET m1 == ShutOutMemory(m, e)
            IN /\ m1 \in Memories /\ Waits(m1, x) /\ SameUsers(m, m1) /\ m1.stopped = m.stopped /\ m1.cancelled = m.cancelled
               /\ Heard(m1, x, T, again)
<1> DEFINE m1 == ShutOutMemory(m, e)
<1>1. x \in {m.stoppedActive, m.cancelledActive} /\ m.text = {} BY DEF Heard
<1>2. x # None /\ RunIdOf(e) \in {None, x} BY NoneIsNoRun DEF RunIdOf
<1>3. ShutOut(m, e) BY <1>1, <1>2 DEF ShutOut
<1>4. None \notin m.cancelled BY NoneIsNoRun DEF Memories
<1>5. PICK a \in Runs \cup {None} : /\ m1 = [m EXCEPT !.cancelledActive = a]
                                    /\ x \in {m.stoppedActive, a} \/ Terminal(e)
  <2>1. CASE m1 = m BY <1>1, <2>1 DEF Memories
  <2>2. CASE m1 # m
    <3> DEFINE a == IF e[1] = "run_started" THEN e[2] ELSE IF Terminal(e) THEN None ELSE m.cancelledActive
    <3>1. /\ m1 = [m EXCEPT !.cancelledActive = a] /\ RunIdOf(e) \in m.cancelled
          /\ m.stoppedActive = None \/ RunIdOf(e) \notin {None, m.stoppedActive}
      BY <2>2 DEF ShutOutMemory
    <3>2. RunIdOf(e) = x BY <1>2, <1>4, <3>1
    <3>3. m.stoppedActive # x BY <1>2, <3>1, <3>2
    <3>4. m.cancelledActive = x BY <1>1, <3>3
    <3>5. a \in Runs \cup {None} /\ (a = x \/ Terminal(e)) BY <3>4
    <3> HIDE DEF a, m1
    <3> QED BY <3>1, <3>5
  <2> QED BY <2>1, <2>2
<1> HIDE DEF m1
<1>6. /\ m1 \in Memories /\ m1.count = m.count /\ m1.events = m.events /\ m1.messages = m.messages /\ m1.text = m.text
      /\ m1.active = m.active /\ m1.stopped = m.stopped /\ m1.cancelled = m.cancelled
      /\ m1.stoppedActive = m.stoppedActive /\ m1.cancelledActive = a
  BY <1>5 DEF Memories
<1>7. Waits(m1, x) BY <1>6 DEF Waits
<1>8. SameUsers(m, m1) BY <1>6 DEF SameUsers, NoUser
<1>9. Off(m1, x) BY <1>6 DEF Off
<1>10. Terminal(e) => Over(T, x) BY PairIs DEF Over, Terminal
<1>11. Heard(m1, x, T, again) BY <1>6, <1>5, <1>10, <1>1, <1>9 DEF Heard
<1> QED BY <1>3, <1>6, <1>7, <1>8, <1>11 DEF m1

\* An event of a run that is not, is taken.
LEMMA NotShutOut ==
  ASSUME NEW m \in Memories, NEW x \in Runs, NEW S, NEW again, Heard(m, x, S, again), ~ Off(m, x), NEW e, e[2] = x
  PROVE  ~ ShutOut(m, e)
BY NoneIsNoRun DEF Heard, Memories, RunIdOf, ShutOut, Off

\* The new events of the memory are appended to the history.
LEMMA AppendMoved ==
  ASSUME NEW m \in Memories, NEW x \in Runs, NEW S, NEW T, NEW deaf, NEW again, NEW d, NEW e \in Pairs, NEW s, NEW m1,
         Ready(d, m, e, x, S, T, deaf, again, s, m1)
  PROVE  /\ Flush(d, m1).mem = Counted(m1)
         /\ PutsOne(d.history, x, e, T, deaf, again, Flush(d, m1))
<1>0. /\ Waits(m, x) /\ d.history \in Seq(Records) /\ Told(d.history, x, S, deaf, again) /\ ~ Over(S, x)
      /\ Sane(S, x) /\ Sane(T, x) /\ ~ Removed(d.history, x) /\ (again => Whole(d.history))
      /\ e[2] = x /\ e \notin S /\ T = S \cup {e}
      /\ e[1] \in {"run_started", "text_end", "call", "result", "run_finished", "run_error"}
      /\ Brings(s, e, S, x) /\ Moved(m, m1, s) /\ Heard(m1, x, T, again)
      /\ ~ again => m1.active = x \/ Terminal(e)
  BY DEF Ready
<1> USE <1>0
<1>1. m1.active \in {x, None} BY DEF Heard
<1>2. Piece(s, x) /\ Longer(m, m1, s) BY DEF Brings, Moved
<1>3. PICK rec : Flushed(d, m1, s, x, rec) BY <1>1, <1>2, FlushPiece
<1>a. Carries(rec, s, x) /\ rec.run \in {x, None}
  BY <1>3 DEF Flushed
<1>b. m1.active = x => rec.run = x BY <1>3 DEF Flushed
<1>4. Terminal(e) => rec.run = x BY <1>3 DEF Terminal, Named, Brings, Flushed
<1>5. rec.run = None => again BY <1>b, <1>4, NoneIsNoRun
<1>6. Fits(d.history, rec)
  <2>1. e[1] = "result" => Says("call", x) \in S BY PairIs DEF Sane, Says
  <2>2. rec.run = None => Whole(d.history) BY <1>5
  <2> QED BY <1>a, <2>1, <2>2, TellFits
<1>7. \A f : Has(rec, f) => f[2] = x /\ (Terminal(f) => Terminal(e)) BY <1>a, BroughtIs
<1>8. ASSUME NEW g, Grown(d.history, g, rec) PROVE Told(g, x, T, deaf, again) BY <1>a, <1>8, TellMore
<1>9. rec \in Records /\ rec.kind = "events" BY <1>a DEF Carries
<1>10. Flush(d, m1).mem = Counted(m1) /\ Flush(d, m1).writes = <<<<"history", Append(d.history, rec)>>>>
  BY <1>3 DEF Flushed, Outcome, Counted
<1>11. Puts(d.history, x, e, rec, again) BY <1>a, <1>5, <1>6, <1>7, <1>9 DEF Puts
<1>12. PutsOne(d.history, x, e, T, deaf, again, Flush(d, m1)) BY <1>8, <1>10, <1>11 DEF PutsOne
<1> QED BY <1>10, <1>12

\* The counted memory is left as well.
LEMMA CountedLeaves ==
  ASSUME NEW m, NEW m1 \in Memories, NEW x \in Runs, NEW T, NEW again, SameStops(m, m1), SameUsers(m, m1),
         Heard(m1, x, T, again)
  PROVE  Leaves(m, Counted(m1), x, T, again)
<1> DEFINE c == Counted(m1)
<1>1. c \in Memories /\ Waits(c, x) /\ SameStops(m1, c) /\ SameUsers(m1, c) /\ Heard(c, x, T, again) BY CountedIs
<1> HIDE DEF c
<1>2. SameStops(m, c) /\ c.stopped = m.stopped /\ c.cancelled = m.cancelled BY <1>1 DEF SameStops
<1>3. SameUsers(m, c) BY <1>1 DEF SameUsers, NoUser
<1> QED BY <1>1, <1>2, <1>3 DEF Leaves, c

\* One that is kept leaves the memory with one more event that waits.
LEMMA KeptLeaves ==
  ASSUME NEW m \in Memories, NEW x \in Runs, Waits(m, x), NEW e \in Pairs, e[2] = x, e[1] \in {"text_start", "compacted"},
         NEW m1, Moved(m, m1, <<e>>), NEW T, NEW again, Heard(m1, x, T, again)
  PROVE  Leaves(m, m1, x, T, again)
BY WaitsMore DEF Moved, Longer, SameStops, Leaves

\* append_event: the memory, the record and the history keep to what was dealt with.
LEMMA AppendIs ==
  ASSUME NEW m \in Memories, NEW x \in Runs, Waits(m, x), NEW S, NEW T, NEW deaf, NEW again,
         NEW d, d.history \in Seq(Records), Off(m, x) \/ Told(d.history, x, S, deaf, again),
         Heard(m, x, S, again), Removed(d.history, x) => x \in m.cancelled, again => Whole(d.history),
         NEW e, Next1(e, x, S, T)
  PROVE  Appends(d, m, e, x, T, deaf, again, AppendEvent(d, m, e))
<1> DEFINE op == AppendEvent(d, m, e)
           m1 == Projected(m, e)
<1>1. e \in Pairs /\ e[2] = x /\ ~ Over(S, x) /\ Sane(S, x) /\ Sane(T, x) BY DEF Next1
<1>2. CASE Off(m, x)
  <2>1. T = S \cup {e} \/ (T = S /\ e[1] = "compacted") BY DEF Next1
  <2> DEFINE m2 == ShutOutMemory(m, e)
  <2>2. ShutOut(m, e) BY <1>1, <1>2, <2>1, ShutOutIs
  <2>3. /\ m2 \in Memories /\ Waits(m2, x) /\ SameUsers(m, m2) /\ m2.stopped = m.stopped /\ m2.cancelled = m.cancelled
        /\ Heard(m2, x, T, again)
    BY <1>1, <1>2, <2>1, ShutOutIs
  <2>4. op.mem = m2 /\ op.writes = <<>> BY <2>2 DEF AppendEvent, Outcome
  <2> HIDE DEF op, m2
  <2>5. Leaves(m, op.mem, x, T, again) BY <1>2, <2>3, <2>4 DEF Leaves
  <2> QED BY <1>2, <2>4, <2>5 DEF Appends, op
<1>3. CASE ~ Off(m, x)
  <2>1. ~ ShutOut(m, e) BY <1>1, <1>3, NotShutOut
  <2>2. Told(d.history, x, S, deaf, again) /\ ~ Removed(d.history, x) BY <1>3 DEF Off
  <2>3. CASE e[1] = "compacted"
    <3>1. T = S BY <2>3 DEF Next1, Relayable
    <3>2. Moved(m, m1, <<e>>) /\ Heard(m1, x, T, again) BY <1>1, <1>3, <2>3, <3>1, HearMark
    <3>3. op.mem = m1 /\ op.writes = <<>> BY <2>1, <2>3 DEF AppendEvent, Outcome
    <3> HIDE DEF m1, op
    <3>4. Leaves(m, op.mem, x, T, again) BY <1>1, <2>3, <3>2, <3>3, KeptLeaves
    <3> QED BY <2>2, <3>1, <3>3, <3>4 DEF Appends, op
  <2>4. CASE e[1] # "compacted"
    <3>0. e \notin S /\ T = S \cup {e} /\ e[1] \in Relayable BY <2>4 DEF Next1
    <3>1. CASE e[1] = "text_start"
      <4>1. Moved(m, m1, <<e>>) /\ Heard(m1, x, T, again) BY <1>1, <1>3, <3>0, <3>1, HearOpen
      <4>2. op.mem = m1 /\ op.writes = <<>> BY <2>1, <3>1 DEF AppendEvent, Outcome
      <4>3. Told(d.history, x, T, deaf, again) BY <2>2, <3>0, <3>1, TellNothing
      <4> HIDE DEF m1, op
      <4>4. Leaves(m, op.mem, x, T, again) BY <1>1, <3>1, <4>1, <4>2, KeptLeaves
      <4> QED BY <4>2, <4>3, <4>4 DEF Appends, op
    <3>2. CASE e[1] = "text"
      <4> DEFINE m2 == Buffered(m, e)
      <4>1. /\ m2 \in Memories /\ m2.events = m.events /\ m2.count = m.count /\ m2.messages = m.messages
            /\ SameStops(m, m2) /\ Heard(m2, x, T, again)
        BY <1>1, <1>3, <3>0, <3>2, HearSome
      <4>2. op.mem = m2 /\ op.writes = <<>> BY <2>1, <3>2 DEF AppendEvent, Outcome
      <4>3. Told(d.history, x, T, deaf, again) BY <2>2, <3>0, <3>2, TellNothing
      <4> HIDE DEF m2, op
      <4>4. Waits(m2, x) BY <4>1 DEF Waits
      <4>5. SameUsers(m, m2) BY <4>1 DEF SameUsers, NoUser
      <4>6. m2.stopped = m.stopped /\ m2.cancelled = m.cancelled BY <4>1 DEF SameStops
      <4>7. Leaves(m, op.mem, x, T, again) BY <4>1, <4>2, <4>4, <4>5, <4>6 DEF Leaves
      <4> QED BY <4>2, <4>3, <4>7 DEF Appends, op
    <3>3. CASE e[1] \in {"run_started", "text_end", "call", "result", "run_finished", "run_error"}
      <4>1. op = Flush(d, m1) BY <2>1, <3>3 DEF AppendEvent
      <4>2. \E s : /\ Brings(s, e, S, x) /\ Moved(m, m1, s) /\ Heard(m1, x, T, again)
                   /\ ~ again => m1.active = x \/ Terminal(e)
        <5>1. CASE e[1] \in {"run_started", "call", "result"}
          <6>1. Moved(m, m1, <<e>>) /\ Heard(m1, x, T, again) /\ (~ again => m1.active = x)
            BY <1>1, <1>3, <3>0, <5>1, HearOne
          <6>2. Brings(<<e>>, e, S, x) BY <1>1, <5>1, BringsOne
          <6> HIDE DEF m1
          <6> QED BY <6>1, <6>2
        <5>2. CASE e[1] = "text_end"
          <6>1. Moved(m, m1, Text(x)) /\ Heard(m1, x, T, again) /\ (~ again => m1.active = x)
            BY <1>1, <1>3, <3>0, <5>2, HearClose
          <6>2. Piece(Text(x), x) /\ \A f : Holds(Text(x), f) <=> f \in {Says("text", x), Says("text_end", x)}
            BY PieceText
          <6>3. e = Says("text_end", x) BY <1>1, <5>2, PairIs
          <6>4. Brings(Text(x), e, S, x) BY <6>2, <6>3, <3>0, <5>2 DEF Brings
          <6> HIDE DEF m1
          <6> QED BY <6>1, <6>4
        <5>3. CASE e[1] \in {"run_finished", "run_error"} BY <5>3, <1>1, <1>3, HearEnd, <3>0 DEF Terminal
        <5> QED BY <3>3, <5>1, <5>2, <5>3
      <4>3. PICK s : /\ Brings(s, e, S, x) /\ Moved(m, m1, s) /\ Heard(m1, x, T, again)
                     /\ ~ again => m1.active = x \/ Terminal(e)
        BY <4>2
      <4> HIDE DEF m1, op
      <4>a. Flush(d, m1).mem = Counted(m1) /\ PutsOne(d.history, x, e, T, deaf, again, Flush(d, m1))
        <5>1. Ready(d, m, e, x, S, T, deaf, again, s, m1) BY <1>1, <2>2, <3>0, <3>3, <4>3 DEF Ready
        <5> QED BY <1>1, <5>1, AppendMoved
      <4>4. op.mem = Counted(m1) BY <4>1, <4>a
      <4>5. PutsOne(d.history, x, e, T, deaf, again, op) BY <4>1, <4>a
      <4>6. Leaves(m, op.mem, x, T, again) BY <4>3, <4>4, CountedLeaves DEF Moved, Longer
      <4> QED BY <1>3, <4>5, <4>6 DEF Appends, op
    <3> QED BY <3>0, <3>1, <3>2, <3>3 DEF Relayable
  <2> QED BY <2>3, <2>4
<1> QED BY <1>2, <1>3

\* An append that failed.
LEMMA TellLost ==
  ASSUME NEW x, NEW S, NEW T, NEW e, Next1(e, x, S, T), NEW h, NEW deaf, Told(h, x, S, deaf, FALSE)
  PROVE  Told(h, x, T, TRUE, FALSE)
BY TellNot DEF Next1, Told

-----------------------------------------------------------------------------
(* cancel_run, stop_run, save_run_start and the load after a restart.      *)

\* The events without a run are events.
LEMMA WithoutTyped ==
  ASSUME NEW events \in Seq(Pairs), NEW r
  PROVE  WithoutRun(events, r) \in Seq(Pairs)
<1> DEFINE l == Len(events)
           V == Seq(Pairs)
           Dropped(i) == \/ Named(events[i]) /\ events[i][2] = r
                         \/ \E j \in 1..(i - 1) : /\ events[j] = Says("run_started", r)
                                                  /\ \A k \in j..(i - 1) : ~ Terminal(events[k])
           step == [k \in 1..l |-> [v \in V |-> IF Dropped(k) THEN v ELSE Append(v, events[k])]]
           Form(f) == f = [n \in 0..l |-> IF n = 0 THEN <<>> ELSE
                                     IF Dropped(n) THEN f[n - 1] ELSE Append(f[n - 1], events[n])]
           upTo == CHOOSE f : Form(f)
<1>1. l \in Nat /\ <<>> \in V BY LenProperties, EmptySeq
<1>2. \A k \in 1..l : events[k] \in Pairs BY ElementOfSeq
<1>3. WithoutRun(events, r) = upTo[l] BY DEF WithoutRun
<1> HIDE DEF Dropped
<1>4. step \in [1..l -> [V -> V]] BY <1>2, AppendProperties
<1>5. \A k \in 1..l, v \in V : step[k][v] = IF Dropped(k) THEN v ELSE Append(v, events[k]) OBVIOUS
<1> HIDE DEF step, V, l
<1>6. PICK g \in [0..l -> V] : g[0] = <<>> /\ \A n \in 1..l : g[n] = step[n][g[n - 1]]
  BY SMTT(30), <1>1, <1>4, Recursion
<1>7. \A n \in 1..l : g[n - 1] \in V /\ g[n] = IF Dropped(n) THEN g[n - 1] ELSE Append(g[n - 1], events[n])
  <2> SUFFICES ASSUME NEW n \in 1..l
               PROVE  g[n - 1] \in V /\ g[n] = IF Dropped(n) THEN g[n - 1] ELSE Append(g[n - 1], events[n])
    OBVIOUS
  <2>1. n - 1 \in 0..l BY <1>1
  <2>2. g[n - 1] \in V BY <1>6, <2>1
  <2> QED BY <1>5, <1>6, <2>2
<1>8. Form(g)
  <2> DEFINE w == [n \in 0..l |-> IF n = 0 THEN <<>> ELSE
                                     IF Dropped(n) THEN g[n - 1] ELSE Append(g[n - 1], events[n])]
  <2>1. \A n \in 0..l : g[n] = w[n]
    <3> SUFFICES ASSUME NEW n \in 0..l PROVE g[n] = w[n] OBVIOUS
    <3>1. CASE n = 0 BY <1>6, <3>1
    <3>2. CASE n # 0
      <4>1. n \in 1..l BY <1>1, <3>2
      <4>2. g[n] = IF Dropped(n) THEN g[n - 1] ELSE Append(g[n - 1], events[n]) BY <1>7, <4>1
      <4> QED BY <3>2, <4>2
    <3> QED BY <3>1, <3>2
  <2> HIDE DEF w
  <2>2. [n \in 0..l |-> g[n]] = [n \in 0..l |-> w[n]] BY <2>1
  <2>3. w = [n \in 0..l |-> w[n]] BY DEF w
  <2>4. g = [n \in 0..l |-> g[n]] BY <1>6
  <2>5. g = w BY <2>2, <2>3, <2>4
  <2> QED BY <2>5 DEF w
<1>9. Form(upTo) BY <1>8
<1>10. \A n \in 0..l : upTo[n] = IF n = 0 THEN <<>> ELSE IF Dropped(n) THEN upTo[n - 1] ELSE Append(upTo[n - 1], events[n])
  <2> HIDE DEF upTo
  <2> QED BY <1>9
<1> HIDE DEF upTo, Form
<1>11. upTo[0] = g[0] BY <1>1, <1>6, <1>10
<1>12. \A n \in 1..l : upTo[n - 1] = g[n - 1] => upTo[n] = g[n]
  <2> SUFFICES ASSUME NEW n \in 1..l, upTo[n - 1] = g[n - 1] PROVE upTo[n] = g[n] OBVIOUS
  <2>1. n \in 0..l /\ n # 0 BY <1>1
  <2> QED BY <1>7, <1>10, <2>1
<1>13. upTo[l] = g[l]
  <2>1. l \in 0..l BY <1>1
  <2>2. \A n \in 0..l : upTo[n] = g[n] BY ZenonT(30), <1>1, <1>11, <1>12, Agree
  <2> QED BY <2>1, <2>2
<1>14. g[l] \in V BY <1>1, <1>6
<1> QED BY <1>3, <1>13, <1>14 DEF V

\* cancel_run, in the memory.
LEMMA CancelIs ==
  ASSUME NEW m \in Memories, NEW r \in Runs, NEW d
  PROVE  LET m1 == CancelRun(d, m, r).mem
         IN /\ m1 \in Memories /\ m1.count = Len(m1.events) /\ SameUsers(m, m1)
            /\ m1.stopped = m.stopped /\ m1.cancelled = m.cancelled \cup {r} /\ m1.cancelledActive = r
            /\ m1.text = {b \in m.text : b.run # r} /\ m1.active = IF m.active = r THEN None ELSE m.active
<1> DEFINE m1 == CancelRun(d, m, r).mem
           ev == WithoutRun(m.events, r)
           n == Len(ev)
           w == IF r \in m.inputs THEN m.messages \ {<<"U", r>>} ELSE m.messages
           a == IF m.active = r THEN None ELSE m.active
           ts == {b \in m.text : b.run # r}
           us == {b \in m.tool : b.run # r}
           c == m.cancelled \cup {r}
           i == m.inputs \ {r}
<1>1. m1 = [m EXCEPT !.cancelled = c, !.cancelledActive = r, !.inputs = i, !.messages = w, !.events = ev, !.count = n,
                     !.active = a, !.text = ts, !.tool = us]
  BY DEF CancelRun, Outcome
<1>2. ev \in Seq(Pairs) BY WithoutTyped DEF Memories
<1>3. n \in Nat BY <1>2, LenProperties
<1>4. /\ w \in SUBSET Pairs /\ a \in Runs \cup {None} /\ ts \in SUBSET Texts /\ us \in SUBSET Tools
      /\ c \in SUBSET Runs /\ i \in SUBSET Runs /\ NoUser(w, m.messages) BY DEF Memories, NoUser
<1>5. n = Len(ev) OBVIOUS
<1> HIDE DEF m1, ev, n, w, a, ts, us, c, i
<1>6. /\ m1 \in Memories /\ m1.count = n /\ m1.events = ev /\ m1.messages = w /\ m1.stopped = m.stopped /\ m1.cancelled = c
      /\ m1.cancelledActive = r /\ m1.text = ts /\ m1.active = a
  BY <1>1, <1>2, <1>3, <1>4 DEF Memories
<1>7. SameUsers(m, m1) BY <1>4, <1>6 DEF SameUsers
<1> QED BY <1>5, <1>6, <1>7 DEF c, ts, a, m1

\* cancel_run of the run that holds the lock.
LEMMA CancelHeard ==
  ASSUME NEW m \in Memories, NEW x \in Runs, NEW S, Heard(m, x, S, FALSE), NEW d
  PROVE  LET m1 == CancelRun(d, m, x).mem
         IN m1 \in Memories /\ Waits(m1, x) /\ SameUsers(m, m1) /\ Heard(m1, x, S, FALSE)
            /\ m1.stopped = m.stopped /\ m1.cancelled = m.cancelled \cup {x}
<1> DEFINE m1 == CancelRun(d, m, x).mem
<1>1. /\ m1 \in Memories /\ m1.count = Len(m1.events) /\ SameUsers(m, m1)
      /\ m1.stopped = m.stopped /\ m1.cancelled = m.cancelled \cup {x} /\ m1.cancelledActive = x
      /\ m1.text = {b \in m.text : b.run # x} /\ m1.active = IF m.active = x THEN None ELSE m.active
  BY CancelIs
<1> HIDE DEF m1
<1>2. m1.text = {} BY <1>1 DEF Heard
<1>3. m1.active \in {x, None} BY <1>1 DEF Heard
<1>4. Waits(m1, x)
  <2> DEFINE n == Len(m1.events)
  <2>1. n \in Nat BY <1>1, LenProperties DEF Memories
  <2> HIDE DEF n
  <2>2. \A i \in (n + 1)..n : FALSE BY <2>1
  <2>3. n \in 0..n BY <2>1
  <2> QED BY <1>1, <2>2, <2>3 DEF Waits, n
<1>5. Heard(m1, x, S, FALSE) BY <1>1, <1>2, <1>3 DEF Off, Heard
<1> QED BY <1>1, <1>4, <1>5 DEF m1

\* The new events of a stop close a text that is open, and the run.
LEMMA StopBrings ==
  ASSUME NEW x \in Runs, NEW S, ~ Over(S, x), NEW t,
         t \in {<<Says("run_finished", x)>>, <<Says("run_started", x), Says("run_finished", x)>>}
  PROVE  /\ Brings(t, Says("run_finished", x), S, x)
         /\ Says("text_end", x) \notin S => Brings(Text(x) \o t, Says("run_finished", x), S, x)
<1> DEFINE e == Says("run_finished", x)
           b == Says("run_started", x)
<1>1. "run_finished" \in Kinds BY DEF Kinds, Relayable
<1>2. e \in Pairs /\ e[1] = "run_finished" /\ e[2] = x /\ Terminal(e) BY <1>1, SaysIsPair DEF Terminal
<1>3. Piece(t, x) /\ (\A f : Holds(t, f) => f \in {b, e}) /\ Holds(t, e) BY <1>2, PieceOne, PieceEnds
<1>4. Brings(t, e, S, x) BY <1>2, <1>3 DEF Brings
<1>5. ASSUME Says("text_end", x) \notin S PROVE Brings(Text(x) \o t, e, S, x)
  BY <1>3, PieceBoth, <1>2, <1>5 DEF Says, Brings
<1> QED BY <1>4, <1>5 DEF e

\* A record that only starts and ends a run that is removed.
LEMMA BareFits ==
  ASSUME NEW h, NEW x \in Runs, NEW t, NEW rec, Carries(rec, t, x), rec.run = x, Removed(h, x),
         \A f : Holds(t, f) => f[1] \in {"run_started", "run_finished"}
  PROVE  Fits(h, rec)
BY NoneIsNoRun DEF Carries, Quiet, Bare, EndsMessage, Says, Fits

\* stop_run of the run that holds the lock.
LEMMA StopIs ==
  ASSUME NEW m \in Memories, NEW x \in Runs, Waits(m, x), NEW S, Heard(m, x, S, FALSE), x \notin m.stopped,
         NEW d, d.history \in Seq(Records), Off(m, x) <=> Removed(d.history, x),
         NEW deaf, ~ Off(m, x) => Told(d.history, x, S, deaf, FALSE), Sane(S, x)
  PROVE  StopRun(d, m, x) = Outcome(m, <<>>) \/ Stops(d, m, x, S, StopRun(d, m, x))
<1> DEFINE kept == Sealed(m, x)
           e == Says("run_finished", x)
           started == \E i \in DOMAIN kept.events : kept.events[i] = Says("run_started", x)
           t == IF started THEN <<e>> ELSE <<Says("run_started", x), e>>
           m1 == [kept EXCEPT !.stopped = @ \cup {x}, !.stoppedActive = x, !.active = None,
                              !.inputs = @ \ {x}, !.events = @ \o t, !.tool = {b \in @ : b.run # x}]
           op == StopRun(d, m, x)
<1>1. op = IF Ended(m, x) THEN Outcome(m, <<>>) ELSE Flush(d, m1) BY DEF StopRun
<1> SUFFICES ASSUME ~ Ended(m, x) PROVE Stops(d, m, x, S, op) BY <1>1
<1>2. op = Flush(d, m1) BY <1>1
<1> HIDE DEF op
<1>3. ~ Off(m, x) => ~ Over(S, x) BY DEF Heard
<1> DEFINE some == \E b \in m.text : b.run = x /\ b.some
           u == IF some THEN Text(x) ELSE <<>>
           s == u \o t
<1>4. PICK w : /\ w \subseteq Pairs /\ \A r : <<"U", r>> \in w => <<"U", r>> \in m.messages
               /\ kept = [m EXCEPT !.events = m.events \o u, !.messages = w,
                                   !.text = {b \in m.text : b.run # x}]
               /\ u \in Seq(Pairs) /\ m.events \o u \in Seq(Pairs) BY SealedIs DEF Heard
<1> HIDE DEF u, kept
<1>5. t \in {<<e>>, <<Says("run_started", x), e>>} OBVIOUS
<1> HIDE DEF t
<1>6. Piece(t, x) /\ (\A f : Holds(t, f) => f \in {Says("run_started", x), e}) /\ Holds(t, e)
  <2>1. "run_finished" \in Kinds BY DEF Kinds, Relayable
  <2>2. CASE t = <<e>> BY <2>1, SaysIsPair, <2>2, PieceOne
  <2>3. CASE t = <<Says("run_started", x), e>> BY <2>3, PieceEnds
  <2> QED BY <1>5, <2>2, <2>3
<1>7. t \in Seq(Pairs) BY <1>6 DEF Piece
<1> DEFINE ev == (m.events \o u) \o t
<1>8. s \in Seq(Pairs) /\ ev = m.events \o s /\ ev \in Seq(Pairs)
  BY <1>4, <1>7, ConcatProperties, JoinThree DEF Memories
<1> HIDE DEF s, some
<1> DEFINE rest == {b \in m.text : b.run # x}
           us == {b \in m.tool : b.run # x}
<1>9. rest = {} BY DEF Heard
<1> HIDE DEF rest
<1>10. m1 = [m EXCEPT !.events = ev, !.messages = w, !.text = {}, !.stopped = m.stopped \cup {x}, !.stoppedActive = x,
                      !.active = None, !.inputs = m.inputs \ {x}, !.tool = us]
  <2>1. kept = [m EXCEPT !.events = m.events \o u, !.messages = w, !.text = {}] BY <1>4, <1>9 DEF rest
  <2>2. kept.events = m.events \o u /\ kept.stopped = m.stopped /\ kept.inputs = m.inputs /\ kept.tool = m.tool
    BY <2>1 DEF Memories
  <2>3. m1 = [kept EXCEPT !.stopped = m.stopped \cup {x}, !.stoppedActive = x, !.active = None,
                          !.inputs = m.inputs \ {x}, !.events = ev, !.tool = us]
    BY <2>2
  <2> HIDE DEF m1, ev, us
  <2> QED BY <2>1, <2>3 DEF Memories
<1> HIDE DEF m1, ev
<1>11. us \in SUBSET Tools BY DEF Memories
<1> HIDE DEF us
<1>12. /\ m1 \in Memories /\ m1.events = ev /\ m1.count = m.count /\ m1.messages = w /\ m1.text = {}
       /\ m1.active = None /\ m1.stopped = m.stopped \cup {x} /\ m1.stoppedActive = x
       /\ m1.cancelled = m.cancelled /\ m1.cancelledActive = m.cancelledActive
  BY <1>4, <1>8, <1>10, <1>11 DEF Memories
<1>13. Longer(m, m1, s) BY <1>8, <1>12, LongerBy
<1>14. SameUsers(m, m1) BY <1>4, <1>12 DEF SameUsers, NoUser
<1>15. Heard(m1, x, S, FALSE) BY <1>12 DEF Off, Heard
<1>16. /\ Counted(m1) \in Memories /\ Waits(Counted(m1), x) /\ SameUsers(m, Counted(m1))
       /\ Heard(Counted(m1), x, S, FALSE) /\ Counted(m1).cancelled = m.cancelled
       /\ Counted(m1).stopped = m.stopped \cup {x}
  BY <1>12, <1>15, CountedIs, <1>14 DEF SameUsers, NoUser, SameStops
<1>17. Piece(s, x) /\ Holds(s, e)
  <2>1. CASE some BY <1>6, <2>1, PieceBoth DEF Says, s, u
  <2>2. CASE ~ some BY <1>7, <2>2, ConcatEmptySeq, <1>6 DEF s, u
  <2> QED BY <2>1, <2>2
<1>18. m1.active \in {x, None} BY <1>12
<1>19. PICK rec : Flushed(d, m1, s, x, rec) BY <1>13, <1>17, <1>18, FlushPiece
<1>20. Carries(rec, s, x) /\ rec.run = x BY <1>17, <1>19 DEF Named, Says, Flushed
<1>21. Flush(d, m1).mem = Counted(m1) /\ Flush(d, m1).writes = <<<<"history", Append(d.history, rec)>>>>
  BY <1>19 DEF Flushed, Outcome, Counted
<1>22. Fits(d.history, rec)
  <2>1. CASE Off(m, x)
    <3>1. ~ some BY <2>1 DEF Heard, some
    <3>2. s = t BY <1>7, <3>1, ConcatEmptySeq DEF s, u
    <3>3. \A f : Holds(s, f) => f[1] \in {"run_started", "run_finished"} BY <1>6, <3>2 DEF Says
    <3> QED BY <1>20, <2>1, <3>3, BareFits
  <2>2. CASE ~ Off(m, x)
    <3>1. ~ Over(S, x) /\ e \notin S /\ ~ Removed(d.history, x) BY <1>3, <2>2 DEF Over
    <3>2. Brings(s, e, S, x)
      <4>1. CASE some BY <4>1, <2>2, <3>1, <1>5, StopBrings DEF s, u, some, Heard
      <4>2. CASE ~ some BY <1>7, <4>2, ConcatEmptySeq, <1>5, <3>1, StopBrings DEF s, u
      <4> QED BY <4>1, <4>2
    <3>3. e \in Pairs /\ e[2] = x /\ e[1] = "run_finished" BY SaysIsPair DEF Kinds, Relayable
    <3>4. rec.run \in {x, None} /\ (rec.run = None => Whole(d.history)) BY <1>20, NoneIsNoRun
    <3>5. e[1] = "result" => Says("call", x) \in S BY <3>3
    <3> QED BY <1>20, <2>2, <3>1, <3>2, <3>3, <3>4, <3>5, TellFits
  <2> QED BY <2>1, <2>2
<1>23. \A f : Has(rec, f) => f[2] = x /\ (Terminal(f) => Terminal(e))
  <2>1. Terminal(e) BY DEF Terminal, Says
  <2>2. \A f : Has(rec, f) => f[2] = x BY <1>17, <1>20 DEF Piece, Holds, Carries, Quiet
  <2> QED BY <2>1, <2>2
<1>24. Puts(d.history, x, e, rec, FALSE)
  BY <1>20, <1>22, <1>23, NoneIsNoRun DEF Puts, Carries
<1> QED BY <1>2, <1>16, <1>21, <1>24 DEF Stops

\* The record of an accepted message.
LEMMA InputIs ==
  ASSUME NEW x \in Runs
  PROVE  /\ InputOf(x) \in Records /\ RecordInv(InputOf(x)) /\ InputOf(x).kind = "input" /\ InputOf(x).run = x
         /\ \A e : Has(InputOf(x), e) <=> e = Says("input", x)
<1> DEFINE a == Says("input", x)
           es == <<a>>
           rec == InputOf(x)
<1>1. "input" \in Kinds BY DEF Kinds
<1>2. a \in Pairs /\ a[1] = "input" /\ a[2] = x BY <1>1, SaysIsPair
<1>3. es \in Seq(Pairs) /\ Len(es) = 1 /\ es[1] = a BY <1>2
<1>4. rec = [kind |-> "input", run |-> x, events |-> es] BY DEF InputOf, Record
<1> HIDE DEF es, rec
<1>5. rec \in Records BY <1>3, <1>4, RunsAssumption DEF Records, Runs
<1>6. rec.kind = "input" /\ rec.run = x /\ rec.events = es BY <1>4
<1>7. \A i \in 1..Len(es) : i = 1 BY <1>3
<1>8. \A e : Has(rec, e) <=> e = a
  <2>1. 1 \in 1..Len(es) BY <1>3
  <2> QED BY <1>3, <1>6, <1>7, <2>1 DEF Has
<1>9. \A i \in 1..Len(es) : es[i][1] = "input" /\ ~ Terminal(es[i]) BY <1>2, <1>3, <1>7 DEF Terminal
<1>10. RecordInv(rec) BY <1>7, <1>6, <1>9 DEF es, RecordInv
<1> QED BY <1>5, <1>6, <1>8, <1>10 DEF rec

\* It can be appended, and nothing of the run was dealt with.
LEMMA InputFits ==
  ASSUME NEW h \in Seq(Records), NEW m, NEW x \in Runs, Unheard(h, m, x)
  PROVE  /\ Fits(h, InputOf(x))
         /\ \A g, deaf : Grown(h, g, InputOf(x)) => Told(g, x, {}, deaf, FALSE) /\ NoneBefore(g, x)
<1> DEFINE rec == InputOf(x)
           a == Says("input", x)
<1>1. /\ rec \in Records /\ RecordInv(rec) /\ rec.kind = "input" /\ rec.run = x /\ \A e : Has(rec, e) <=> e = a
  BY InputIs
<1>2. a[1] = "input" /\ a[2] = x BY DEF Says
<1> HIDE DEF rec, a
<1>3. \A e : In(h, e) => e[2] # x BY DEF Unheard, In
<1>4. ~ Removed(h, x) BY DEF Unheard, Removed
<1>5. Fits(h, rec) BY <1>1, <1>2, <1>3, <1>4, NoneIsNoRun DEF Says, Fits
<1>6. ASSUME NEW g, NEW deaf, Grown(h, g, rec) PROVE Told(g, x, {}, deaf, FALSE) /\ NoneBefore(g, x)
  <2>1. /\ Len(h) \in Nat /\ Len(g) = Len(h) + 1
        /\ \A k \in 1..Len(g) : k = Len(g) \/ (k \in 1..Len(h) /\ g[k] = h[k])
        /\ \A e : In(g, e) <=> In(h, e) \/ Has(rec, e)
    BY <1>6, GrownFacts
  <2>2. \A t \in {"call", "text_end", "result", "run_finished", "run_error"} : ~ In(g, Says(t, x))
    BY <1>1, <1>2, <1>3, <2>1 DEF Says
  <2>3. Told(g, x, {}, deaf, FALSE) BY <2>2 DEF Told
  <2>4. NoneBefore(g, x)
    <3> SUFFICES ASSUME NEW k \in 1..Len(g), NEW l \in 1..Len(g), k < l, NEW e, Has(g[k], e) PROVE e[2] # x
      BY DEF NoneBefore
    <3>1. k \in 1..Len(h) /\ g[k] = h[k] BY <2>1
    <3> QED BY <3>1 DEF Unheard
  <2> QED BY <2>3, <2>4
<1> QED BY <1>5, <1>6 DEF rec

\* save_run_start of a run that nothing is known of.
LEMMA StartIs ==
  ASSUME NEW m \in Memories, NEW x \in Runs, NEW d, d.history \in Seq(Records), Unheard(d.history, m, x)
  PROVE  Accepts(d, m, x, SaveRunStart(d, m, x))
<1> DEFINE op == SaveRunStart(d, m, x)
           m1 == op.mem
           a == Says("input", x)
           ev == Append(m.events, a)
           n == Len(ev)
           w == m.messages \cup {<<"U", x>>}
           i == m.inputs \cup {x}
<1>1. <<"U", x>> \notin m.messages BY DEF Unheard
<1>2. op.writes = <<<<"history", Append(d.history, InputOf(x))>>>> BY <1>1 DEF SaveRunStart, Outcome, InputOf
<1>3. m1 = [m EXCEPT !.active = None, !.cancelledActive = None, !.stoppedActive = None, !.text = {}, !.tool = {},
                     !.messages = w, !.events = ev, !.count = n, !.inputs = i]
  BY <1>1 DEF SaveRunStart, Outcome
<1>4. "input" \in Kinds /\ "U" \in Kinds BY DEF Kinds
<1>5. a \in Pairs /\ <<"U", x>> \in Pairs BY <1>4, SaysIsPair DEF Says
<1>6. ev \in Seq(Pairs) BY <1>5, AppendProperties DEF Memories
<1>7. n \in Nat BY <1>6, LenProperties
<1>8. w \in SUBSET Pairs /\ i \in SUBSET Runs BY <1>5 DEF Memories
<1>9. \A r : <<"U", r>> \in w => <<"U", r>> \in m.messages \/ r = x OBVIOUS
<1>10. n = Len(ev) OBVIOUS
<1> HIDE DEF ev, w, i, n, m1
<1>11. /\ m1 \in Memories /\ m1.events = ev /\ m1.count = n /\ m1.messages = w /\ m1.text = {} /\ m1.active = None
       /\ m1.stopped = m.stopped /\ m1.cancelled = m.cancelled /\ m1.stoppedActive = None /\ m1.cancelledActive = None
  BY <1>3, <1>6, <1>7, <1>8 DEF Memories
<1>12. Waits(m1, x) BY <1>7, <1>10, <1>11 DEF Waits
<1>13. Heard(m1, x, {}, FALSE) BY <1>11 DEF Off, Unheard, Over, Heard
<1> HIDE DEF op
<1>14. Accepts(d, m, x, op) BY <1>2, <1>9, <1>11, <1>12, <1>13 DEF m1, w, Accepts
<1> QED BY <1>14 DEF op

\* A message is that of an event of the history.
LEMMA MessageFrom ==
  ASSUME NEW h, Plain(h), NEW v, v \in ToSet(AllMessages(h))
  PROVE  \E e \in Pairs : In(h, e) /\ EndsMessage(e) /\ MessageOf(e) = v
<1>0. h \in Seq(Records) /\ Len(h) \in 0..Len(h) BY LenProperties DEF Plain
<1>1. AllMessages(h) \in Seq(Pairs) BY <1>0, MessagesTyped DEF AllMessages
<1>2. PICK q \in 1..Len(AllMessages(h)) : AllMessages(h)[q] = v BY <1>1, LenProperties DEF ToSet
<1>3. q \in 1..Len(Messages(h, Len(h))) /\ Messages(h, Len(h))[q] = v BY <1>2 DEF AllMessages
<1>4. PICK k \in 1..Len(h), e \in Pairs : Yields(h, k, e) /\ MessageOf(e) = v BY <1>0, <1>3, Located
<1> QED BY <1>4 DEF Yields, In

\* _ensure_loaded.
LEMMA LoadedIs ==
  ASSUME NEW d, Plain(d.history)
  PROVE  LET m == Loaded(d)
         IN /\ m \in Memories /\ m.count = Len(m.events) /\ m.text = {} /\ m.active = None
            /\ m.stopped = {} /\ m.cancelled = {} /\ m.stoppedActive = None /\ m.cancelledActive = None
            /\ \A r : <<"U", r>> \in m.messages => In(d.history, Says("input", r))
<1> DEFINE h == d.history
           ev == VisibleEvents(h, Len(h))
           n == Len(ev)
           w == ToSet(AllMessages(h))
           m == Loaded(d)
<1>1. h \in Seq(Records) /\ Len(h) \in 0..Len(h) BY LenProperties DEF Plain
<1>2. ev \in Seq(Pairs) BY <1>1, VisibleStep
<1>3. n \in Nat BY <1>2, LenProperties
<1>4. w \in SUBSET Pairs BY <1>1, MessagesTyped, LenProperties, ElementOfSeq DEF AllMessages, ToSet
<1>5. m = [NewMemory EXCEPT !.events = ev, !.count = n, !.messages = w] BY DEF Loaded
<1>6. n = Len(ev) OBVIOUS
<1>7. \A r : <<"U", r>> \in w => In(h, Says("input", r))
  <2> SUFFICES ASSUME NEW r, <<"U", r>> \in w PROVE In(h, Says("input", r)) OBVIOUS
  <2>1. PICK e \in Pairs : In(h, e) /\ EndsMessage(e) /\ MessageOf(e) = <<"U", r>> BY MessageFrom
  <2>2. e[1] = "input" /\ e[2] = r BY <2>1 DEF MessageOf, EndsMessage
  <2>3. e = Says("input", r) BY <2>2, PairIs
  <2> QED BY <2>1, <2>3
<1> HIDE DEF ev, n, w, m
<1>8. /\ m \in Memories /\ m.events = ev /\ m.count = n /\ m.messages = w /\ m.text = {} /\ m.active = None
      /\ m.stopped = {} /\ m.cancelled = {} /\ m.stoppedActive = None /\ m.cancelledActive = None
  BY <1>2, <1>3, <1>4, <1>5 DEF NewMemory, Memories
<1> QED BY <1>6, <1>7, <1>8 DEF m

\* An event of a history without tombstones is seen.
LEMMA WholeSeen ==
  ASSUME NEW h \in Seq(Records), Whole(h), NEW e, In(h, e)
  PROVE  e \in ToSet(VisibleEvents(h, Len(h)))
<1>1. PICK k \in 1..Len(h) : Has(h[k], e) BY DEF In
<1>2. Len(h) \in Nat /\ Len(h) \in k..Len(h) BY LenProperties
<1>3. ~ Removed(h, h[k].run) /\ h[k].kind # "remove" BY DEF Whole, Removed
<1>4. Visible(h, k) BY <1>3, SeenIs
<1>5. \E i \in 1..Len(VisibleEvents(h, Len(h))) : VisibleEvents(h, Len(h))[i] = e BY <1>1, <1>2, <1>4, VisibleHas
<1>6. VisibleEvents(h, Len(h)) \in Seq(Pairs) BY <1>2, VisibleStep
<1> QED BY <1>5, <1>6, LenProperties DEF ToSet

\* A continuation takes up what is in the history.
LEMMA RecordedIs ==
  ASSUME NEW h \in Seq(Records), Whole(h), NEW x \in Runs,
         \A t \in {"run_finished", "run_error"} : ~ In(h, Says(t, x)),
         NEW m, m.text = {}, m.active = None, m.stopped = {}, m.cancelled = {},
         m.stoppedActive = None, m.cancelledActive = None
  PROVE  LET S == RecordedIn(h, x)
         IN /\ Sane(S, x) /\ ~ Over(S, x)
            /\ Told(h, x, S, FALSE, TRUE)
            /\ Heard(m, x, S, TRUE)
            /\ \A e \in S : e[2] = x /\ e[1] \in Relayable
<1> DEFINE S == RecordedIn(h, x)
           events == ToSet(VisibleEvents(h, Len(h)))
           A == IF Says("text_end", x) \in events THEN {<<t, x>> : t \in {"text_start", "text", "text_end"}} ELSE {}
           B == IF Says("result", x) \in events THEN {Says("call", x), Says("result", x)} ELSE {}
<1>1. S = {Says("run_started", x)} \cup A \cup B BY DEF RecordedIn
<1>2. /\ A \in {{}, {Says("text_start", x), Says("text", x), Says("text_end", x)}}
      /\ Says("text_end", x) \in events => Says("text_end", x) \in A BY DEF Says
<1>3. B \in {{}, {Says("call", x), Says("result", x)}} /\ (Says("result", x) \in events => Says("result", x) \in B)
  OBVIOUS
<1> HIDE DEF S, A, B, events
<1>4. \A t \in {"text_end", "result"} : In(h, Says(t, x)) => Says(t, x) \in S
  BY <1>1, <1>2, <1>3, WholeSeen DEF events
<1>5. /\ Says("run_started", x) \in S
      /\ Says("run_finished", x) \notin S /\ Says("run_error", x) \notin S
      /\ Says("call", x) \in S <=> Says("result", x) \in S
      /\ Says("text_start", x) \in S <=> Says("text_end", x) \in S
      /\ Says("text", x) \in S <=> Says("text_end", x) \in S
  BY <1>1, <1>2, <1>3 DEF Says
<1>6. \A e \in S : e[2] = x /\ e[1] \in Relayable BY <1>1, <1>2, <1>3 DEF Says, Relayable
<1>7. Sane(S, x) /\ ~ Over(S, x) BY <1>5 DEF Sane, Over
<1>8. Told(h, x, S, FALSE, TRUE) BY <1>4, <1>5 DEF Told
<1>9. Heard(m, x, S, TRUE) BY <1>5, <1>7 DEF Off, Heard
<1> QED BY <1>6, <1>7, <1>8, <1>9 DEF S

-----------------------------------------------------------------------------
(* The queue of the events to persist.                                     *)

\* A run that has just been accepted has none.
LEMMA QueueNew ==
  ASSUME NEW c, c.queue = <<>>, c.sent = {}, ~c.ok, ~c.bad
  PROVE  QueueOk(c) /\ Due(c, 1) = {}
BY DEF Stream, Due, Sane, Over, QueueOk

\* Where the rest of the run's state changes, the queue is the same.
LEMMA QueueSame ==
  ASSUME NEW c, QueueOk(c), NEW c1, c1.run = c.run, c1.queue = c.queue, Stream(c1) = Stream(c),
         c1.ok = c.ok, c1.bad = c.bad, c1.phase = "opening" => c1 = c
  PROVE  QueueOk(c1) /\ Due(c1, 1) = Due(c, 1)
<1>1. \A i : Due(c1, i) = Due(c, i) BY DEF Due
<1> QED BY <1>1 DEF QueueOk

\* What is sent for the context is not of the stream.
LEMMA MarkedStream ==
  ASSUME NEW c, NEW c1, NEW e, e[1] \notin Relayable, c1.sent = c.sent \cup {e}
  PROVE  Stream(c1) = Stream(c)
BY DEF Stream

\* An element behind a queue.
LEMMA QueueAppend ==
  ASSUME NEW q \in Seq(Pairs), NEW e \in Pairs
  PROVE  /\ Append(q, e) \in Seq(Pairs) /\ Len(Append(q, e)) = Len(q) + 1 /\ Len(q) \in Nat
         /\ Append(q, e)[Len(q) + 1] = e /\ \A i \in 1..Len(q) : Append(q, e)[i] = q[i]
OBVIOUS

\* An event is queued.
LEMMA QueueMore ==
  ASSUME NEW c, QueueOk(c), NEW e \in Pairs, e[2] = c.run, ~ Over(Stream(c), c.run),
         NEW c1, c1.run = c.run, c1.queue = Append(c.queue, e), c1.phase # "opening",
         \/ e[1] \in Relayable /\ e \notin c.sent /\ c1.sent = c.sent \cup {e}
         \/ e[1] = "compacted" /\ c.queue = <<>> /\ c1.sent = c.sent,
         Sane(Stream(c1), c.run),
         (c1.ok \/ c1.bad) <=> Over(Stream(c1), c.run)
  PROVE  QueueOk(c1) /\ Due(c1, 1) = Due(c, 1)
<1> DEFINE q == c.queue
           l == Len(q)
<1>1. q \in Seq(Pairs) BY DEF QueueOk
<1>2. /\ c1.queue \in Seq(Pairs) /\ Len(c1.queue) = l + 1 /\ l \in Nat
      /\ c1.queue[l + 1] = e /\ \A i \in 1..l : c1.queue[i] = q[i]
  BY <1>1, QueueAppend
<1>3. "compacted" \notin Relayable BY DEF Relayable
<1>4. e \notin Stream(c) /\ Stream(c) \subseteq Stream(c1)
  BY <1>3 DEF Stream
<1>5. Stream(c1) = IF e[1] \in Relayable THEN Stream(c) \cup {e} ELSE Stream(c)
  BY <1>3 DEF Stream
<1>6. \A i \in 1..(l + 1) : {c1.queue[j] : j \in i..(l + 1)} = {q[j] : j \in i..l} \cup {e}
  <2> SUFFICES ASSUME NEW i \in 1..(l + 1)
      PROVE {c1.queue[j] : j \in i..(l + 1)} = {q[j] : j \in i..l} \cup {e}
    OBVIOUS
  <2>1. i..(l + 1) = (i..l) \cup {l + 1} BY <1>2
  <2>2. \A j \in i..l : j \in 1..l BY <1>2
  <2> QED BY <1>2, <2>1, <2>2
<1>7. \A i \in 1..(l + 1) : Due(c1, i) = Due(c, i)
  <2> SUFFICES ASSUME NEW i \in 1..(l + 1) PROVE Due(c1, i) = Due(c, i) OBVIOUS
  <2>1. Due(c1, i) = Stream(c1) \ ({q[j] : j \in i..l} \cup {e}) BY <1>2, <1>6 DEF Due
  <2>2. Due(c, i) = Stream(c) \ {q[j] : j \in i..l} BY DEF Due
  <2> QED BY <1>4, <1>5, <2>1, <2>2
<1>8. Due(c1, l + 2) = Stream(c1) /\ Due(c, l + 1) = Stream(c) BY <1>2 DEF Due
<1>9. \A i \in 1..(l + 1) : i = l + 1 \/ i \in 1..l BY <1>2
<1>10. \A i \in 1..(l + 2) : i = l + 2 \/ i \in 1..(l + 1) BY <1>2
<1>11. l + 1 \in 1..(l + 1) /\ 1 \in 1..(l + 1) /\ l + 1 + 1 = l + 2 BY <1>2
<1>12. \A i \in 1..l : q[i] # e BY <1>3, <1>4 DEF QueueOk
<1> HIDE DEF l, q
<1>13. \A i \in 1..l : /\ q[i][2] = c.run /\ (q[i] \in Stream(c) \/ q[i][1] = "compacted")
                       /\ ~ Over(Due(c, i), c.run)
  BY DEF QueueOk, q, l
<1>14. \A i, j \in 1..l : q[i] = q[j] => i = j BY DEF QueueOk, q, l
<1>15. \A i \in 1..(l + 1) : Sane(Due(c, i), c.run) BY DEF QueueOk, q, l
<1>16. ASSUME NEW i \in 1..(l + 1)
       PROVE  /\ c1.queue[i][2] = c1.run /\ (c1.queue[i] \in Stream(c1) \/ c1.queue[i][1] = "compacted")
              /\ ~ Over(Due(c1, i), c1.run)
  <2>1. CASE i \in 1..l BY <1>2, <1>4, <1>7, <1>13, <2>1
  <2>2. CASE i = l + 1 BY <1>2, <2>2, <1>5, <1>7, <1>8, <1>11
  <2> QED BY <1>9, <2>1, <2>2
<1>17. \A i, j \in 1..(l + 1) : c1.queue[i] = c1.queue[j] => i = j
  <2> SUFFICES ASSUME NEW i \in 1..(l + 1), NEW j \in 1..(l + 1), c1.queue[i] = c1.queue[j] PROVE i = j OBVIOUS
  <2> QED BY SMTT(30), <1>2, <1>9, <1>12, <1>14
<1>18. \A i \in 1..(l + 2) : Sane(Due(c1, i), c1.run) BY <1>7, <1>8, <1>10, <1>15
<1>19. Due(c1, 1) = Due(c, 1) BY <1>7, <1>11
<1>20. QueueOk(c1)
  BY <1>2, <1>11, <1>16, <1>17, <1>18 DEF QueueOk
<1> QED BY <1>19, <1>20

\* The first event of the queue is dealt with.
LEMMA QueueLess ==
  ASSUME NEW c, QueueOk(c), c.queue # <<>>, c.run \in Runs, NEW c1, c1.run = c.run, c1.queue = Tail(c.queue), c1.sent = c.sent,
         c1.ok = c.ok, c1.bad = c.bad, c1.phase # "opening"
  PROVE  QueueOk(c1) /\ Next1(Head(c.queue), c.run, Due(c, 1), Due(c1, 1))
<1> DEFINE q == c.queue
           l == Len(q)
           e == Head(q)
<1>1. q \in Seq(Pairs) BY DEF QueueOk
<1>2. /\ c1.queue \in Seq(Pairs) /\ Len(c1.queue) = l - 1 /\ l \in Nat \ {0} /\ e = q[1]
      /\ \A i \in 1..(l - 1) : c1.queue[i] = q[i + 1]
  BY <1>1
<1>3. Stream(c1) = Stream(c) BY DEF Stream
<1>4. \A i \in 1..l : Due(c1, i) = Due(c, i + 1)
  <2> SUFFICES ASSUME NEW i \in 1..l PROVE Due(c1, i) = Due(c, i + 1) OBVIOUS
  <2>1. \A j \in i..(l - 1) : j \in 1..(l - 1) /\ j + 1 \in (i + 1)..l BY <1>2
  <2>2. \A j \in (i + 1)..l : j - 1 \in i..(l - 1) /\ j - 1 + 1 = j BY <1>2
  <2>3. {c1.queue[j] : j \in i..(l - 1)} = {q[j] : j \in (i + 1)..l} BY <1>2, <2>1, <2>2
  <2> QED BY <1>2, <1>3, <2>3 DEF Due
<1>5. /\ \A i \in 1..(l - 1) : i \in 1..l /\ i + 1 \in 1..l
      /\ \A i \in 1..l : i + 1 \in 1..(l + 1) /\ (i = 1 \/ i - 1 \in 1..(l - 1))
      /\ 1 \in 1..l /\ 1 \in 1..(l + 1) /\ 2 \in 1..(l + 1) /\ 1 + 1 = 2 /\ l - 1 + 1 = l
      /\ \A i, j \in 1..l : i + 1 = j + 1 => i = j
      /\ \A j \in 2..l : j \in 1..l /\ j # 1
      /\ 1..l = {1} \cup (2..l)
  BY <1>2
<1>6. Due(c1, 1) = Due(c, 2) BY <1>4, <1>5
<1> HIDE DEF l, q, e
<1>13. \A i \in 1..l : /\ q[i][2] = c.run /\ (q[i] \in Stream(c) \/ q[i][1] = "compacted")
                       /\ ~ Over(Due(c, i), c.run)
  BY DEF QueueOk, q, l
<1>14. \A i, j \in 1..l : q[i] = q[j] => i = j BY DEF QueueOk, q, l
<1>15. \A i \in 1..(l + 1) : Sane(Due(c, i), c.run) BY DEF QueueOk, q, l
<1>16. \A i \in 1..(l - 1) : /\ c1.queue[i][2] = c1.run /\ (c1.queue[i] \in Stream(c1) \/ c1.queue[i][1] = "compacted")
                             /\ ~ Over(Due(c1, i), c1.run)
  BY <1>2, <1>3, <1>4, <1>5, <1>13
<1>17. \A i, j \in 1..(l - 1) : c1.queue[i] = c1.queue[j] => i = j BY <1>2, <1>5, <1>14
<1>18. \A i \in 1..l : Sane(Due(c1, i), c1.run) BY <1>4, <1>5, <1>15
<1>19. (c1.ok \/ c1.bad) <=> Over(Stream(c1), c1.run) BY <1>3 DEF QueueOk
<1>20. QueueOk(c1) BY <1>2, <1>5, <1>16, <1>17, <1>18, <1>19 DEF QueueOk
<1>21. Next1(e, c.run, Due(c, 1), Due(c, 2))
  <2>1. e \in Pairs /\ e[2] = c.run BY <1>1, <1>2, <1>5, <1>13 DEF q, l
  <2>2. ~ Over(Due(c, 1), c.run) /\ Sane(Due(c, 1), c.run) /\ Sane(Due(c, 2), c.run) BY <1>5, <1>13, <1>15
  <2>3. Due(c, 1) = Due(c, 2) \ {e} BY <1>2, <1>5 DEF Due, q, l
  <2>4. e \notin {q[j] : j \in 2..l} BY <1>2, <1>5, <1>14
  <2>5. CASE e \in Stream(c)
    <3>1. e[1] \in Relayable BY <2>5 DEF Stream
    <3>2. e \in Due(c, 2) BY <2>4, <2>5 DEF Due, q, l
    <3> QED BY <2>1, <2>2, <2>3, <3>1, <3>2 DEF Next1
  <2>6. CASE e[1] = "compacted" BY <2>6, <2>1, <2>2, <2>3 DEF Relayable, Due, Stream, Next1
  <2> QED BY <1>2, <1>5, <1>13, <2>5, <2>6
<1> QED BY <1>6, <1>20, <1>21 DEF e, q

-----------------------------------------------------------------------------
(* What the steps do to the files.                                         *)

\* Nothing is written.
LEMMA WroteNothing ==
  ASSUME Shape(disk), NEW op, op.writes = <<>>, Perform(op)
  PROVE  OnlyContext(disk.context) /\ mem' = op.mem
BY NoWrite, FileStays DEF Perform, Shape, OnlyContext

\* One file of two is written.
LEMMA WroteOne ==
  ASSUME Shape(disk), NEW f \in {"history", "context"}, NEW g
  PROVE  LET v == Written(disk, <<<<f, g>>>>)
         IN v[f] = g /\ \A b \in DOMAIN disk : b # f => v[b] = disk[b]
<1> DEFINE ws == <<<<f, g>>>>
<1>1. Row(ws) /\ Len(ws) = 1 /\ ws[1] = <<f, g>> BY OneWrite
<1>2. ws[1][1] = f /\ ws[1][2] = g BY <1>1
<1> HIDE DEF ws
<1>3. \A n \in 1..Len(ws) : n = 1 BY <1>1
<1>4. ASSUME NEW b \in DOMAIN disk, b # f PROVE Written(disk, ws)[b] = disk[b]
  BY <1>1, <1>2, <1>3, <1>4, FileStays
<1>5. Written(disk, ws)[f] = g BY <1>1, <1>3, <1>2, LastWrite DEF Shape
<1> QED BY <1>4, <1>5 DEF ws

\* The history is.
LEMMA WroteHistory ==
  ASSUME Shape(disk), NEW g, NEW op, op.writes = <<<<"history", g>>>>, Perform(op)
  PROVE  /\ disk'.history = g /\ disk'.context = disk.context /\ disk'.open = disk.open /\ mem' = op.mem
BY WroteOne DEF Perform, Shape

\* A summary that cannot be trusted is dropped.
LEMMA WroteContext ==
  ASSUME Shape(disk), NEW op, op.writes = <<>>, Perform(Checking(disk, op))
  PROVE  OnlyContext(Validated(disk.context, disk.history)) /\ mem' = op.mem
<1> DEFINE x == Validated(disk.context, disk.history)
<1>1. <<<<"context", x>>>> \o <<>> = <<<<"context", x>>>> OBVIOUS
<1>2. disk' = Written(disk, <<<<"context", x>>>>) /\ mem' = op.mem BY <1>1 DEF Perform, Checking, Outcome
<1> HIDE DEF x
<1>3. LET v == Written(disk, <<<<"context", x>>>>)
      IN v["context"] = x /\ \A b \in DOMAIN disk : b # "context" => v[b] = disk[b]
  BY WroteOne
<1>4. disk'.context = x /\ disk'.history = disk.history /\ disk'.open = disk.open BY <1>2, <1>3 DEF Shape
<1> QED BY <1>2, <1>4 DEF OnlyContext, x

\* A run is cancelled.
LEMMA WroteCancel ==
  ASSUME Shape(disk), NEW m, NEW r, Perform(CancelRun(disk, m, r))
  PROVE  LET g == Append(disk.history, Tombstone(r))
         IN /\ disk'.history = g /\ disk'.context = Validated(disk.context, g) /\ disk'.open = disk.open
            /\ mem' = CancelRun(disk, m, r).mem
<1> DEFINE g == Append(disk.history, Tombstone(r))
           c == Validated(disk.context, g)
           ws == <<<<"history", g>>, <<"context", c>>>>
<1>1. CancelRun(disk, m, r).writes = ws BY DEF CancelRun, Outcome, Tombstone
<1>2. disk' = Written(disk, ws) /\ mem' = CancelRun(disk, m, r).mem BY <1>1 DEF Perform
<1>3. Row(ws) /\ Len(ws) = 2 BY <1>1, CancelHarmless DEF Harmless
<1>4. ws[1][1] = "history" /\ ws[1][2] = g /\ ws[2][1] = "context" /\ ws[2][2] = c OBVIOUS
<1> HIDE DEF ws, g, c
<1>5. \A n \in 1..Len(ws) : n = 1 \/ n = 2 BY <1>3
<1>6. 1 \in 1..Len(ws) /\ 2 \in 1..Len(ws) /\ 2 > 1 /\ ~ (1 > 1) /\ ~ (2 > 2) /\ ~ (1 > 2) BY <1>3
<1>7. "history" \in DOMAIN disk /\ "context" \in DOMAIN disk /\ "open" \in DOMAIN disk BY DEF Shape
<1>8. Written(disk, ws)["history"] = g BY <1>4, <1>5, <1>6, <1>3, <1>7, LastWrite
<1>9. Written(disk, ws)["context"] = c BY <1>4, <1>5, <1>6, <1>3, <1>7, LastWrite
<1>10. Written(disk, ws)["open"] = disk["open"] BY <1>4, <1>5, <1>3, <1>7, FileStays
<1> QED BY <1>2, <1>8, <1>9, <1>10 DEF g, c

\* A restart leaves the history and the context as they are.
LEMMA RestartedKeeps ==
  ASSUME NEW d, Shape(d)
  PROVE  Restarted(d).history = d.history /\ Restarted(d).context = d.context /\ Restarted(d).open = d.open
BY DEF Restarted, Shape

\* cancel_run broken off.
LEMMA CancelBroken ==
  ASSUME Shape(disk), NEW r \in Runs, BreakOff(CancelRun(disk, mem, r))
  PROVE  /\ disk'.history \in {disk.history, Append(disk.history, Tombstone(r))}
         /\ disk'.context = disk.context /\ disk'.open = disk.open /\ mem' = Loaded(disk')
<1> DEFINE g == Append(disk.history, Tombstone(r))
           ws == CancelRun(disk, mem, r).writes
<1>1. Harmless(ws) /\ Len(ws) = 2 /\ Row(ws) BY CancelHarmless DEF Harmless
<1>2. ws[1] = <<"history", g>> BY DEF CancelRun, Outcome, Tombstone
<1> HIDE DEF ws, g
<1>3. PICK n \in 0..(Len(ws) - 1) : disk' = Restarted(Written(disk, SubSeq(ws, 1, n))) /\ mem' = Loaded(disk')
  BY DEF BreakOff, ws
<1> DEFINE v == Written(disk, SubSeq(ws, 1, n))
<1>4. n \in 0..Len(ws) /\ n \in {0, 1} BY <1>1, <1>3
<1>5. Shape(v) BY <1>1, <1>4, HarmlessWrites DEF SameCards
<1>6. /\ Row(SubSeq(ws, 1, n)) /\ Len(SubSeq(ws, 1, n)) = n
      /\ \A i \in 1..n : SubSeq(ws, 1, n)[i] = ws[i]
  BY <1>1, <1>4, RowCut
<1>7. "history" \in DOMAIN disk /\ "context" \in DOMAIN disk /\ "open" \in DOMAIN disk BY DEF Shape
<1> DEFINE us == SubSeq(ws, 1, n)
<1>8. /\ Written(disk, us)["history"] \in {disk["history"], g} /\ Written(disk, us)["context"] = disk["context"]
      /\ Written(disk, us)["open"] = disk["open"]
  <2>1. CASE n = 0
    <3>1. 1..Len(us) = {} BY <1>6, <2>1
    <3> HIDE DEF us
    <3> QED BY <1>6, <1>7, <3>1, FileStays DEF us
  <2>2. CASE n = 1
    <3>1. Len(us) = 1 /\ us[1] = <<"history", g>> /\ Row(us) BY <1>2, <1>6, <2>2
    <3> HIDE DEF us
    <3>2. us[1][1] = "history" /\ us[1][2] = g /\ 1 \in 1..Len(us) /\ \A k \in 1..Len(us) : k = 1 /\ ~ (k > 1)
      BY <3>1
    <3>3. Written(disk, us)["history"] = g BY <1>7, <3>1, <3>2, LastWrite
    <3>4. \A k \in 1..Len(us) : us[k][1] # "context" /\ us[k][1] # "open" BY <3>2
    <3> QED BY <1>7, <3>1, <3>3, <3>4, FileStays
  <2> QED BY <1>4, <2>1, <2>2
<1> HIDE DEF v
<1>9. v.history \in {disk.history, g} /\ v.context = disk.context /\ v.open = disk.open BY <1>8 DEF v
<1> QED BY <1>3, <1>5, <1>9, RestartedKeeps DEF v, g

\* The other operations of more than one write make none in a session without cards.
LEMMA OnlyCancels ==
  ASSUME Shape(disk), StillInv, NEW op \in Underway, BreakOff(op)
  PROVE  \E r \in Runs : Cancellable(r) /\ op = CancelRun(disk, mem, r)
<1>1. \A r \in Runs : ~ IsAnswer(r) BY DEF StillInv, IsAnswer, NotPosted, Input
<1>2. ASSUME op.writes = <<>> PROVE FALSE BY NoWrite, <1>2 DEF BreakOff
<1>3. \A r \in Runs : Finished(r).writes = <<>> BY <1>1 DEF Finished, Outcome
<1>4. DismissCards(disk, mem).writes = <<>> BY DEF StillInv, DismissCards, Outcome
<1>5. \A r \in Runs : ~ CanShow(r) BY DEF CanShow, StillInv, Orderly
<1> QED BY <1>1, <1>2, <1>3, <1>4, <1>5 DEF Underway

-----------------------------------------------------------------------------
(* The steps that leave the history and the memory alone.                  *)

\* What is known of the history and the memory goes on to hold.
LEMMA RestsStory ==
  ASSUME StoryInv, Rests, StillInv', QueueInv', PendingInv'
  PROVE  StoryInv'
BY DEF Rests, StoryInv, OrderInv, FlowInv, FlowOk, UnknownInv, CleanInv, Clean

\* The session goes on as it is, or its run goes on, or gives the lock back.
LEMMA StillStays ==
  ASSUME StillInv, disk'.open = disk.open, request' = request, waiting' \subseteq waiting, may' \subseteq may,
         \/ cur'.phase \in {"idle", "manual", "lost"} /\ ~cur'.again /\ cur'.cont = 0
         \/ /\ cur.phase \in Taken \cup {"locked", "accepting"} /\ cur'.phase \in Taken \cup {"accepting"}
            /\ cur'.run = cur.run /\ cur'.again = cur.again /\ cur'.cont \in Nat
  PROVE  StillInv'
BY DEF StillInv, Orderly, Taken

\* The same of a continuation that is pending: the run goes on alike, or does not.
LEMMA PendingStays ==
  ASSUME PendingInv, disk'.history = disk.history, may' \in {may, may \ {"manual"}},
         {"gen", "rev", "pending"} \subseteq DOMAIN disk'.context,
         disk'.context.pending \in {disk.context.pending, None},
         cur'.phase = "accepting" => cur.phase = "accepting" \/ disk'.context.pending = None,
         cur'.phase \in Taken =>
           \/ disk'.context.pending = None
           \/ cur.phase \in Taken /\ cur'.run = cur.run /\ cur'.ok = cur.ok /\ cur'.bad = cur.bad /\ cur'.cont = cur.cont,
         \/ cur'.phase # "streaming"
         \/ cur'.view.context.gen = disk'.context.gen
         \/ cur.phase = "streaming" /\ cur'.view = cur.view /\ disk'.context.gen = disk.context.gen
  PROVE  PendingInv'
BY DEF PendingInv

\* Nobody holds the lock.
LEMMA IdleIs == Idle.phase = "idle" /\ Idle.run = None /\ ~Idle.again /\ Idle.cont = 0
BY DEF Idle, Holding

\* The lock is given back or lost, or taken for the context only.
LEMMA ReleaseRests ==
  ASSUME StoryInv, disk'.history = disk.history, mem' = mem, may' \in {may, may \ {"manual"}},
         UNCHANGED <<request, waiting>>, disk'.open = disk.open,
         {"gen", "rev", "pending"} \subseteq DOMAIN disk'.context,
         disk'.context.pending \in {disk.context.pending, None},
         cur'.phase \in {"idle", "manual", "lost"}, ~cur'.again, cur'.cont = 0
  PROVE  StoryInv'
BY StillStays, PendingStays, NoneIsNoRun, RestsStory DEF StoryInv, Taken, QueueInv, Unknown, Rests

\* The context of a view, and one that is not trusted.
LEMMA ContextKeys ==
  ASSUME NEW c, {"gen", "rev", "pending"} \subseteq DOMAIN c
  PROVE  /\ \A h : Validated(c, h).pending \in {c.pending, None} /\ {"gen", "rev", "pending"} \subseteq DOMAIN Validated(c, h)
         /\ Revised(c).pending = c.pending /\ {"gen", "rev", "pending"} \subseteq DOMAIN Revised(c) /\ Revised(c).gen = c.gen
         /\ Cleared(c).pending = None /\ {"gen", "rev", "pending"} \subseteq DOMAIN Cleared(c) /\ Cleared(c).gen = c.gen
         /\ EmptyContext.pending = None /\ {"gen", "rev", "pending"} \subseteq DOMAIN EmptyContext
BY DEF EmptyContext, Validated, Revised, Cleared

\* The view is of the context that is kept with it.
LEMMA ViewContext == View(disk).context = Validated(disk.context, disk.history)
BY DEF View

-----------------------------------------------------------------------------
(* A run that goes on.                                                     *)

\* The queue and the pending continuation are all there is to a step of its stream.
LEMMA MoveRests ==
  ASSUME StoryInv, disk'.history = disk.history, mem' = mem, UNCHANGED <<may, request, waiting>>,
         disk'.open = disk.open, disk'.context.pending \in {disk.context.pending, None, cur.run},
         cur.phase \in Taken, cur'.phase \in Taken,
         cur'.run = cur.run, cur'.again = cur.again, cur'.deaf = cur.deaf, cur'.cont \in Nat,
         QueueOk(cur'), Due(cur', 1) = Due(cur, 1), PendingInv'
  PROVE  StoryInv'
BY StillStays, NoneIsNoRun, RestsStory DEF StoryInv, QueueInv, Taken, Unknown, StillInv, Rests

\* A step that leaves the queue alone as well.
LEMMA GoRests ==
  ASSUME StoryInv, disk'.history = disk.history, mem' = mem, UNCHANGED <<may, request, waiting>>,
         disk'.open = disk.open,
         {"gen", "rev", "pending"} \subseteq DOMAIN disk'.context,
         disk'.context.pending \in {disk.context.pending, None},
         cur.phase \in Taken, cur'.phase \in Taken \ {"opening"},
         cur'.run = cur.run, cur'.again = cur.again, cur'.deaf = cur.deaf, cur'.cont = cur.cont,
         cur'.queue = cur.queue, Stream(cur') = Stream(cur), cur'.ok = cur.ok, cur'.bad = cur.bad,
         \/ cur'.phase # "streaming"
         \/ cur'.view.context.gen = disk'.context.gen
         \/ cur.phase = "streaming" /\ cur'.view = cur.view /\ disk'.context.gen = disk.context.gen
  PROVE  StoryInv'
BY QueueSame, PendingStays, MoveRests DEF StoryInv, QueueInv, StillInv, Taken

-----------------------------------------------------------------------------
(* The steps before the stream.                                            *)

\* A run is posted.
LEMMA PostKeeps ==
  ASSUME StoryInv, CardsInv, NEW r \in Runs, Post(r)
  PROVE  StoryInv'
<1>0. PostNew(r)
  <2>1. ~ IsAnswer(r) BY DEF StoryInv, StillInv, IsAnswer, NotPosted, Input
  <2> QED BY <2>1 DEF Post, PostAgain
<1>1. /\ request[r] = NotPosted /\ waiting = {} /\ waiting' = {r} /\ UNCHANGED <<disk, mem, may, cur>>
  BY <1>0 DEF PostNew
<1>2. disk.open = {} /\ request \in [Runs -> Requests] BY DEF StoryInv, StillInv, CardsInv, RunsInv, CardTypes
<1>3. request' = [request EXCEPT ![r] = Input] BY <1>0, <1>2 DEF PostNew
<1>4. NotPosted # Input BY DEF NotPosted, Input
<1>5. StillInv' BY <1>1, <1>2, <1>3, <1>4 DEF StoryInv, StillInv
<1>6. QueueInv' BY <1>1 DEF StoryInv, QueueInv
<1>7. PendingInv' BY <1>1 DEF StoryInv, PendingInv
<1>8. \A x \in Runs : Unknown(x)' => Unknown(x) BY <1>1, <1>2, <1>3 DEF Unknown
<1>9. Rests BY <1>1, <1>8 DEF Rests
<1> QED BY <1>5, <1>6, <1>7, <1>9, RestsStory

\* It gets the lock.
LEMMA AcquireKeeps ==
  ASSUME StoryInv, CardsInv, NEW r \in Runs, Acquire(r)
  PROVE  StoryInv'
<1>1. /\ r \in waiting /\ cur = Idle /\ waiting' = waiting \ {r} /\ cur' = Holding(r, "locked")
      /\ UNCHANGED <<disk, mem, may, request>>
  BY DEF Acquire
<1>2. cur'.run = r /\ cur'.phase = "locked" /\ ~cur'.again /\ cur'.cont = 0 BY <1>1 DEF Holding
<1>3. cur'.phase \notin Taken BY <1>2 DEF Taken
<1>4. request[r] # NotPosted BY <1>1 DEF CardsInv, RunsInv, PostedInv
<1>5. StillInv' BY <1>1, <1>2, <1>3, <1>4 DEF StoryInv, StillInv
<1>6. QueueInv' BY <1>3 DEF QueueInv
<1>7. PendingInv' BY <1>1, <1>2, <1>3 DEF StoryInv, PendingInv
<1>8. \A x \in Runs : Unknown(x)' => Unknown(x) BY <1>1, <1>2 DEF Unknown
<1>9. Rests BY <1>1, <1>2, <1>3, <1>8 DEF Rests
<1> QED BY <1>5, <1>6, <1>7, <1>9, RestsStory

\* It is refused.
LEMMA RefuseKeeps ==
  ASSUME StoryInv, CardsInv, NEW r \in Runs, Refuse(r)
  PROVE  StoryInv'
<1>1. /\ Perform(Checking(disk, Outcome(mem, <<>>))) /\ cur' = Idle /\ UNCHANGED <<may, request, waiting>>
  BY DEF Refuse, Release, clientVars
<1>2. Outcome(mem, <<>>).writes = <<>> /\ Outcome(mem, <<>>).mem = mem BY DEF Outcome
<1>3. OnlyContext(Validated(disk.context, disk.history)) /\ mem' = mem
  BY <1>1, <1>2, WroteContext DEF CardsInv, RunsInv, CardTypes, Shaped
<1>4. cur'.phase = "idle" /\ ~cur'.again /\ cur'.cont = 0 BY <1>1, IdleIs
<1>5. {"gen", "rev", "pending"} \subseteq DOMAIN disk.context BY DEF StoryInv, PendingInv
<1>6. /\ disk'.context.pending \in {disk.context.pending, None}
      /\ {"gen", "rev", "pending"} \subseteq DOMAIN disk'.context
  BY <1>3, <1>5, ContextKeys DEF OnlyContext
<1> QED BY <1>1, <1>3, <1>4, <1>6, ReleaseRests DEF OnlyContext

\* A call of the store fails.
LEMMA StoreFailsKeeps ==
  ASSUME StoryInv, CardsInv, NEW r \in Runs, StoreFails(r)
  PROVE  StoryInv'
<1>1. /\ cur.run = r /\ cur.phase \in {"locked", "accepting"} /\ cur' = Idle
      /\ mem' = mem \/ mem' = SaveBegun(mem, r)
      /\ UNCHANGED <<disk, may, request, waiting>>
  BY DEF StoreFails, CallFailed, Release, clientVars
<1>2. cur'.phase = "idle" /\ cur'.run = None /\ ~cur'.again /\ cur'.cont = 0 BY <1>1, IdleIs
<1>3. {"gen", "rev", "pending"} \subseteq DOMAIN disk.context BY DEF StoryInv, PendingInv
<1>4. CASE mem' = mem BY <1>1, <1>2, <1>3, <1>4, ReleaseRests
<1>5. CASE mem' = SaveBegun(mem, r)
  <2>1. mem \in Memories /\ <<"U", r>> \in Pairs BY DEF StoryInv, OrderInv, Pairs, Kinds
  <2>2. /\ mem' \in Memories /\ mem'.messages = mem.messages \cup {<<"U", r>>}
        /\ mem'.cancelled = mem.cancelled /\ mem'.stopped = mem.stopped
        /\ mem'.cancelledActive = None /\ mem'.stoppedActive = None
    BY <1>5, <2>1 DEF SaveBegun, Memories
  <2>3. StillInv' BY <1>1, <1>2, StillStays DEF StoryInv
  <2>4. QueueInv' /\ FlowInv' BY <1>2 DEF QueueInv, FlowInv, Taken
  <2>5. PendingInv' BY <1>1, <1>2, <1>3, PendingStays DEF StoryInv, Taken
  <2>6. OrderInv' BY <1>1, <2>2 DEF StoryInv, OrderInv
  <2>7. request[r] # NotPosted /\ r \notin waiting BY <1>1 DEF StoryInv, StillInv
  <2>8. \A q \in Runs : Unknown(q)' => Unknown(q) /\ q # r BY <1>1, <1>2, <2>7, NoneIsNoRun DEF Unknown
  <2>9. UnknownInv' BY <1>1, <2>2, <2>8 DEF StoryInv, UnknownInv, Unheard
  <2>10. CleanInv' BY <1>1, <1>2, <2>2 DEF StoryInv, CleanInv, Clean
  <2> QED BY <2>3, <2>4, <2>5, <2>6, <2>9, <2>10 DEF StoryInv
<1> QED BY <1>1, <1>4, <1>5

\* Its message dismisses the cards, of which there are none.
LEMMA DismissKeeps ==
  ASSUME StoryInv, CardsInv, NEW r \in Runs, Dismiss(r)
  PROVE  StoryInv'
<1>1. /\ cur.run = r /\ cur.phase = "locked" /\ ~Pending /\ Perform(Checking(disk, DismissCards(disk, mem)))
      /\ cur' = [cur EXCEPT !.phase = "accepting"] /\ UNCHANGED <<may, request, waiting>>
  BY DEF Dismiss, clientVars
<1>2. DismissCards(disk, mem).writes = <<>> /\ DismissCards(disk, mem).mem = mem
  BY DEF StoryInv, StillInv, DismissCards, Outcome
<1>3. OnlyContext(Validated(disk.context, disk.history)) /\ mem' = mem
  BY <1>1, <1>2, WroteContext DEF CardsInv, RunsInv, CardTypes, Shaped, Checking, Outcome
<1>4. Keys(cur) BY DEF CardsInv, RunsInv, CardTypes, Shaped
<1>5. cur'.phase = "accepting" /\ cur'.run = r /\ cur'.again = cur.again /\ cur'.cont = cur.cont /\ cur'.phase \notin Taken
  BY <1>1, <1>4 DEF Keys, Taken
<1>6. {"gen", "rev", "pending"} \subseteq DOMAIN disk.context BY DEF StoryInv, PendingInv
<1>7. disk'.context.pending = None /\ {"gen", "rev", "pending"} \subseteq DOMAIN disk'.context
  BY <1>1, <1>3, <1>6, ContextKeys DEF OnlyContext, Pending
<1>8. StillInv' BY <1>1, <1>3, <1>5, StillStays DEF StoryInv, StillInv, OnlyContext
<1>9. QueueInv' BY <1>5 DEF QueueInv
<1>10. PendingInv' BY <1>5, <1>1, <1>3, <1>7, PendingStays DEF StoryInv, OnlyContext
<1>11. \A x \in Runs : Unknown(x)' => Unknown(x) BY <1>1, <1>5 DEF Unknown
<1>12. Rests BY <1>1, <1>3, <1>5, <1>7, <1>11, NoneIsNoRun DEF Rests, OnlyContext
<1> QED BY <1>8, <1>9, <1>10, <1>12, RestsStory

-----------------------------------------------------------------------------
(* The stream and the context.                                             *)

\* The stream opens, for the first time or again.
LEMMA OpenKeeps ==
  ASSUME StoryInv, CardsInv, NEW r \in Runs, Open(r) \/ Reopen(r)
  PROVE  StoryInv'
<1>1. /\ cur.phase \in {"opening", "reopening"} /\ disk' = [disk EXCEPT !.context = View(disk).context]
      /\ cur' = [cur EXCEPT !.phase = "streaming", !.view = View(disk)] /\ mem' = mem /\ UNCHANGED <<may, request, waiting>>
  BY DEF Open, Reopen, clientVars
<1>2. Keys(cur) /\ Shape(disk) BY DEF CardsInv, RunsInv, CardTypes, Shaped
<1> DEFINE v == View(disk)
<1>3. v.context = Validated(disk.context, disk.history) BY ViewContext
<1>4. disk'.history = disk.history /\ disk'.open = disk.open /\ disk'.context = v.context BY <1>1, <1>2 DEF Shape
<1>5. /\ cur'.phase = "streaming" /\ cur'.view = v /\ cur'.run = cur.run /\ cur'.again = cur.again /\ cur'.deaf = cur.deaf
      /\ cur'.cont = cur.cont /\ cur'.queue = cur.queue /\ cur'.sent = cur.sent /\ cur'.ok = cur.ok /\ cur'.bad = cur.bad
  BY <1>1, <1>2 DEF Keys
<1>6. {"gen", "rev", "pending"} \subseteq DOMAIN disk.context BY DEF StoryInv, PendingInv
<1> HIDE DEF v
<1>7. /\ disk'.context.pending \in {disk.context.pending, None}
      /\ {"gen", "rev", "pending"} \subseteq DOMAIN disk'.context
  BY <1>3, <1>4, <1>6, ContextKeys
<1>8. cur.phase \in Taken /\ cur'.phase \in Taken \ {"opening"} BY <1>1, <1>5 DEF Taken
<1>9. Stream(cur') = Stream(cur) BY <1>5 DEF Stream
<1>10. cur'.view.context.gen = disk'.context.gen BY <1>4, <1>5
<1> QED BY <1>1, <1>4, <1>5, <1>7, <1>8, <1>9, <1>10, GoRests

\* It ends, or the browser leaves.
LEMMA EndKeeps ==
  ASSUME StoryInv, CardsInv, NEW r \in Runs, StreamEnds(r) \/ Leave(r)
  PROVE  StoryInv'
<1>0. UNCHANGED <<disk, mem, may, request, waiting>> BY DEF StreamEnds, Leave, clientVars
<1>6. {"gen", "rev", "pending"} \subseteq DOMAIN disk.context BY DEF StoryInv, PendingInv
<1>7. CASE cur' = Idle \/ cur' = Holding(None, "lost")
  <2>1. cur'.phase \in {"idle", "lost"} /\ ~cur'.again /\ cur'.cont = 0 BY <1>7, IdleIs DEF Holding
  <2> QED BY <1>0, <1>6, <2>1, ReleaseRests
<1> SUFFICES ASSUME cur' # Idle, cur' # Holding(None, "lost") PROVE StoryInv' BY <1>7
<1>1. /\ cur.phase \in {"streaming", "reopening"}
      /\ \/ cur' = [cur EXCEPT !.phase = "closing"]
         \/ cur' = [cur EXCEPT !.phase = "closing", !.left = TRUE]
  BY DEF StreamEnds, Leave, Release
<1>2. Keys(cur) BY DEF CardsInv, RunsInv, CardTypes, Shaped
<1>3. /\ cur'.phase = "closing" /\ cur'.run = cur.run /\ cur'.again = cur.again /\ cur'.deaf = cur.deaf
      /\ cur'.cont = cur.cont /\ cur'.queue = cur.queue /\ cur'.sent = cur.sent /\ cur'.ok = cur.ok /\ cur'.bad = cur.bad
  BY <1>1, <1>2 DEF Keys
<1>4. cur.phase \in Taken /\ cur'.phase \in Taken \ {"opening"} /\ cur'.phase # "streaming" BY <1>1, <1>3 DEF Taken
<1>5. Stream(cur') = Stream(cur) BY <1>3 DEF Stream
<1> QED BY <1>0, <1>3, <1>4, <1>5, <1>6, GoRests

\* A failure to compact, and a patch.
LEMMA MarkKeeps ==
  ASSUME StoryInv, CardsInv, NEW r \in Runs, Failure(r) \/ Patch(r)
  PROVE  StoryInv'
<1>1. /\ cur.phase = "streaming" /\ UNCHANGED <<mem, may, request, waiting>>
      /\ disk' = disk \/ disk' = [disk EXCEPT !.context = Revised(@)]
      /\ \E t \in {"failure", "patch"} : cur' = [cur EXCEPT !.sent = @ \cup {Says(t, r)}]
  BY DEF Failure, Patch, CanPropose, Live, Marked, clientVars
<1>2. Keys(cur) /\ Shape(disk) BY DEF CardsInv, RunsInv, CardTypes, Shaped
<1>3. PICK t \in {"failure", "patch"} : cur' = [cur EXCEPT !.sent = @ \cup {Says(t, r)}] BY <1>1
<1>4. /\ cur'.phase = cur.phase /\ cur'.run = cur.run /\ cur'.again = cur.again /\ cur'.deaf = cur.deaf /\ cur'.view = cur.view
      /\ cur'.cont = cur.cont /\ cur'.queue = cur.queue /\ cur'.sent = cur.sent \cup {Says(t, r)}
      /\ cur'.ok = cur.ok /\ cur'.bad = cur.bad
  BY <1>2, <1>3 DEF Keys
<1>5. Stream(cur') = Stream(cur) BY <1>4, MarkedStream DEF Says, Relayable
<1>6. {"gen", "rev", "pending"} \subseteq DOMAIN disk.context BY DEF StoryInv, PendingInv
<1>7. /\ disk'.history = disk.history /\ disk'.open = disk.open
      /\ disk'.context = disk.context \/ disk'.context = Revised(disk.context)
  BY <1>1, <1>2 DEF Shape
<1>8. /\ disk'.context.pending = disk.context.pending /\ disk'.context.gen = disk.context.gen
      /\ {"gen", "rev", "pending"} \subseteq DOMAIN disk'.context
  BY <1>6, <1>7, ContextKeys
<1>9. cur.phase \in Taken /\ cur'.phase \in Taken \ {"opening"} BY <1>1, <1>4 DEF Taken
<1> QED BY <1>1, <1>4, <1>5, <1>7, <1>8, <1>9, GoRests

\* A compaction that is refused.
LEMMA RefusedKeeps ==
  ASSUME StoryInv, CardsInv, NEW r \in Runs, CompactRefused(r)
  PROVE  StoryInv'
<1>1. /\ cur.phase = "streaming" /\ UNCHANGED <<mem, may, request, waiting>>
      /\ disk' = disk \/ disk' = [disk EXCEPT !.context = Validated(@, disk.history)]
      /\ cur' = Idle \/ cur' = [cur EXCEPT !.phase = "closing"]
  BY DEF CompactRefused, CanPropose, Live, clientVars
<1>2. Keys(cur) /\ Shape(disk) BY DEF CardsInv, RunsInv, CardTypes, Shaped
<1>3. {"gen", "rev", "pending"} \subseteq DOMAIN disk.context BY DEF StoryInv, PendingInv
<1>4. /\ disk'.history = disk.history /\ disk'.open = disk.open
      /\ disk'.context = disk.context \/ disk'.context = Validated(disk.context, disk.history)
  BY <1>1, <1>2 DEF Shape
<1>5. /\ disk'.context.pending \in {disk.context.pending, None}
      /\ {"gen", "rev", "pending"} \subseteq DOMAIN disk'.context
  BY <1>3, <1>4, ContextKeys
<1>6. CASE cur' = Idle BY <1>6, IdleIs, <1>1, <1>4, <1>5, ReleaseRests
<1>7. CASE cur' = [cur EXCEPT !.phase = "closing"] BY <1>2, <1>7, <1>1, <1>4, <1>5, GoRests DEF Keys, Taken, Stream
<1> QED BY <1>1, <1>6, <1>7

-----------------------------------------------------------------------------
(* What the backend sends.                                                 *)

\* A step of the protocol keeps the stream in order.
LEMMA SendableSane ==
  ASSUME StillInv, NEW r \in Runs, cur.run = r, Sane(Stream(cur), r), NEW type \in Relayable, NEW x \in Calls(r),
         Sendable(r, type, x)
  PROVE  x = r /\ Says(type, r) \notin cur.sent /\ Sane(Stream(cur) \cup {Says(type, r)}, r)
<1>1. ~ IsAnswer(r) BY DEF StillInv, IsAnswer, NotPosted, Input
<1>2. x = r BY <1>1 DEF Calls
<1>3. \A t \in Relayable : Says(t, r) \in Stream(cur) <=> Sent(t, r) BY DEF Stream, Sent, Says
<1> DEFINE S == Stream(cur)
           T == S \cup {Says(type, r)}
           Q == {"run_started", "text_start", "text", "text_end", "call", "result"}
<1>4. Q \subseteq Relayable BY DEF Relayable
<1>5. \A t \in Relayable : Says(t, r) \in T <=> Sent(t, r) \/ t = type BY <1>3 DEF Says
<1>6. ~Sent(type, r) /\ (type # "run_started" => Sent("run_started", r)) BY <1>2 DEF Sendable
<1>7. /\ type = "text_start" => ~ InCall(r)
      /\ type = "text" => InText(r)
      /\ type = "text_end" => InText(r) /\ Sent("text", r)
      /\ type = "call" => ~ InText(r)
      /\ type = "result" => InCall(r)
  BY <1>2 DEF Sendable, Resting
<1>8. \A e \in T : e[1] \in Relayable => Says("run_started", r) \in T BY <1>4, <1>5, <1>6
<1>9. \A t \in Q : Says(t, r) \in S <=> Sent(t, r) BY <1>3, <1>4
<1>10. \A t \in Q : Says(t, r) \in T <=> Sent(t, r) \/ t = type BY <1>4, <1>5
<1> HIDE DEF S, T
<1>11. Sane(S, r) BY DEF S
<1>12. /\ ~ (/\ Says("call", r) \in T /\ Says("result", r) \notin T
             /\ Says("text_start", r) \in T /\ Says("text_end", r) \notin T)
       /\ Says("result", r) \in T => Says("call", r) \in T
       /\ Says("text", r) \in T => Says("text_start", r) \in T
       /\ Says("text_end", r) \in T => Says("text", r) \in T
  BY <1>6, <1>7, <1>9, <1>10, <1>11 DEF Sane, InCall, InText
<1>13. Sane(T, r) BY <1>8, <1>12 DEF Sane
<1> QED BY <1>2, <1>6, <1>13 DEF T, S, Sent

\* An event is queued, and so sent.
LEMMA QueuedKeeps ==
  ASSUME StoryInv, CardsInv, NEW r \in Runs, Live(r), NEW type \in Relayable, NEW x \in Calls(r), Sendable(r, type, x),
         NEW c, \/ c = Queued(<<type, x>>)
                \/ c = [Queued(<<type, x>>) EXCEPT !.phase = "closing"]
  PROVE  /\ QueueOk(c) /\ Due(c, 1) = Due(cur, 1) /\ x = r
         /\ c.run = cur.run /\ c.again = cur.again /\ c.deaf = cur.deaf /\ c.view = cur.view /\ c.cont = cur.cont
         /\ c.ok = (cur.ok \/ type = "run_finished") /\ c.bad = (cur.bad \/ type = "run_error")
         /\ c.phase \in {"streaming", "closing"}
<1> DEFINE e == <<type, x>>
<1>1. Keys(cur) /\ cur.run = r /\ cur.phase = "streaming" /\ ~cur.ok /\ ~cur.bad
  BY DEF CardsInv, RunsInv, CardTypes, Shaped, Live
<1>2. e[1] = type /\ e[2] = x OBVIOUS
<1>3. /\ c.run = cur.run /\ c.again = cur.again /\ c.deaf = cur.deaf /\ c.view = cur.view /\ c.cont = cur.cont
      /\ c.ok = (cur.ok \/ type = "run_finished") /\ c.bad = (cur.bad \/ type = "run_error")
      /\ c.phase \in {"streaming", "closing"} /\ c.sent = cur.sent \cup {e} /\ c.queue = Append(cur.queue, e)
  BY <1>1 DEF Queued, Keys
<1>4. QueueOk(cur) BY <1>1 DEF StoryInv, QueueInv, Taken
<1>5. cur.queue \in Seq(Pairs) /\ Len(cur.queue) + 1 \in 1..(Len(cur.queue) + 1) BY <1>4 DEF QueueOk
<1>6. Due(cur, Len(cur.queue) + 1) = Stream(cur) BY <1>5 DEF Due
<1>7. Sane(Stream(cur), r) BY <1>1, <1>4, <1>5, <1>6 DEF QueueOk
<1>8. x = r /\ e \notin cur.sent /\ Sane(Stream(cur) \cup {e}, r) BY <1>1, <1>7, SendableSane DEF StoryInv, Says
<1>9. e \in Pairs BY <1>8 DEF Pairs, Kinds
<1>10. Stream(c) = Stream(cur) \cup {e} BY <1>2, <1>3 DEF Stream
<1>11. ~ Over(Stream(cur), cur.run) BY <1>1, <1>4 DEF QueueOk
<1>12. (c.ok \/ c.bad) <=> Over(Stream(c), cur.run) BY <1>1, <1>10, <1>11, <1>8, <1>3 DEF Over, Says
<1> HIDE DEF e
<1>13. e[1] \in Relayable /\ e[2] = cur.run /\ c.phase # "opening" /\ c.run = cur.run BY <1>1, <1>2, <1>3, <1>8
<1>14. Sane(Stream(c), cur.run) BY <1>1, <1>8, <1>10
<1>15. QueueOk(c) /\ Due(c, 1) = Due(cur, 1)
  BY <1>3, <1>4, <1>8, <1>9, <1>11, <1>12, <1>13, <1>14, QueueMore
<1> QED BY <1>3, <1>8, <1>15

\* An event is sent on.
LEMMA RelayKeeps ==
  ASSUME StoryInv, CardsInv, NEW r \in Runs, Relay(r)
  PROVE  StoryInv'
<1>1. PICK type \in Relayable, x \in Calls(r) :
        /\ Sendable(r, type, x) /\ cur' = Queued(<<type, x>>) /\ (Terminal(<<type, x>>) => cur.cont = 0 \/ cur.again)
  BY DEF Relay
<1>2. Live(r) /\ UNCHANGED <<disk, mem, may, request, waiting>> BY DEF Relay, clientVars
<1>3. cur.run = r /\ cur.phase = "streaming" /\ ~cur.ok /\ ~cur.bad BY <1>2 DEF Live
<1>4. /\ QueueOk(cur') /\ Due(cur', 1) = Due(cur, 1)
      /\ cur'.run = cur.run /\ cur'.again = cur.again /\ cur'.deaf = cur.deaf /\ cur'.view = cur.view /\ cur'.cont = cur.cont
      /\ cur'.ok = (cur.ok \/ type = "run_finished") /\ cur'.bad = (cur.bad \/ type = "run_error")
  BY <1>1, <1>2, QueuedKeeps
<1>5. cur'.phase = cur.phase BY <1>1, QueuedFacts DEF CardsInv, RunsInv, CardTypes, Shaped
<1>6. disk.context.pending # None /\ "crash" \in may /\ cur.run = disk.context.pending => ~cur'.ok /\ ~cur'.bad
  <2> SUFFICES ASSUME disk.context.pending # None, "crash" \in may, cur.run = disk.context.pending, cur'.ok \/ cur'.bad
      PROVE FALSE
    OBVIOUS
  <2>1. type \in {"run_finished", "run_error"} BY <1>3, <1>4
  <2>2. cur.cont # 0 BY <1>3 DEF StoryInv, PendingInv, Taken
  <2>3. cur.again BY <1>1, <2>1, <2>2 DEF Terminal
  <2> QED BY <2>3 DEF StoryInv, StillInv
<1>7. PendingInv' BY <1>2, <1>3, <1>4, <1>5, <1>6 DEF StoryInv, PendingInv, Taken
<1>8. cur.phase \in Taken /\ cur'.phase \in Taken /\ cur'.cont \in Nat
  BY <1>3, <1>4, <1>5 DEF Taken, StoryInv, StillInv
<1>9. disk'.history = disk.history /\ disk'.open = disk.open /\ disk'.context = disk.context /\ mem' = mem BY <1>2
<1> QED BY <1>2, <1>4, <1>7, <1>8, <1>9, MoveRests

\* The last event of a continuation is sent on.
LEMMA RelayLastKeeps ==
  ASSUME StoryInv, CardsInv, NEW r \in Runs, RelayLast(r)
  PROVE  StoryInv'
<1>1. PICK type \in {"run_finished", "run_error"} :
        /\ Sendable(r, type, r)
        /\ \/ /\ disk' = [disk EXCEPT !.context = Cleared(@)]
              /\ cur' = Queued(<<type, r>>)
           \/ /\ ~ CanClear(disk.context, cur.view.context.gen)
              /\ cur' = [Queued(<<type, r>>) EXCEPT !.phase = "closing"]
              /\ UNCHANGED disk
  BY DEF RelayLast
<1>2. Live(r) /\ UNCHANGED <<mem, may, request, waiting>> BY DEF RelayLast, clientVars
<1>3. cur.run = r /\ cur.phase = "streaming" BY <1>2 DEF Live
<1>4. r \in Calls(r) /\ type \in Relayable BY DEF Calls, Relayable
<1>5. /\ QueueOk(cur') /\ Due(cur', 1) = Due(cur, 1)
      /\ cur'.run = cur.run /\ cur'.again = cur.again /\ cur'.deaf = cur.deaf /\ cur'.view = cur.view /\ cur'.cont = cur.cont
      /\ cur'.phase \in {"streaming", "closing"}
  BY <1>1, <1>2, <1>4, QueuedKeeps
<1>6. Shape(disk) BY DEF CardsInv, RunsInv, CardTypes, Shaped
<1>7. cur.phase \in Taken /\ cur'.phase \in Taken /\ cur'.phase # "accepting" /\ cur'.cont \in Nat
  BY <1>3, <1>5 DEF Taken, StoryInv, StillInv
<1>8. {"gen", "rev", "pending"} \subseteq DOMAIN disk.context BY DEF StoryInv, PendingInv
<1>9. CASE disk' = [disk EXCEPT !.context = Cleared(@)]
  <2>1. disk'.context = Cleared(disk.context) /\ disk'.history = disk.history /\ disk'.open = disk.open
    BY <1>6, <1>9 DEF Shape
  <2>2. /\ disk'.context.pending = None /\ disk'.context.gen = disk.context.gen
        /\ {"gen", "rev", "pending"} \subseteq DOMAIN disk'.context
    BY <1>8, <2>1, ContextKeys
  <2>3. PendingInv' BY <1>2, <1>3, <1>5, <1>7, <2>1, <2>2 DEF StoryInv, PendingInv
  <2> QED BY <1>2, <1>5, <1>7, <2>1, <2>2, <2>3, MoveRests
<1>10. CASE /\ ~ CanClear(disk.context, cur.view.context.gen) /\ UNCHANGED disk
            /\ cur' = [Queued(<<type, r>>) EXCEPT !.phase = "closing"]
  <2>1. cur'.phase = "closing" BY QueuedFacts, <1>10 DEF CardsInv, RunsInv, CardTypes, Shaped, Keys
  <2>2. ~ (disk.context.pending # None /\ "crash" \in may)
    BY <1>3, <1>10 DEF StoryInv, PendingInv, CanClear
  <2>3. PendingInv' BY <1>2, <1>10, <2>1, <2>2 DEF StoryInv, PendingInv
  <2> QED BY <1>2, <1>5, <1>7, <1>10, <2>3, MoveRests
<1> QED BY <1>1, <1>9, <1>10

\* A summary is committed.
LEMMA CompactKeeps ==
  ASSUME StoryInv, CardsInv, NEW r \in Runs, Compact(r)
  PROVE  StoryInv'
<1>1. PICK n \in Older : Compacting(r, n) BY DEF Compact
<1>2. Live(r) /\ cur.queue = <<>> /\ "compact" \in may /\ UNCHANGED <<mem, may, request, waiting>>
  BY DEF Compact, CanPropose, clientVars
<1>3. cur.run = r /\ cur.phase = "streaming" /\ ~cur.ok /\ ~cur.bad BY <1>2 DEF Live
<1>4. Keys(cur) /\ Shape(disk) BY DEF CardsInv, RunsInv, CardTypes, Shaped
<1> DEFINE x == Compacted(disk, Proposal(n), r)
<1>5. x.pending = r /\ {"gen", "rev", "pending"} \subseteq DOMAIN x BY DEF Compacted
<1>6. /\ disk' = [disk EXCEPT !.context = x]
      /\ cur' = [cur EXCEPT !.cont = @ + 1, !.phase = "reopening", !.queue = Append(@, Says("compacted", r))]
  BY <1>1 DEF Compacting
<1> HIDE DEF x
<1>7. disk'.context = x /\ disk'.history = disk.history /\ disk'.open = disk.open BY <1>4, <1>6 DEF Shape
<1>8. /\ cur'.run = cur.run /\ cur'.again = cur.again /\ cur'.deaf = cur.deaf /\ cur'.cont = cur.cont + 1
      /\ cur'.ok = cur.ok /\ cur'.bad = cur.bad /\ cur'.phase = "reopening" /\ cur'.sent = cur.sent
      /\ cur'.queue = Append(cur.queue, Says("compacted", r))
  BY <1>4, <1>6 DEF Keys
<1>9. QueueOk(cur) /\ cur.phase \in Taken /\ cur'.phase \in Taken BY <1>3, <1>8 DEF StoryInv, QueueInv, Taken
<1>10. cur.cont \in Nat /\ cur'.cont \in Nat /\ cur'.cont # 0 BY <1>8 DEF StoryInv, StillInv
<1>11. Stream(cur') = Stream(cur) BY <1>8 DEF Stream
<1>12. ~ Over(Stream(cur), r) BY <1>3, <1>9 DEF QueueOk
<1>13. Due(cur, 1) = Stream(cur) BY <1>2 DEF Due
<1>14. Sane(Stream(cur), r) BY <1>2, <1>3, <1>9, <1>13 DEF QueueOk
<1>15. QueueOk(cur') /\ Due(cur', 1) = Due(cur, 1)
  <2> DEFINE e == Says("compacted", r)
  <2>1. e \in Pairs /\ e[1] = "compacted" /\ e[2] = r BY DEF Says, Pairs, Kinds
  <2> HIDE DEF e
  <2>2. cur'.queue = Append(cur.queue, e) /\ cur'.phase # "opening" BY <1>8 DEF e
  <2>3. (cur'.ok \/ cur'.bad) <=> Over(Stream(cur'), cur.run) BY <1>3, <1>8, <1>11, <1>12
  <2> QED BY <1>2, <1>3, <1>8, <1>9, <1>11, <1>12, <1>14, <2>1, <2>2, <2>3, QueueMore
<1>16. "crash" \in may => \A t \in {"run_finished", "run_error"} : ~ In(disk.history, Says(t, r))
  <2> SUFFICES ASSUME "crash" \in may, NEW t \in {"run_finished", "run_error"}, In(disk.history, Says(t, r)) PROVE FALSE
    OBVIOUS
  <2>1. Clean BY <1>2 DEF StoryInv, CleanInv
  <2>2. ~ Off(mem, r) BY <2>1 DEF Clean, Off
  <2>3. Told(disk.history, r, Stream(cur), cur.deaf, cur.again)
    BY <1>3, <1>9, <1>13, <2>2 DEF StoryInv, FlowInv, FlowOk
  <2>4. Says(t, r) \notin Stream(cur) BY <1>12 DEF Over
  <2> QED BY <1>12, <2>3, <2>4 DEF Told
<1>17. PendingInv'
  BY <1>2, <1>3, <1>5, <1>7, <1>8, <1>10, <1>16 DEF StoryInv, PendingInv
<1> QED BY <1>2, <1>3, <1>5, <1>7, <1>8, <1>9, <1>10, <1>15, <1>17, MoveRests

-----------------------------------------------------------------------------
(* The lock is given back, and the context of an idle session.             *)

\* The clean-up, done or cut short, and the end of a recovery.
LEMMA CloseKeeps ==
  ASSUME StoryInv, CardsInv, (\E r \in Runs : Close(r)) \/ CutShort \/ Recover
  PROVE  StoryInv'
<1>1. cur' = Idle /\ UNCHANGED <<may, request, waiting>> BY DEF Close, CutShort, Recover, Release, clientVars
<1>2. cur'.phase = "idle" /\ ~cur'.again /\ cur'.cont = 0 BY <1>1, IdleIs
<1>3. Shape(disk) BY DEF CardsInv, RunsInv, CardTypes, Shaped
<1>4. {"gen", "rev", "pending"} \subseteq DOMAIN disk.context BY DEF StoryInv, PendingInv
<1>5. /\ disk'.history = disk.history /\ mem' = mem /\ disk'.open = disk.open
      /\ disk'.context \in {disk.context, Cleared(disk.context)}
  <2>1. CASE \E r \in Runs : Close(r)
    <3>1. PICK r \in Runs : Perform(Finished(r)) BY <2>1 DEF Close
    <3>2. ~ IsAnswer(r) BY DEF StoryInv, StillInv, IsAnswer, NotPosted, Input
    <3>3. Finished(r).writes = <<>> /\ Finished(r).mem = mem BY <3>2 DEF Finished, Outcome
    <3> QED BY <1>3, <3>1, <3>3, WroteNothing DEF OnlyContext
  <2>2. CASE CutShort BY <2>2 DEF CutShort
  <2>3. CASE Recover BY <1>3, <2>3 DEF Recover, Shape
  <2> QED BY <2>1, <2>2, <2>3
<1>6. /\ disk'.context.pending \in {disk.context.pending, None}
      /\ {"gen", "rev", "pending"} \subseteq DOMAIN disk'.context
  BY <1>4, <1>5, ContextKeys
<1> QED BY <1>1, <1>2, <1>5, <1>6, ReleaseRests

\* The context is compacted on request, or reset.
LEMMA ManualKeeps ==
  ASSUME StoryInv, CardsInv, ManualBegin \/ ManualEnd \/ Reset
  PROVE  StoryInv'
<1>1. Shape(disk) BY DEF CardsInv, RunsInv, CardTypes, Shaped
<1>2. {"gen", "rev", "pending"} \subseteq DOMAIN disk.context BY DEF StoryInv, PendingInv
<1>3. cur'.phase \in {"idle", "manual"} /\ ~cur'.again /\ cur'.cont = 0
  <2>1. CASE ManualBegin
    <3> DEFINE c == Holding(None, "manual")
               v == View(disk)
    <3>1. c.phase = "manual" /\ ~c.again /\ c.cont = 0 /\ Keys(c) BY DEF Holding, Keys
    <3>2. cur' = [c EXCEPT !.view = v] BY <2>1 DEF ManualBegin
    <3> HIDE DEF c, v
    <3> QED BY <3>1, <3>2 DEF Keys
  <2>2. CASE cur' = Idle BY <2>2, IdleIs
  <2> QED BY <2>1, <2>2 DEF ManualEnd, Reset, Release
<1>4. mem' = mem /\ UNCHANGED <<request, waiting>> /\ may' \in {may, may \ {"manual"}}
  BY DEF ManualBegin, ManualEnd, Reset, clientVars
<1>5. PICK x : /\ disk' = [disk EXCEPT !.context = x]
               /\ \/ x = Validated(disk.context, disk.history) \/ x = Revised(disk.context) \/ x = EmptyContext
                  \/ \E n \in Older : x = Compacted(disk, Proposal(n), None)
  BY ViewContext DEF ManualBegin, ManualEnd, Reset
<1>6. disk'.history = disk.history /\ disk'.open = disk.open /\ disk'.context = x BY <1>1, <1>5 DEF Shape
<1>7. x.pending \in {disk.context.pending, None} /\ {"gen", "rev", "pending"} \subseteq DOMAIN x
  BY <1>2, <1>5, ContextKeys DEF Compacted
<1> QED BY <1>3, <1>4, <1>6, <1>7, ReleaseRests

-----------------------------------------------------------------------------
(* The steps that append to the history.                                   *)

\* Nothing is known of a run that was not accepted, if another one's record was appended.
LEMMA UnknownStays ==
  ASSUME StoryInv, NEW x \in Runs, ~ Unknown(x), SameUsers(mem, mem'),
         mem'.stopped \subseteq mem.stopped \cup {x}, mem'.cancelled \subseteq mem.cancelled \cup {x},
         NEW rec, Wrote(rec), OfOne(rec, x),
         \A r \in Runs : Unknown(r)' => Unknown(r), disk'.context.pending \in {disk.context.pending, None}
  PROVE  UnknownInv'
<1> DEFINE h == disk.history
           g == disk'.history
<1>0. h \in Seq(Records) BY DEF StoryInv, OrderInv, HistoryInv, Plain
<1> SUFFICES ASSUME NEW r \in Runs, Unknown(r)' PROVE Unheard(g, mem', r) /\ disk'.context.pending # r
  BY DEF UnknownInv
<1>1. Unknown(r) /\ r # x OBVIOUS
<1>2. Unheard(h, mem, r) /\ disk.context.pending # r BY <1>1 DEF StoryInv, UnknownInv
<1>3. disk'.context.pending # r BY <1>2, NoneIsNoRun
<1>4. <<"U", r>> \notin mem'.messages BY <1>2 DEF Unheard, SameUsers, NoUser
<1>5. r \notin mem'.stopped \cup mem'.cancelled BY <1>1, <1>2 DEF Unheard
<1>6. \A k \in 1..Len(g) : g[k].run # r /\ \A e : Has(g[k], e) => e[2] # r
  <2>1. CASE g = h BY <1>2, <2>1 DEF Unheard
  <2>2. CASE Grown(h, g, rec) BY <1>0, <2>2, GrownFacts, <1>1, NoneIsNoRun, <1>2 DEF OfOne, Unheard
  <2> QED BY <2>1, <2>2 DEF Wrote
<1> QED BY <1>3, <1>4, <1>5, <1>6 DEF Unheard

\* Where none was stopped or cancelled, a record hides none.
LEMMA CleanStays ==
  ASSUME StoryInv, NEW rec, Wrote(rec), rec.kind # "remove", rec.run = None => cur.again, may' = may, cur'.again => cur.again,
         Clean => /\ mem'.stopped = mem.stopped /\ mem'.cancelled = mem.cancelled
                  /\ mem'.stoppedActive \in {mem.stoppedActive, None} /\ mem'.cancelledActive \in {mem.cancelledActive, None}
  PROVE  CleanInv'
<1> DEFINE h == disk.history
           g == disk'.history
<1>0. h \in Seq(Records) BY DEF StoryInv, OrderInv, HistoryInv, Plain
<1>1. /\ (\E k \in 1..Len(g) : g[k].run = None) => cur.again \/ \E k \in 1..Len(h) : h[k].run = None
      /\ Whole(h) => Whole(g)
  <2>1. CASE g = h BY <2>1
  <2>2. CASE Grown(h, g, rec) BY <1>0, <2>2, GrownFacts
  <2> QED BY <2>1, <2>2 DEF Wrote
<1> SUFFICES ASSUME \/ cur'.again \/ {"compact", "crash"} \subseteq may' \/ \E k \in 1..Len(g) : g[k].run = None
    PROVE  Clean'
  BY DEF CleanInv
<1>2. Clean BY <1>1 DEF StoryInv, CleanInv
<1> QED BY <1>1, <1>2 DEF Clean

\* The history stays in order.
LEMMA OrderStays ==
  ASSUME StoryInv, NEW rec, Wrote(rec), Fits(disk.history, rec), mem' \in Memories, mem'.cancelled = mem.cancelled
  PROVE  /\ OrderInv'
         /\ \A r : Removed(disk'.history, r) <=> Removed(disk.history, r)
         /\ \A x : NoneBefore(disk.history, x) /\ rec.kind # "input" => NoneBefore(disk'.history, x)
<1> DEFINE h == disk.history
           g == disk'.history
<1>1. HistoryInv(h) /\ h \in Seq(Records) /\ \A r \in mem.cancelled : Removed(h, r)
  BY DEF StoryInv, OrderInv, HistoryInv, Plain
<1>2. rec.kind # "remove" BY DEF Fits
<1>3. CASE g = h BY <1>1, <1>3 DEF OrderInv
<1>4. CASE Grown(h, g, rec) BY <1>1, <1>4, FitsStays, <1>2, GrownFacts, GrownBefore DEF OrderInv
<1> QED BY <1>3, <1>4 DEF Wrote

\* What has ended in the history.
LEMMA EndsStay ==
  ASSUME StoryInv, NEW rec, Wrote(rec), NEW q, NEW t, ~ In(disk.history, Says(t, q)), ~ Has(rec, Says(t, q))
  PROVE  ~ In(disk'.history, Says(t, q))
<1>0. disk.history \in Seq(Records) BY DEF StoryInv, OrderInv, HistoryInv, Plain
<1>1. CASE disk'.history = disk.history BY <1>1
<1>2. CASE Grown(disk.history, disk'.history, rec) BY <1>0, <1>2, GrownFacts
<1> QED BY <1>1, <1>2 DEF Wrote

\* It is of any run, and puts nothing.
LEMMA NothingPut ==
  ASSUME NEW x \in Runs, NEW h, NEW e, NEW again
  PROVE  Puts(h, x, e, Nothing(x), again) /\ OfOne(Nothing(x), x)
<1> DEFINE rec == Nothing(x)
<1>1. rec.kind = "events" /\ rec.run = x /\ rec.events = <<>> /\ Len(<<>>) = 0 /\ 1..0 = {} BY DEF Record, Nothing
<1>2. rec \in Records BY RunsAssumption DEF Runs, Records, Record, Nothing
<1> HIDE DEF rec
<1>3. \A f : ~ Has(rec, f) BY <1>1 DEF Has
<1>4. RecordInv(rec) BY <1>1 DEF RecordInv
<1>5. x # None BY NoneIsNoRun
<1>6. Fits(h, rec) BY <1>1, <1>3, <1>4, <1>5 DEF Fits
<1>7. Puts(h, x, e, rec, again) /\ OfOne(rec, x) BY <1>1, <1>2, <1>3, <1>5, <1>6 DEF Puts, OfOne
<1> QED BY <1>7 DEF rec

-----------------------------------------------------------------------------
(* The worker that persists.                                               *)

\* The event it takes up comes next.
LEMMA PersistNext ==
  ASSUME StoryInv, CardsInv, Persisting, NEW c, c.run = cur.run, c.queue = Tail(cur.queue), c.sent = cur.sent,
         c.ok = cur.ok, c.bad = cur.bad, c.phase # "opening"
  PROVE  LET e == Head(cur.queue)
             x == cur.run
         IN /\ x \in Runs /\ ~ Unknown(x) /\ cur.phase \in Taken /\ QueueOk(c)
            /\ Next1(e, x, Due(cur, 1), Due(c, 1))
            /\ Appends(disk, mem, e, x, Due(c, 1), cur.deaf, cur.again, AppendEvent(disk, mem, e))
            /\ Terminal(e) => cur.ok \/ cur.bad
<1> DEFINE e == Head(cur.queue)
           x == cur.run
           S == Due(cur, 1)
           T == Due(c, 1)
<1>1. cur.queue # <<>> /\ cur.phase \in Taken /\ cur.phase \notin {"locked", "accepting"} BY DEF Persisting, Taken
<1>2. x \in Runs /\ ~ Unknown(x) BY <1>1 DEF StoryInv, StillInv, Unknown
<1>3. QueueOk(cur) /\ FlowOk(disk.history, mem, cur) BY <1>1 DEF StoryInv, QueueInv, FlowInv
<1>4. QueueOk(c) /\ Next1(e, x, S, T) BY <1>1, <1>2, <1>3, QueueLess
<1>5. mem \in Memories /\ disk.history \in Seq(Records) BY DEF StoryInv, OrderInv, HistoryInv, Plain
<1>6. cur.again => Whole(disk.history) BY DEF StoryInv, CleanInv, Clean
<1>7. Terminal(e) => cur.ok \/ cur.bad
  <2> SUFFICES ASSUME Terminal(e) PROVE cur.ok \/ cur.bad OBVIOUS
  <2>1. 1 \in 1..Len(cur.queue) /\ e = cur.queue[1] BY <1>1, <1>3 DEF QueueOk
  <2>2. e[1] # "compacted" /\ e[2] = x /\ e \in Pairs BY <1>4 DEF Terminal, Next1
  <2>3. e \in Stream(cur) BY <1>3, <2>1, <2>2 DEF QueueOk
  <2>4. e = Says(e[1], x) BY <2>2, PairIs
  <2>5. Over(Stream(cur), x) BY <2>3, <2>4 DEF Terminal, Over
  <2> QED BY <1>3, <2>5 DEF QueueOk
<1> HIDE DEF e, x, S, T
<1>8. /\ Waits(mem, x) /\ Heard(mem, x, S, cur.again)
      /\ Off(mem, x) \/ Told(disk.history, x, S, cur.deaf, cur.again)
      /\ Removed(disk.history, x) => x \in mem.cancelled
  BY <1>3 DEF FlowOk, x, S
<1>9. Appends(disk, mem, e, x, T, cur.deaf, cur.again, AppendEvent(disk, mem, e))
  BY <1>2, <1>4, <1>5, <1>6, <1>8, AppendIs
<1> QED BY <1>1, <1>2, <1>4, <1>7, <1>9 DEF e, x, S, T

\* It persists an event.
LEMMA PersistKeeps ==
  ASSUME StoryInv, CardsInv, Persist
  PROVE  StoryInv'
<1> DEFINE e == Head(cur.queue)
           x == cur.run
           op == AppendEvent(disk, mem, e)
           T == Due(cur', 1)
<1>1. /\ Persisting /\ Perform(op) /\ cur' = [cur EXCEPT !.queue = Tail(@)] /\ UNCHANGED <<may, request, waiting>>
  BY DEF Persist, clientVars
<1>2. Keys(cur) /\ Shape(disk) BY DEF CardsInv, RunsInv, CardTypes, Shaped
<1>3. /\ cur'.run = cur.run /\ cur'.again = cur.again /\ cur'.deaf = cur.deaf /\ cur'.cont = cur.cont /\ cur'.view = cur.view
      /\ cur'.ok = cur.ok /\ cur'.bad = cur.bad /\ cur'.phase = cur.phase /\ cur'.sent = cur.sent
      /\ cur'.queue = Tail(cur.queue)
  BY <1>1, <1>2 DEF Keys
<1>4. cur'.phase # "opening" BY <1>1, <1>3 DEF Persisting
<1>5. /\ x \in Runs /\ ~ Unknown(x) /\ cur.phase \in Taken /\ QueueOk(cur')
      /\ Next1(e, x, Due(cur, 1), T) /\ Appends(disk, mem, e, x, T, cur.deaf, cur.again, op)
      /\ Terminal(e) => cur.ok \/ cur.bad
  BY <1>1, <1>3, <1>4, PersistNext
<1> HIDE DEF op, e, T, x
<1>6. Leaves(mem, op.mem, x, T, cur.again) BY <1>5 DEF Appends
<1>7. \E rec : /\ Wrote(rec) /\ Puts(disk.history, x, e, rec, cur.again)
               /\ Off(mem, x) \/ Told(disk'.history, x, T, cur.deaf, cur.again)
               /\ mem' = op.mem /\ disk'.context = disk.context /\ disk'.open = disk.open
  <2>1. CASE op.writes = <<>> /\ (Off(mem, x) \/ Told(disk.history, x, T, cur.deaf, cur.again))
    <3> DEFINE rec == Nothing(x)
    <3>1. Puts(disk.history, x, e, rec, cur.again) BY <1>5, NothingPut
    <3>2. OnlyContext(disk.context) /\ mem' = op.mem BY <1>1, <1>2, <2>1, WroteNothing
    <3> HIDE DEF rec
    <3> QED BY <2>1, <3>1, <3>2 DEF OnlyContext, Wrote
  <2>2. CASE PutsOne(disk.history, x, e, T, cur.deaf, cur.again, op)
    <3>1. PICK rec : /\ Puts(disk.history, x, e, rec, cur.again)
                     /\ op.writes = <<<<"history", Append(disk.history, rec)>>>>
                     /\ \A g : Grown(disk.history, g, rec) => Told(g, x, T, cur.deaf, cur.again)
      BY <2>2 DEF PutsOne
    <3>2. disk'.history = Append(disk.history, rec) /\ disk'.context = disk.context /\ disk'.open = disk.open /\ mem' = op.mem
      BY <1>1, <1>2, <3>1, WroteHistory
    <3>3. disk.history \in Seq(Records) /\ rec \in Records BY <3>1 DEF StoryInv, OrderInv, HistoryInv, Plain, Puts
    <3>4. Grown(disk.history, disk'.history, rec) BY <3>2, <3>3, AppendGrown
    <3> QED BY <3>1, <3>2, <3>4 DEF Wrote
  <2> QED BY <1>5, <2>1, <2>2 DEF Appends
<1>8. PICK rec : /\ Wrote(rec) /\ Puts(disk.history, x, e, rec, cur.again)
                 /\ Off(mem, x) \/ Told(disk'.history, x, T, cur.deaf, cur.again)
                 /\ mem' = op.mem /\ disk'.context = disk.context /\ disk'.open = disk.open
  BY <1>7
<1>9. /\ mem' \in Memories /\ Waits(mem', x) /\ SameUsers(mem, mem') /\ Heard(mem', x, T, cur.again)
      /\ mem'.stopped = mem.stopped /\ mem'.cancelled = mem.cancelled /\ (Off(mem, x) \/ SameStops(mem, mem'))
  BY <1>6, <1>8 DEF Leaves
<1>10. /\ Fits(disk.history, rec) /\ OfOne(rec, x) /\ rec.kind = "events" /\ (rec.run = None => cur.again)
       /\ \A f : Has(rec, f) => f[2] = x /\ (Terminal(f) => Terminal(e))
  BY <1>8 DEF Puts, OfOne
<1>11. /\ OrderInv'
       /\ \A r : Removed(disk'.history, r) <=> Removed(disk.history, r)
       /\ NoneBefore(disk.history, x) => NoneBefore(disk'.history, x)
  BY <1>8, <1>9, <1>10, OrderStays
<1>12. \A r \in Runs : Unknown(r)' => Unknown(r) BY <1>1, <1>3 DEF Unknown
<1>13. UnknownInv' BY <1>5, <1>8, <1>9, <1>10, <1>12, UnknownStays
<1>14. CleanInv' BY <1>9, <1>10, <1>1, <1>3, <1>8, CleanStays DEF Clean, Off, SameStops
<1>15. StillInv' BY <1>3, <1>5, <1>1, <1>8, StillStays DEF StoryInv, StillInv
<1>16. QueueInv' BY <1>5 DEF QueueInv
<1>17. FlowInv'
  <2>1. /\ Removed(disk.history, x) => x \in mem.cancelled
        /\ ~cur.again => NoneBefore(disk.history, x)
        /\ cur.again => ~cur.deaf
    BY <1>5 DEF StoryInv, FlowInv, FlowOk, x
  <2>2. Off(mem', x) <=> Off(mem, x) BY <1>9 DEF Off
  <2>3. FlowOk(disk'.history, mem', cur')
    BY <1>3, <1>8, <1>9, <1>11, <2>1, <2>2 DEF FlowOk, x, T
  <2> QED BY <2>3 DEF FlowInv
<1>18. PendingInv'
  <2> DEFINE q == disk.context.pending
  <2>1. ASSUME q # None, "crash" \in may, NEW t \in {"run_finished", "run_error"} PROVE ~ In(disk'.history, Says(t, q))
    <3>1. ~ In(disk.history, Says(t, q)) BY <2>1 DEF StoryInv, PendingInv
    <3>2. ~ Has(rec, Says(t, q))
      <4> SUFFICES ASSUME Has(rec, Says(t, q)) PROVE FALSE OBVIOUS
      <4>1. q = x /\ Terminal(e) BY <1>10, <2>1 DEF Says, Terminal
      <4>2. ~cur.ok /\ ~cur.bad BY <1>5, <2>1, <4>1 DEF StoryInv, PendingInv, x
      <4> QED BY <1>5, <4>1, <4>2
    <3> QED BY <1>8, <3>1, <3>2, EndsStay
  <2>2. q # None /\ "crash" \in may =>
          ~ In(disk'.history, Says("run_finished", q)) /\ ~ In(disk'.history, Says("run_error", q))
    BY <2>1
  <2> QED BY <1>1, <1>3, <1>8, <2>2 DEF StoryInv, PendingInv
<1> QED BY <1>11, <1>13, <1>14, <1>15, <1>16, <1>17, <1>18 DEF StoryInv

\* A run that is not a continuation.
LEMMA NotAgain ==
  ASSUME NEW a, ~a, NEW m, NEW x, NEW S, NEW h, NEW deaf
  PROVE  /\ Heard(m, x, S, a) <=> Heard(m, x, S, FALSE)
         /\ Told(h, x, S, deaf, a) <=> Told(h, x, S, deaf, FALSE)
BY DEF Heard, Told

\* A write fails: the event is lost, and a recovery is given up.
LEMMA PersistFailsKeeps ==
  ASSUME StoryInv, CardsInv, PersistFails
  PROVE  StoryInv'
<1> DEFINE e == Head(cur.queue)
           x == cur.run
           op == AppendEvent(disk, mem, e)
           c == [cur EXCEPT !.queue = Tail(@), !.deaf = TRUE]
           T == Due(c, 1)
           rec == Nothing(x)
<1>1. /\ Persisting /\ ~cur.deaf /\ Perform(AppendFails(disk, mem, e)) /\ UNCHANGED <<may, request, waiting>>
      /\ cur' = IF cur.again THEN Idle ELSE c
  BY DEF PersistFails, clientVars
<1>2. Keys(cur) /\ Shape(disk) BY DEF CardsInv, RunsInv, CardTypes, Shaped
<1>3. /\ c.run = cur.run /\ c.again = cur.again /\ c.deaf /\ c.cont = cur.cont /\ c.view = cur.view
      /\ c.ok = cur.ok /\ c.bad = cur.bad /\ c.phase = cur.phase /\ c.sent = cur.sent
      /\ c.queue = Tail(cur.queue)
  BY <1>2 DEF Keys
<1>4. c.phase # "opening" BY <1>1, <1>3 DEF Persisting
<1>5. /\ x \in Runs /\ ~ Unknown(x) /\ cur.phase \in Taken /\ QueueOk(c)
      /\ Next1(e, x, Due(cur, 1), T) /\ Appends(disk, mem, e, x, T, cur.deaf, cur.again, op)
  <2> HIDE DEF c
  <2> QED BY <1>1, <1>3, <1>4, PersistNext
<1>6. OnlyContext(disk.context) /\ mem' = op.mem BY <1>1, <1>2, WroteNothing DEF AppendFails, Outcome
<1>7. rec.kind = "events" /\ rec.run = x /\ OfOne(rec, x) /\ Fits(disk.history, rec)
  BY <1>5, NothingPut DEF Nothing, Record, Puts
<1>8. Wrote(rec) BY <1>6 DEF Wrote, OnlyContext
<1> HIDE DEF op, e, T, x, c, rec
<1>9. /\ mem' \in Memories /\ Waits(mem', x) /\ SameUsers(mem, mem') /\ Heard(mem', x, T, cur.again)
      /\ mem'.stopped = mem.stopped /\ mem'.cancelled = mem.cancelled /\ (Off(mem, x) \/ SameStops(mem, mem'))
  BY <1>5, <1>6 DEF Leaves, Appends
<1>10. /\ cur'.again => cur.again
       /\ \/ cur'.phase = "idle" /\ ~cur'.again /\ cur'.cont = 0 /\ cur'.run = None
          \/ ~cur.again /\ cur' = c
  BY <1>1, <1>3, IdleIs
<1>11. cur'.phase = "idle" => cur'.phase \notin Taken BY DEF Taken
<1>12. OrderInv' BY <1>7, <1>8, <1>9, OrderStays
<1>13. UnknownInv'
  <2>1. \A r \in Runs : Unknown(r)' => Unknown(r) BY <1>1, <1>3, <1>10 DEF Unknown
  <2> QED BY <1>5, <1>6, <1>7, <1>8, <1>9, <2>1, UnknownStays DEF OnlyContext
<1>14. CleanInv'
  <2>1. Clean => ~ Off(mem, x) BY DEF Clean, Off
  <2>2. Clean => SameStops(mem, mem') BY <1>9, <2>1
  <2>3. rec.run # None BY <1>5, <1>7, NoneIsNoRun
  <2>4. rec.kind # "remove" BY <1>7
  <2> QED BY <1>1, <1>8, <1>9, <1>10, <2>2, <2>3, <2>4, CleanStays DEF SameStops
<1>15. StillInv' BY <1>5, <1>1, <1>3, <1>6, <1>10, StillStays DEF StoryInv, StillInv, OnlyContext
<1>16. QueueInv' BY <1>5, <1>10, <1>11 DEF QueueInv
<1>17. FlowInv'
  <2> SUFFICES ASSUME ~cur.again, cur' = c PROVE FlowOk(disk'.history, mem', cur')
    BY <1>10, <1>11 DEF FlowInv
  <2>1. FlowOk(disk.history, mem, cur) BY <1>5 DEF StoryInv, FlowInv
  <2>2. Off(mem', x) <=> Off(mem, x) BY <1>9 DEF Off
  <2>3. Off(mem, x) \/ Told(disk.history, x, Due(cur, 1), cur.deaf, FALSE) BY <2>1, NotAgain DEF FlowOk, x
  <2>4. Off(mem, x) \/ Told(disk.history, x, T, TRUE, FALSE) BY <1>5, <2>3, TellLost
  <2>5. ~c.again /\ c.deaf = TRUE /\ c.run = x BY <1>2, <1>3 DEF c, Keys, x
  <2>6. Off(mem, x) \/ Told(disk.history, x, T, c.deaf, c.again) BY <2>4, <2>5, NotAgain
  <2>7. Heard(mem', x, T, c.again) BY <1>3, <1>9
  <2>8. NoneBefore(disk.history, x) /\ (Removed(disk.history, x) => x \in mem.cancelled) BY <2>1 DEF FlowOk, x
  <2> QED BY <1>6, <1>9, <2>2, <2>5, <2>6, <2>7, <2>8 DEF FlowOk, OnlyContext, T
<1>18. PendingInv' BY <1>1, <1>3, <1>6, <1>10, <1>11 DEF StoryInv, PendingInv, OnlyContext
<1> QED BY <1>12, <1>13, <1>14, <1>15, <1>16, <1>17, <1>18 DEF StoryInv

-----------------------------------------------------------------------------
(* The stop button and the cancel button.                                  *)

\* Where a run may be stopped or cancelled there is no continuation, and none may come.
LEMMA NotClean ==
  ASSUME StoryInv, may \cap {"stop", "cancel", "undo"} # {}
  PROVE  /\ ~cur.again /\ ~ ({"compact", "crash"} \subseteq may)
         /\ \A k \in 1..Len(disk.history) : disk.history[k].run # None
         /\ "crash" \in may => disk.context.pending = None
BY DEF Clean, StoryInv, CleanInv, PendingInv

\* A run is stopped.
LEMMA StopKeeps ==
  ASSUME StoryInv, CardsInv, NEW r \in Runs, Stop(r)
  PROVE  StoryInv'
<1> DEFINE S == Due(cur, 1)
           op == StopRun(disk, mem, r)
<1>1. /\ "stop" \in may /\ cur.run = r /\ cur.phase \in {"opening", "streaming", "closing"} /\ r \notin mem.stopped
      /\ Perform(op) /\ UNCHANGED <<may, request, waiting, cur>>
  BY DEF Stop, Stoppable, clientVars, StoryInv, StillInv, Orderly
<1>2. Keys(cur) /\ Shape(disk) BY DEF CardsInv, RunsInv, CardTypes, Shaped
<1>3. cur.phase \in Taken /\ cur.phase \notin {"locked", "accepting"} BY <1>1 DEF Taken
<1>4. /\ ~cur.again /\ ~ ({"compact", "crash"} \subseteq may)
      /\ "crash" \in may => disk.context.pending = None
  BY <1>1, NotClean
<1>5. QueueOk(cur) /\ FlowOk(disk.history, mem, cur) BY <1>3 DEF StoryInv, QueueInv, FlowInv
<1>6. Sane(S, r) BY <1>5, <1>1 DEF QueueOk
<1>7. mem \in Memories /\ disk.history \in Seq(Records) BY DEF StoryInv, OrderInv, HistoryInv, Plain
<1>8. Off(mem, r) <=> Removed(disk.history, r) BY <1>1, <1>5 DEF Off, FlowOk, StoryInv, OrderInv
<1>9. Waits(mem, r) /\ Heard(mem, r, S, FALSE) /\ (Off(mem, r) \/ Told(disk.history, r, S, cur.deaf, FALSE))
  BY <1>1, <1>4, <1>5, NotAgain DEF FlowOk
<1> HIDE DEF S, op
<1>10. op = Outcome(mem, <<>>) \/ Stops(disk, mem, r, S, op) BY <1>9, <1>1, <1>6, <1>7, <1>8, StopIs DEF op
<1>11. CASE op = Outcome(mem, <<>>)
  <2>1. op.writes = <<>> /\ op.mem = mem BY <1>11 DEF Outcome
  <2>2. OnlyContext(disk.context) /\ mem' = mem BY <1>1, <1>2, <2>1, WroteNothing
  <2>3. Rests BY <1>1, <2>2 DEF Rests, OnlyContext, Unknown
  <2>4. StillInv' /\ QueueInv' /\ PendingInv'
    BY <1>1, <2>2 DEF StoryInv, StillInv, QueueInv, PendingInv, OnlyContext
  <2> QED BY <2>3, <2>4, RestsStory
<1>12. CASE Stops(disk, mem, r, S, op)
  <2>1. PICK rec : /\ Puts(disk.history, r, Says("run_finished", r), rec, FALSE)
                   /\ op.writes = <<<<"history", Append(disk.history, rec)>>>>
    BY <1>12 DEF Stops
  <2>2. disk'.history = Append(disk.history, rec) /\ disk'.context = disk.context /\ disk'.open = disk.open /\ mem' = op.mem
    BY <1>1, <1>2, <2>1, WroteHistory
  <2>3. Wrote(rec) BY <1>7, <2>1, <2>2, AppendGrown DEF Wrote, Puts
  <2>4. /\ mem' \in Memories /\ Waits(mem', r) /\ SameUsers(mem, mem') /\ Heard(mem', r, S, FALSE)
        /\ mem'.cancelled = mem.cancelled /\ mem'.stopped = mem.stopped \cup {r}
    BY <1>12, <2>2 DEF Stops
  <2>5. /\ Fits(disk.history, rec) /\ OfOne(rec, r) /\ rec.kind = "events" /\ rec.run # None
    BY <2>1, NoneIsNoRun DEF Puts, OfOne
  <2>6. /\ OrderInv'
        /\ \A q : Removed(disk'.history, q) <=> Removed(disk.history, q)
        /\ NoneBefore(disk.history, r) => NoneBefore(disk'.history, r)
    BY <2>3, <2>4, <2>5, OrderStays
  <2>7. UnknownInv'
    <3>1. ~ Unknown(r) BY <1>1, <1>3 DEF Unknown, StoryInv, StillInv
    <3>2. \A q \in Runs : Unknown(q)' => Unknown(q) BY <1>1 DEF Unknown
    <3> QED BY <2>2, <2>3, <2>4, <2>5, <3>1, <3>2, UnknownStays
  <2>8. CleanInv' BY <1>1, <2>5, <2>3, CleanStays DEF Clean
  <2>9. StillInv' /\ QueueInv' BY <1>1, <2>2 DEF StoryInv, StillInv, QueueInv
  <2>10. FlowInv'
    <3>1. Off(mem', r) BY <2>4 DEF Off
    <3>2. Heard(mem', r, S, cur.again) BY <1>4, <2>4, NotAgain
    <3>3. FlowOk(disk'.history, mem', cur') BY <1>1, <1>4, <1>5, <2>4, <2>6, <3>1, <3>2 DEF FlowOk, S
    <3> QED BY <3>3 DEF FlowInv
  <2>11. PendingInv' BY <1>1, <1>4, <2>2 DEF StoryInv, PendingInv
  <2> QED BY <2>6, <2>7, <2>8, <2>9, <2>10, <2>11 DEF StoryInv
<1> QED BY <1>10, <1>11, <1>12

\* A run is cancelled.
LEMMA CancelKeeps ==
  ASSUME StoryInv, CardsInv, NEW r \in Runs, Cancel(r)
  PROVE  StoryInv'
<1> DEFINE h == disk.history
           g == disk'.history
           S == Due(cur, 1)
<1>1. /\ may \cap {"stop", "cancel", "undo"} # {} /\ request[r] # NotPosted
      /\ \/ cur.run = r /\ cur.phase \in {"opening", "streaming", "closing"}
         \/ cur = Idle /\ waiting = {}
      /\ Perform(CancelRun(disk, mem, r)) /\ UNCHANGED <<may, request, waiting, cur>>
  BY DEF Cancel, Cancellable, clientVars, StoryInv, StillInv, Orderly
<1>2. Keys(cur) /\ Shape(disk) BY DEF CardsInv, RunsInv, CardTypes, Shaped
<1>3. /\ ~cur.again /\ ~ ({"compact", "crash"} \subseteq may)
      /\ "crash" \in may => disk.context.pending = None
      /\ \A k \in 1..Len(h) : h[k].run # None
  BY <1>1, NotClean
<1>4. /\ g = Append(h, Tombstone(r)) /\ disk'.context = Validated(disk.context, g) /\ disk'.open = disk.open
      /\ mem' = CancelRun(disk, mem, r).mem
  BY <1>1, <1>2, WroteCancel
<1>5. mem \in Memories /\ h \in Seq(Records) /\ HistoryInv(h) BY DEF StoryInv, OrderInv, HistoryInv, Plain
<1>6. Tombstone(r) \in Records /\ Tombstone(r).kind = "remove" /\ Tombstone(r).run = r /\ \A e : ~ Has(Tombstone(r), e)
  BY TombstoneIs
<1>7. Grown(h, g, Tombstone(r)) BY <1>4, <1>5, <1>6, AppendGrown
<1>8. HistoryInv(g) BY <1>3, <1>5, <1>7, TombstoneStays
<1>9. \A q : Removed(g, q) <=> Removed(h, q) \/ q = r BY <1>5, <1>6, <1>7, GrownFacts
<1>10. /\ mem' \in Memories /\ SameUsers(mem, mem') /\ mem'.stopped = mem.stopped
       /\ mem'.cancelled = mem.cancelled \cup {r}
  BY <1>4, <1>5, CancelIs
<1>11. OrderInv' BY <1>8, <1>9, <1>10 DEF StoryInv, OrderInv
<1>12. /\ disk'.context.pending \in {disk.context.pending, None}
       /\ {"gen", "rev", "pending"} \subseteq DOMAIN disk'.context
  BY ZenonT(30), <1>4, ContextKeys DEF StoryInv, PendingInv
<1>13. UnknownInv'
  <2>1. ~ Unknown(r) BY <1>1, IdleIs DEF Unknown, StoryInv, StillInv
  <2>2. \A q \in Runs : Unknown(q)' => Unknown(q) BY <1>1 DEF Unknown
  <2>3. Wrote(Tombstone(r)) /\ OfOne(Tombstone(r), r) BY <1>6, <1>7 DEF Wrote, OfOne
  <2> QED BY <1>10, <1>12, <2>1, <2>2, <2>3, UnknownStays
<1>14. CleanInv'
  <2>1. \A k \in 1..Len(g) : g[k].run # None BY <1>5, <1>7, GrownFacts, <1>3, <1>6, NoneIsNoRun
  <2> QED BY <1>1, <1>3, <2>1 DEF CleanInv
<1>15. StillInv' /\ QueueInv' BY <1>1, <1>4 DEF StoryInv, StillInv, QueueInv
<1>16. FlowInv'
  <2> SUFFICES ASSUME cur.phase \in Taken PROVE FlowOk(g, mem', cur) BY <1>1 DEF FlowInv
  <2>1. cur.run = r BY <1>1, IdleIs DEF Taken
  <2>2. FlowOk(h, mem, cur) BY DEF StoryInv, FlowInv
  <2>3. Waits(mem', r) /\ Heard(mem', r, S, FALSE)
    <3>1. Heard(mem, r, S, FALSE) BY <1>3, <2>1, <2>2, NotAgain DEF FlowOk
    <3> HIDE DEF S
    <3> QED BY <1>4, <1>5, <3>1, CancelHeard
  <2>4. NoneBefore(g, r) BY <1>6, <1>3, <2>1, <2>2, <1>5, <1>7, GrownBefore DEF FlowOk
  <2>5. Off(mem', r) /\ r \in mem'.cancelled BY <1>10 DEF Off
  <2>6. Heard(mem', r, S, cur.again) BY <1>3, <2>3, NotAgain
  <2> QED BY <1>3, <2>1, <2>3, <2>4, <2>5, <2>6 DEF FlowOk
<1>17. PendingInv' BY <1>3, <1>12, <1>1 DEF StoryInv, PendingInv
<1> QED BY <1>11, <1>13, <1>14, <1>15, <1>16, <1>17 DEF StoryInv

-----------------------------------------------------------------------------
(* A message is accepted.                                                  *)

\* The queue moves in other phases.
LEMMA StandsStep ==
  ASSUME CardsInv, StandsInv, [Next]_vars
  PROVE  StandsInv'
<1>1. Keys(cur) BY DEF CardsInv, RunsInv, CardTypes, Shaped
<1> DEFINE Out == cur'.phase \notin {"locked", "accepting"}
<1>2. CASE UNCHANGED cur BY <1>2 DEF StandsInv
<1>3. CASE Out BY <1>3 DEF StandsInv
<1>4. ASSUME NEW r \in Runs, Post(r) \/ Stop(r) \/ Cancel(r) PROVE UNCHANGED cur
  BY <1>4 DEF Post, PostNew, PostAgain, Stop, Cancel
<1>5. ASSUME NEW r \in Runs, Acquire(r) PROVE StandsInv' BY <1>5 DEF Acquire, StandsInv, Holding
<1>6. ASSUME NEW r \in Runs, Refuse(r) \/ StoreFails(r) PROVE Out
  BY <1>6, IdleIs DEF Refuse, StoreFails, Release
<1>7. ASSUME NEW r \in Runs, Dismiss(r) PROVE StandsInv' BY <1>7, <1>1 DEF Dismiss, StandsInv, Keys
<1>8. ASSUME NEW r \in Runs, Accept(r) \/ ClaimCards(r) PROVE Out BY <1>8, <1>1 DEF Accept, ClaimCards, Keys
<1>9. ASSUME NEW r \in Runs, Open(r) \/ Reopen(r) PROVE Out BY <1>9, <1>1 DEF Open, Reopen, Keys
<1>10. ASSUME NEW r \in Runs, Relay(r) \/ RelayLast(r) PROVE Out
  <2>1. cur.phase = "streaming" BY <1>10 DEF Relay, RelayLast, Live
  <2>2. PICK e : cur' = Queued(e) \/ cur' = [Queued(e) EXCEPT !.phase = "closing"] BY <1>10 DEF Relay, RelayLast
  <2>3. Queued(e).phase = cur.phase /\ Keys(Queued(e)) BY <1>1, QueuedFacts DEF Keys
  <2>4. [Queued(e) EXCEPT !.phase = "closing"].phase = "closing" BY <2>3 DEF Keys
  <2> QED BY <2>1, <2>2, <2>3, <2>4
<1>11. ASSUME NEW r \in Runs, ShowCard(r) \/ LoseCard(r) PROVE Out
  BY <1>11, <1>1 DEF ShowCard, LoseCard, CanShow, Live, CardQueued, Keys
<1>12. ASSUME NEW r \in Runs, Compact(r) PROVE Out BY <1>12, <1>1 DEF Compact, Compacting, Keys
<1>13. ASSUME NEW r \in Runs, CompactRefused(r) \/ StreamEnds(r) PROVE Out
  BY <1>13, <1>1, IdleIs DEF CompactRefused, StreamEnds, Keys
<1>14. ASSUME NEW r \in Runs, Failure(r) \/ Patch(r) PROVE Out
  BY <1>14, <1>1 DEF Failure, Patch, CanPropose, Live, Marked, Keys
<1>15. ASSUME NEW r \in Runs, Leave(r) PROVE Out
  <2>1. Holding(None, "lost").phase = "lost" BY DEF Holding
  <2> QED BY <1>15, <1>1, <2>1, IdleIs DEF Leave, Release, Keys
<1>16. ASSUME Persist \/ PersistFails PROVE Out BY <1>16, <1>1, IdleIs DEF Persist, PersistFails, Persisting, Keys
<1>17. ASSUME (\E r \in Runs : Close(r)) \/ CutShort \/ ManualEnd \/ Recover PROVE Out
  BY <1>17, IdleIs DEF Close, CutShort, ManualEnd, Recover, Release
<1>18. ASSUME ManualBegin PROVE Out BY <1>18 DEF ManualBegin, Holding
<1>19. ASSUME Reset PROVE UNCHANGED cur BY <1>19 DEF Reset
<1>20. ASSUME Crash PROVE Out
  <2> DEFINE q == Validated(disk'.context, disk'.history).pending
             h == Holding(q, "streaming")
             v == View(disk')
             s == Recorded(q)
  <2>1. cur' = IF q = None THEN Idle ELSE [h EXCEPT !.again = TRUE, !.view = v, !.sent = s]
    BY <1>20 DEF Crash, Restart
  <2>2. h.phase = "streaming" /\ Keys(h) BY IdleFlows
  <2> HIDE DEF q, h, v, s
  <2>3. [h EXCEPT !.again = TRUE, !.view = v, !.sent = s].phase = "streaming" BY <2>2 DEF Keys
  <2> QED BY <2>1, <2>3, IdleIs
<1>21. CASE UNCHANGED vars BY <1>2, <1>21 DEF vars
<1> HIDE DEF Out
<1> QED BY <1>2, <1>3, <1>4, <1>5, <1>6, <1>7, <1>8, <1>9, <1>10, <1>11, <1>12, <1>13, <1>14, <1>15, <1>16, <1>17,
           <1>18, <1>19, <1>20, <1>21 DEF Next

\* A message is accepted.
LEMMA AcceptKeeps ==
  ASSUME StoryInv, CardsInv, StandsInv, NEW r \in Runs, Accept(r)
  PROVE  StoryInv'
<1> DEFINE h == disk.history
           g == disk'.history
           op == SaveRunStart(disk, mem, r)
           rec == InputOf(r)
<1>1. /\ cur.run = r /\ cur.phase = "accepting" /\ Perform(op) /\ cur' = [cur EXCEPT !.phase = "opening"]
      /\ UNCHANGED <<may, request, waiting>>
  BY DEF Accept, clientVars
<1>2. Keys(cur) /\ Shape(disk) /\ (cur.again => cur.phase \in Recovering)
  BY DEF CardsInv, RunsInv, CardTypes, Shaped
<1>3. /\ cur'.phase = "opening" /\ cur'.run = r /\ cur'.again = cur.again /\ cur'.cont = cur.cont
      /\ cur'.queue = <<>> /\ cur'.sent = {} /\ ~cur'.ok /\ ~cur'.bad /\ ~cur'.again
  BY <1>1, <1>2 DEF Keys, StandsInv, Recovering
<1>4. mem \in Memories /\ h \in Seq(Records) /\ HistoryInv(h) BY DEF StoryInv, OrderInv, HistoryInv, Plain
<1>5. Unheard(h, mem, r) BY <1>1 DEF StoryInv, UnknownInv, Unknown
<1>6. /\ op.writes = <<<<"history", Append(h, rec)>>>>
      /\ op.mem \in Memories /\ Waits(op.mem, r) /\ Heard(op.mem, r, {}, FALSE)
      /\ \A q : <<"U", q>> \in op.mem.messages => <<"U", q>> \in mem.messages \/ q = r
      /\ op.mem.stopped = mem.stopped /\ op.mem.cancelled = mem.cancelled
      /\ op.mem.stoppedActive = None /\ op.mem.cancelledActive = None
  <2>1. Accepts(disk, mem, r, op) BY <1>4, <1>5, StartIs
  <2> HIDE DEF op
  <2> QED BY <2>1 DEF Accepts
<1> HIDE DEF op
<1>7. g = Append(h, rec) /\ disk'.context = disk.context /\ disk'.open = disk.open /\ mem' = op.mem
  BY <1>1, <1>2, <1>6, WroteHistory
<1>8. rec \in Records /\ rec.kind = "input" /\ rec.run = r /\ \A e : Has(rec, e) <=> e = Says("input", r)
  BY InputIs
<1>9. /\ Fits(h, rec)
      /\ \A w, deaf : Grown(h, w, rec) => Told(w, r, {}, deaf, FALSE) /\ NoneBefore(w, r)
  BY <1>4, <1>5, InputFits
<1> HIDE DEF rec
<1>10. Grown(h, g, rec) BY <1>4, <1>7, <1>8, AppendGrown
<1>11. Wrote(rec) BY <1>10 DEF Wrote
<1>12. OrderInv' /\ \A q : Removed(g, q) <=> Removed(h, q) BY <1>6, <1>7, <1>9, <1>11, OrderStays
<1>13. UnknownInv'
  <2> SUFFICES ASSUME NEW q \in Runs, Unknown(q)' PROVE Unheard(g, mem', q) /\ disk'.context.pending # q
    BY DEF UnknownInv
  <2>1. ~ Unknown(r)' BY <1>1, <1>3 DEF Unknown, StoryInv, StillInv
  <2>2. q # r /\ Unknown(q) BY <1>1, <1>3, <2>1 DEF Unknown
  <2>3. Unheard(h, mem, q) /\ disk.context.pending # q BY <2>2 DEF StoryInv, UnknownInv
  <2>4. <<"U", q>> \notin mem'.messages /\ q \notin mem'.stopped \cup mem'.cancelled
    BY <1>6, <1>7, <2>2, <2>3 DEF Unheard
  <2>5. \A k \in 1..Len(g) : g[k] = rec \/ (k \in 1..Len(h) /\ g[k] = h[k]) BY <1>4, <1>10, GrownFacts
  <2>6. rec.run # q /\ \A e : Has(rec, e) => e[2] # q BY <1>8, <2>2 DEF Says
  <2> QED BY <1>7, <2>3, <2>4, <2>5, <2>6 DEF Unheard
<1>14. CleanInv' BY <1>1, <1>3, <1>8, NoneIsNoRun, <1>6, <1>7, <1>11, CleanStays
<1>15. StillInv' BY <1>3, <1>1, <1>7, StillStays DEF Taken, StoryInv, StillInv
<1>16. QueueOk(cur') /\ Due(cur', 1) = {} BY <1>3, QueueNew
<1>17. FlowInv'
  <2>1. Heard(mem', r, {}, cur'.again) /\ Told(g, r, {}, cur'.deaf, cur'.again)
    BY <1>3, <1>6, <1>7, <1>9, <1>10, NotAgain
  <2>2. ~ Removed(g, r) BY <1>5, <1>12 DEF Removed, Unheard
  <2>3. FlowOk(g, mem', cur') BY <1>3, <1>6, <1>7, <1>9, <1>10, <1>16, <2>1, <2>2 DEF FlowOk
  <2> QED BY <2>3 DEF FlowInv
<1>18. PendingInv' BY <1>1, <1>7, <1>3 DEF StoryInv, PendingInv
<1> QED BY <1>12, <1>13, <1>14, <1>15, <1>16, <1>17, <1>18 DEF StoryInv, QueueInv

-----------------------------------------------------------------------------
(* The process is started again.                                           *)

\* What the files come to: a run may have been cancelled before the context was checked.
LEMMA CrashWrites ==
  ASSUME StoryInv, CardsInv, Crash
  PROVE  /\ disk'.context = disk.context /\ disk'.open = disk.open /\ mem' = Loaded(disk')
         /\ \/ disk'.history = disk.history
            \/ /\ may \cap {"stop", "cancel", "undo"} # {}
               /\ \E r \in Runs : request[r] # NotPosted /\ disk'.history = Append(disk.history, Tombstone(r))
<1>1. Shape(disk) BY DEF CardsInv, RunsInv, CardTypes, Shaped
<1>2. CASE disk' = Restarted(disk) /\ mem' = Loaded(disk') BY <1>1, <1>2, RestartedKeeps
<1>3. ASSUME NEW op \in Underway, BreakOff(op)
      PROVE  /\ disk'.context = disk.context /\ disk'.open = disk.open /\ mem' = Loaded(disk')
             /\ \/ disk'.history = disk.history
                \/ /\ may \cap {"stop", "cancel", "undo"} # {}
                   /\ \E r \in Runs : request[r] # NotPosted /\ disk'.history = Append(disk.history, Tombstone(r))
  <2>1. StillInv BY DEF StoryInv
  <2>2. PICK r \in Runs : Cancellable(r) /\ op = CancelRun(disk, mem, r) BY <1>1, <1>3, <2>1, OnlyCancels
  <2>3. BreakOff(CancelRun(disk, mem, r)) BY <1>3, <2>2
  <2>4. /\ disk'.history \in {disk.history, Append(disk.history, Tombstone(r))}
        /\ disk'.context = disk.context /\ disk'.open = disk.open /\ mem' = Loaded(disk')
    BY <1>1, <2>3, CancelBroken
  <2>5. request[r] # NotPosted /\ may \cap {"stop", "cancel", "undo"} # {}
    BY <2>1, <2>2 DEF Cancellable, StillInv, Orderly
  <2> QED BY <2>4, <2>5
<1> QED BY <1>2, <1>3 DEF Crash

\* The process is started again, with the continuation that is pending.
LEMMA CrashKeeps ==
  ASSUME StoryInv, CardsInv, Crash
  PROVE  StoryInv'
<1> DEFINE h == disk.history
           g == disk'.history
           q == Validated(disk'.context, disk'.history).pending
           S == Recorded(q)
           v == View(disk')
           c == [Holding(q, "streaming") EXCEPT !.again = TRUE, !.view = v, !.sent = S]
<1>1. /\ "crash" \in may /\ may' = may \ {"crash"} /\ waiting' = {} /\ request' = request
      /\ cur' = IF q = None THEN Idle ELSE c
  BY DEF Crash, Restart
<1>2. /\ disk'.context = disk.context /\ disk'.open = disk.open /\ mem' = Loaded(disk')
      /\ \/ g = h
         \/ /\ may \cap {"stop", "cancel", "undo"} # {}
            /\ \E r \in Runs : request[r] # NotPosted /\ g = Append(h, Tombstone(r))
  BY CrashWrites
<1>3. HistoryInv(h) /\ h \in Seq(Records) BY DEF StoryInv, OrderInv, HistoryInv, Plain
<1>4. /\ HistoryInv(g)
      /\ \A k \in 1..Len(g) : \/ k \in 1..Len(h) /\ g[k] = h[k]
                              \/ g[k].run \in Runs /\ request[g[k].run] # NotPosted /\ \A e : ~ Has(g[k], e)
      /\ g = h \/ (may \cap {"stop", "cancel", "undo"} # {} /\ \A k \in 1..Len(g) : g[k].run # None)
  <2>1. CASE g = h BY <1>3, <2>1
  <2>2. ASSUME NEW r \in Runs, may \cap {"stop", "cancel", "undo"} # {}, request[r] # NotPosted, g = Append(h, Tombstone(r))
        PROVE  /\ HistoryInv(g)
               /\ \A k \in 1..Len(g) : \/ k \in 1..Len(h) /\ g[k] = h[k]
                                       \/ g[k].run \in Runs /\ request[g[k].run] # NotPosted /\ \A e : ~ Has(g[k], e)
               /\ \A k \in 1..Len(g) : g[k].run # None
    <3>1. Tombstone(r) \in Records /\ Tombstone(r).run = r /\ \A e : ~ Has(Tombstone(r), e) BY TombstoneIs
    <3>2. Grown(h, g, Tombstone(r)) BY <1>3, <2>2, <3>1, AppendGrown
    <3>3. \A k \in 1..Len(h) : h[k].run # None BY <2>2, NotClean
    <3>4. \A k \in 1..Len(g) : g[k] = Tombstone(r) \/ (k \in 1..Len(h) /\ g[k] = h[k]) BY <1>3, <3>2, GrownFacts
    <3>5. HistoryInv(g) BY <1>3, <3>2, <3>3, TombstoneStays
    <3> QED BY <2>2, <3>1, <3>3, <3>4, <3>5, NoneIsNoRun
  <2> QED BY <1>2, <2>1, <2>2
<1>5. /\ mem' \in Memories /\ mem'.count = Len(mem'.events) /\ mem'.text = {} /\ mem'.active = None
      /\ mem'.stopped = {} /\ mem'.cancelled = {} /\ mem'.stoppedActive = None /\ mem'.cancelledActive = None
      /\ \A r : <<"U", r>> \in mem'.messages => In(g, Says("input", r)) BY <1>4, <1>2, LoadedIs DEF HistoryInv
<1>6. q \in {disk.context.pending, None} /\ {"gen", "rev", "pending"} \subseteq DOMAIN disk.context
  BY <1>2, ContextKeys DEF StoryInv, PendingInv
<1>7. q # None => /\ q \in Runs /\ request[q] # NotPosted /\ Clean /\ g = h
                  /\ ~ In(h, Says("run_finished", q)) /\ ~ In(h, Says("run_error", q))
  <2> SUFFICES ASSUME q # None
               PROVE  /\ q \in Runs /\ request[q] # NotPosted /\ Clean /\ g = h
                      /\ ~ In(h, Says("run_finished", q)) /\ ~ In(h, Says("run_error", q))
    OBVIOUS
  <2> HIDE DEF q
  <2>1. q = disk.context.pending /\ q \in Runs /\ "compact" \in may BY <1>6 DEF StoryInv, PendingInv
  <2>2. Clean BY <1>1, <2>1 DEF StoryInv, CleanInv
  <2>3. request[q] # NotPosted BY <2>1 DEF StoryInv, UnknownInv, Unknown
  <2>4. g = h BY <1>4, <2>2 DEF Clean
  <2> QED BY <1>1, <2>1, <2>2, <2>3, <2>4 DEF StoryInv, PendingInv
<1>8. S = RecordedIn(g, q) BY DEF Recorded, RecordedIn
<1> HIDE DEF S, v, q
<1>9. /\ c.run = q /\ c.phase = "streaming" /\ c.queue = <<>> /\ ~c.deaf /\ c.ok = FALSE /\ c.bad = FALSE /\ c.cont = 0
      /\ c.again = TRUE /\ c.sent = S /\ c.deaf = FALSE
  BY DEF Holding
<1> HIDE DEF c
<1>10. OrderInv' BY <1>4, <1>5 DEF OrderInv
<1>11. StillInv' BY <1>1, <1>2, <1>7, <1>9, IdleIs DEF StoryInv, StillInv, Orderly, Taken
<1>12. UnknownInv'
  <2> SUFFICES ASSUME NEW r \in Runs, Unknown(r)' PROVE Unheard(g, mem', r) /\ disk'.context.pending # r
    BY DEF UnknownInv
  <2>1. request[r] = NotPosted BY <1>1, <1>9, IdleIs DEF Unknown
  <2>2. Unheard(h, mem, r) /\ disk.context.pending # r BY <2>1 DEF StoryInv, UnknownInv, Unknown
  <2>3. \A k \in 1..Len(g) : g[k].run # r /\ \A e : Has(g[k], e) => e[2] # r BY <1>4, <2>1, <2>2 DEF Unheard
  <2>4. <<"U", r>> \notin mem'.messages
    <3> SUFFICES ASSUME <<"U", r>> \in mem'.messages PROVE FALSE OBVIOUS
    <3> DEFINE e == Says("input", r)
    <3>1. e[2] = r BY DEF Says
    <3>2. In(g, e) BY <1>5
    <3> HIDE DEF e
    <3>3. \E k \in 1..Len(g) : Has(g[k], e) BY <3>2 DEF In
    <3> QED BY <2>3, <3>1, <3>3
  <2> QED BY <1>2, <1>5, <2>2, <2>3, <2>4 DEF Unheard
<1>13. CleanInv'
  <2> SUFFICES ASSUME cur'.again \/ {"compact", "crash"} \subseteq may' \/ \E k \in 1..Len(g) : g[k].run = None
               PROVE  Clean'
    BY DEF CleanInv
  <2>1. CASE cur'.again BY <1>1, <1>5, <1>7, <2>1, IdleIs DEF Clean
  <2>2. CASE \E k \in 1..Len(g) : g[k].run = None BY <1>4, <2>2, <1>1, <1>5 DEF StoryInv, CleanInv, Clean
  <2> QED BY <1>1, <2>1, <2>2
<1>14. q # None => QueueOk(c) /\ FlowOk(g, mem', c)
  <2> SUFFICES ASSUME q # None PROVE QueueOk(c) /\ FlowOk(g, mem', c) OBVIOUS
  <2>1. q \in Runs /\ Whole(g) /\ \A t \in {"run_finished", "run_error"} : ~ In(g, Says(t, q)) BY <1>7 DEF Clean
  <2>2. /\ Sane(S, q) /\ ~ Over(S, q) /\ Told(g, q, S, FALSE, TRUE) /\ Heard(mem', q, S, TRUE)
        /\ \A e \in S : e[2] = q /\ e[1] \in Relayable
    <3>1. g \in Seq(Records) BY <1>4 DEF HistoryInv, Plain
    <3> HIDE DEF g
    <3> QED BY <1>5, <1>8, <2>1, <3>1, RecordedIs
  <2>3. Stream(c) = S BY <1>9, <2>2 DEF Stream
  <2>4. Len(c.queue) = 0 /\ \A i \in 1..0 : FALSE BY <1>9
  <2>5. \A i \in 1..1 : Due(c, i) = S BY <2>3, <2>4 DEF Due
  <2>6. QueueOk(c) BY <1>9, <2>2, <2>4, <2>5, <2>3 DEF QueueOk
  <2>7. Waits(mem', q) BY <1>5, LenProperties DEF Memories, Waits
  <2>8. ~ Removed(g, q) BY <2>1 DEF Removed, Whole
  <2>9. Due(c, 1) = S BY <2>5
  <2> QED BY <1>9, <2>2, <2>6, <2>7, <2>8, <2>9 DEF FlowOk
<1>15. QueueInv' /\ FlowInv' BY IdleIs, <1>1, <1>14 DEF Taken, QueueInv, FlowInv
<1>16. PendingInv' BY <1>1, <1>9, IdleIs, <1>2 DEF StoryInv, PendingInv
<1> QED BY <1>10, <1>11, <1>12, <1>13, <1>15, <1>16 DEF StoryInv

-----------------------------------------------------------------------------
(* The stories in which each message is seen once.                         *)

\* A new session.
LEMMA InitStory ==
  ASSUME Init, Orderly(may)
  PROVE  StoryInv /\ StandsInv
<1>1. /\ disk = NewDisk /\ mem = NewMemory /\ waiting = {} /\ cur = Idle /\ request = [r \in Runs |-> NotPosted]
  BY DEF Init
<1>2. disk.history = <<>> /\ disk.open = {} /\ disk.context = EmptyContext BY <1>1 DEF NewDisk
<1>3. Len(<<>>) = 0 /\ (\A k \in 1..0 : FALSE) /\ <<>> \in Seq(Records) /\ <<>> \in Seq(Pairs) OBVIOUS
<1>4. cur.phase = "idle" /\ cur.run = None /\ ~cur.again /\ cur.cont = 0 /\ cur.phase \notin Taken
  BY <1>1, IdleIs DEF Taken
<1>5. /\ EmptyContext.pending = None /\ {"gen", "rev", "pending"} \subseteq DOMAIN EmptyContext
  BY DEF EmptyContext
<1>6. HistoryInv(<<>>) BY <1>3 DEF HistoryInv, Plain, Distinct, CallsNear, RemovedBare, Labelled, EndsLast, Whole
<1>7. /\ mem \in Memories /\ mem.cancelled = {} /\ mem.stopped = {} /\ mem.stoppedActive = None /\ mem.cancelledActive = None
      /\ mem.messages = {}
  BY <1>1, <1>3 DEF NewMemory, Memories
<1>8. StillInv BY <1>1, <1>2, <1>4 DEF StillInv, Taken
<1>9. QueueInv /\ FlowInv BY <1>4 DEF QueueInv, FlowInv
<1>10. OrderInv BY <1>2, <1>6, <1>7 DEF OrderInv
<1>11. UnknownInv BY <1>2, <1>3, <1>7, <1>5, NoneIsNoRun DEF Unheard, UnknownInv
<1>12. PendingInv BY <1>2, <1>4, <1>5 DEF PendingInv
<1>13. CleanInv BY <1>2, <1>3, <1>4, <1>7 DEF Whole, Orderly, CleanInv, Clean
<1>14. StandsInv BY <1>4 DEF StandsInv
<1> QED BY <1>8, <1>9, <1>10, <1>11, <1>12, <1>13, <1>14 DEF StoryInv

\* Without answers no card is shown or claimed.
LEMMA NoCards ==
  ASSUME StoryInv, CardsInv, NEW r \in Runs
  PROVE  ~ ClaimCards(r) /\ ~ ShowCard(r) /\ ~ LoseCard(r)
<1>1. ~ ClaimCards(r) BY DEF StoryInv, StillInv, IsAnswer, NotPosted, Input, ClaimCards
<1>2. "answer" \notin may BY DEF StoryInv, StillInv, Orderly
<1> QED BY <1>1, <1>2 DEF ShowCard, LoseCard, CanShow

\* Each step keeps the invariant.
LEMMA StoryStep ==
  ASSUME StoryInv, CardsInv, StandsInv, [Next]_vars
  PROVE  StoryInv'
<1>1. ASSUME NEW r \in Runs, Post(r) \/ Stop(r) \/ Cancel(r) PROVE StoryInv'
  BY <1>1, PostKeeps, StopKeeps, CancelKeeps
<1>2. ASSUME NEW r \in Runs, Acquire(r) \/ Refuse(r) \/ StoreFails(r) \/ Dismiss(r) \/ Accept(r) PROVE StoryInv'
  BY <1>2, AcquireKeeps, RefuseKeeps, StoreFailsKeeps, DismissKeeps, AcceptKeeps
<1>3. ASSUME NEW r \in Runs, Open(r) \/ Reopen(r) PROVE StoryInv'
  BY <1>3, OpenKeeps
<1>4. ASSUME NEW r \in Runs, ClaimCards(r) \/ ShowCard(r) \/ LoseCard(r) PROVE StoryInv'
  BY <1>4, NoCards
<1>5. ASSUME NEW r \in Runs, Relay(r) \/ RelayLast(r) PROVE StoryInv'
  BY <1>5, RelayKeeps, RelayLastKeeps
<1>6. ASSUME NEW r \in Runs, Compact(r) \/ CompactRefused(r) PROVE StoryInv'
  BY <1>6, CompactKeeps, RefusedKeeps
<1>7. ASSUME NEW r \in Runs, Failure(r) \/ Patch(r) PROVE StoryInv'
  BY <1>7, MarkKeeps
<1>8. ASSUME NEW r \in Runs, StreamEnds(r) \/ Leave(r) PROVE StoryInv'
  BY <1>8, EndKeeps
<1>9. ASSUME (\E r \in Runs : Close(r)) \/ CutShort \/ Recover PROVE StoryInv'
  BY <1>9, CloseKeeps
<1>10. ASSUME Persist \/ PersistFails PROVE StoryInv'
  BY <1>10, PersistKeeps, PersistFailsKeeps
<1>11. ASSUME ManualBegin \/ ManualEnd \/ Reset PROVE StoryInv'
  BY <1>11, ManualKeeps
<1>12. ASSUME Crash PROVE StoryInv'
  BY <1>12, CrashKeeps
<1>13. CASE UNCHANGED vars
  <2>1. UNCHANGED <<disk, mem, may, request, waiting, cur>> BY <1>13 DEF vars, clientVars
  <2>2. Rests BY <2>1 DEF Rests, Unknown
  <2>3. StillInv' /\ QueueInv' /\ PendingInv' BY <2>1 DEF StoryInv, StillInv, QueueInv, PendingInv
  <2> QED BY <2>2, <2>3, RestsStory
<1> QED BY <1>1, <1>2, <1>3, <1>4, <1>5, <1>6, <1>7, <1>8, <1>9, <1>10, <1>11, <1>12, <1>13 DEF Next

\* In those stories the history, the memory and the queue stay in order.
THEOREM StoryAlways == OrderlySpec => [](StoryInv /\ StandsInv /\ CardsInv)
<1>1. Init /\ Orderly(may) => StoryInv /\ StandsInv BY InitStory
<1>2. StoryInv /\ StandsInv /\ CardsInv /\ [Next]_vars => StoryInv' /\ StandsInv' BY StoryStep, StandsStep
<1>3. OrderlySpec => []CardsInv
  <2>1. OrderlySpec => Spec BY DEF OrderlySpec, Spec
  <2> QED BY <2>1, CardsAlways, PTL
<1> QED BY <1>1, <1>2, <1>3, PTL DEF OrderlySpec

-----------------------------------------------------------------------------
(* What the browser and the next run are told of a run that has ended.     *)

\* In those stories no message of a cancelled run is left in the history.
THEOREM RolledBackAlways == OrderlySpec => []RolledBack
<1>1. StoryInv => RolledBack
  <2> SUFFICES ASSUME StoryInv, NEW r \in mem.cancelled, NEW m \in ToSet(AllMessages(disk.history)) PROVE m[2] # r
    BY DEF RolledBack
  <2>1. HistoryInv(disk.history) /\ Removed(disk.history, r) BY DEF StoryInv, OrderInv
  <2>2. Len(disk.history) \in 0..Len(disk.history) /\ disk.history \in Seq(Records)
    BY <2>1, LenProperties DEF HistoryInv, Plain
  <2>3. AllMessages(disk.history) \in Seq(Pairs) BY <2>2, MessagesTyped DEF AllMessages
  <2>4. PICK i \in 1..Len(AllMessages(disk.history)) : AllMessages(disk.history)[i] = m
    BY <2>3, LenProperties DEF ToSet
  <2> QED BY <2>1, <2>4, NothingOfRemoved
<1> QED BY <1>1, StoryAlways, PTL

\* In those of them in which no run is continued by a restarted process the history closes
\* a run once and says nothing of it afterwards (stop_run, append_event).  A run that is
\* stopped and continued later the code closes twice.
THEOREM EndsOnceUncontinued == UncontinuedSpec => []EndsOnce
<1>1. StoryInv => EndsOnce
  <2> SUFFICES ASSUME StoryInv PROVE EndsOnce OBVIOUS
  <2> DEFINE events == VisibleEvents(disk.history, Len(disk.history))
  <2>1. HistoryInv(disk.history) BY DEF StoryInv, OrderInv
  <2>2. \A i, j \in 1..Len(events) : i < j /\ Terminal(events[i]) => events[i][2] # events[j][2]
    BY <2>1, NothingAfterEnd
  <2>3. events \in Seq(Pairs) BY <2>1, LenProperties, VisibleStep DEF HistoryInv, Plain
  <2>4. DOMAIN events = 1..Len(events) BY <2>3, LenProperties
  <2> HIDE DEF events
  <2>5. \A i, j \in DOMAIN events : ~ (i < j /\ Terminal(events[i]) /\ events[i][2] = events[j][2]) BY <2>2, <2>4
  <2> QED BY <2>5 DEF EndsOnce, events
<1>2. UncontinuedSpec => OrderlySpec BY DEF UncontinuedSpec, OrderlySpec
<1> QED BY <1>1, <1>2, StoryAlways, PTL

-----------------------------------------------------------------------------
(* A run that ended in peace.                                              *)

\* The stream of a run grows by an event of its own, or is that of another run.
LEMMA SentStays ==
  ASSUME SentInv,
         \/ cur'.sent = {}
         \/ cur'.run = cur.run /\ cur'.sent = cur.sent
         \/ cur'.run = cur.run /\ \E t : cur'.sent = cur.sent \cup {Says(t, cur.run)}
  PROVE  SentInv'
BY DEF SentInv, Says

\* The streams go on so.
LEMMA SentStep ==
  ASSUME StoryInv, CardsInv, SentInv, [Next]_vars
  PROVE  SentInv'
<1>1. Keys(cur) BY DEF CardsInv, RunsInv, CardTypes, Shaped
<1> DEFINE Grows == \/ cur'.sent = {}
                    \/ cur'.run = cur.run /\ cur'.sent = cur.sent
                    \/ cur'.run = cur.run /\ \E t : cur'.sent = cur.sent \cup {Says(t, cur.run)}
<1>2. Idle.sent = {} BY DEF Idle, Holding
<1>3. CASE UNCHANGED cur BY <1>3, SentStays
<1>4. ASSUME NEW r \in Runs, Post(r) \/ Stop(r) \/ Cancel(r) PROVE UNCHANGED cur
  BY <1>4 DEF Post, PostNew, PostAgain, Stop, Cancel
<1>5. ASSUME NEW r \in Runs, Acquire(r) \/ Refuse(r) \/ StoreFails(r) PROVE Grows
  BY <1>5, <1>2 DEF Acquire, Refuse, StoreFails, Release, Holding
<1>6. ASSUME NEW r \in Runs, Dismiss(r) \/ Accept(r) \/ ClaimCards(r) PROVE Grows
  BY <1>6, <1>1 DEF Dismiss, Accept, ClaimCards, Keys
<1>7. ASSUME NEW r \in Runs, Open(r) \/ Reopen(r) PROVE Grows BY <1>7, <1>1 DEF Open, Reopen, Keys
<1>8. ASSUME NEW r \in Runs, Relay(r) \/ RelayLast(r) PROVE Grows
  <2>1. PICK type \in Relayable, x \in Calls(r) :
          Sendable(r, type, x) /\ (cur' = Queued(<<type, x>>) \/ cur' = [Queued(<<type, x>>) EXCEPT !.phase = "closing"])
    BY <1>8 DEF Calls, Relayable, Relay, RelayLast
  <2>2. cur.run = r /\ cur.phase = "streaming" BY <1>8 DEF Relay, RelayLast, Live
  <2>3. x = r
    <3>1. ~ IsAnswer(r) BY DEF StoryInv, StillInv, IsAnswer, NotPosted, Input
    <3> QED BY <2>1, <3>1 DEF Calls
  <2> DEFINE e == <<type, x>>
             c == Queued(e)
  <2>4. Keys(c) /\ c.run = cur.run BY <1>1, QueuedFacts
  <2>5. c.sent = cur.sent \cup {Says(type, r)} BY <1>1, <2>3 DEF Queued, Keys, Says
  <2> HIDE DEF c, e
  <2>6. cur' = c \/ cur' = [c EXCEPT !.phase = "closing"] BY <2>1 DEF c, e
  <2>7. cur'.run = c.run /\ cur'.sent = c.sent BY <2>4, <2>6 DEF Keys
  <2> QED BY <2>2, <2>4, <2>5, <2>7
<1>9. ASSUME NEW r \in Runs, ClaimCards(r) \/ ShowCard(r) \/ LoseCard(r) PROVE Grows
  BY <1>9, NoCards
<1>10. ASSUME NEW r \in Runs, Compact(r) PROVE Grows BY <1>10, <1>1 DEF Compact, Compacting, Keys
<1>11. ASSUME NEW r \in Runs, CompactRefused(r) \/ StreamEnds(r) \/ Leave(r) PROVE Grows
  <2>1. Holding(None, "lost").sent = {} BY DEF Holding
  <2> QED BY <1>11, <1>1, <1>2, <2>1 DEF CompactRefused, StreamEnds, Leave, Release, Keys
<1>12. ASSUME NEW r \in Runs, Failure(r) \/ Patch(r) PROVE Grows
  BY <1>12, <1>1 DEF Failure, Patch, CanPropose, Live, Marked, Keys
<1>13. ASSUME Persist \/ PersistFails PROVE Grows BY <1>13, <1>1, <1>2 DEF Persist, PersistFails, Keys
<1>14. ASSUME (\E r \in Runs : Close(r)) \/ CutShort \/ ManualEnd \/ Recover PROVE Grows
  BY <1>2, <1>14 DEF Close, CutShort, ManualEnd, Recover, Release
<1>15. ASSUME ManualBegin PROVE Grows BY <1>15 DEF ManualBegin, Holding
<1>16. ASSUME Reset PROVE UNCHANGED cur BY <1>16 DEF Reset
<1>17. ASSUME Crash PROVE SentInv'
  <2> DEFINE q == Validated(disk'.context, disk'.history).pending
             h == Holding(q, "streaming")
             v == View(disk')
             s == Recorded(q)
             c == [h EXCEPT !.again = TRUE, !.view = v, !.sent = s]
  <2>1. cur' = IF q = None THEN Idle ELSE c
    BY <1>17 DEF Crash, Restart
  <2>2. h.run = q /\ Keys(h) BY IdleFlows DEF Holding
  <2>3. \A e \in s : e = Says(e[1], q) BY DEF Recorded, Says
  <2> HIDE DEF q, h, v, s
  <2>4. c.sent = s /\ c.run = q BY <2>2 DEF Keys
  <2> HIDE DEF c
  <2> QED BY <1>2, <2>1, <2>3, <2>4 DEF SentInv
<1>18. CASE UNCHANGED vars BY <1>3, <1>18 DEF vars
<1>19. CASE Grows BY <1>19, SentStays
<1> HIDE DEF Grows
<1> QED BY <1>3, <1>4, <1>5, <1>6, <1>7, <1>8, <1>9, <1>10, <1>11, <1>12, <1>13, <1>14, <1>15, <1>16, <1>17,
           <1>18, <1>19 DEF Next

\* The clean-up of a run without cards writes nothing.
LEMMA CloseWrites ==
  ASSUME StoryInv, CardsInv, NEW r \in Runs, Close(r)
  PROVE  /\ disk'.history = disk.history /\ disk'.context = disk.context
         /\ cur.run = r /\ cur.phase = "closing" /\ cur.queue = <<>> /\ ~cur.again /\ cur' = Idle
<1>1. /\ cur.run = r /\ cur.phase = "closing" /\ cur.queue = <<>> /\ Perform(Finished(r)) /\ cur' = Idle
  BY DEF Close, Release
<1>2. Shape(disk) /\ ~cur.again BY <1>1 DEF CardsInv, RunsInv, CardTypes, Shaped, Recovering
<1>3. ~ IsAnswer(r) BY DEF StoryInv, StillInv, IsAnswer, NotPosted, Input
<1>4. Finished(r).writes = <<>> BY <1>3 DEF Finished, Outcome
<1>5. OnlyContext(disk.context) BY <1>1, <1>2, <1>4, WroteNothing
<1> QED BY <1>1, <1>2, <1>5 DEF OnlyContext

\* A run that ended in peace has its messages in the history.
LEMMA NothingLostStep ==
  ASSUME StoryInv, CardsInv, SentInv, NEW r \in Runs, Close(r), ~cur.deaf, r \notin mem.stopped \cup mem.cancelled,
         NEW e \in cur.sent, e[1] \in {"text_end", "result"}
  PROVE  <<IF e[1] = "result" THEN "K" ELSE "T", e[2]>> \in ToSet(AllMessages(disk'.history))
<1> DEFINE h == disk.history
           S == Due(cur, 1)
<1>1. disk'.history = h /\ cur.run = r /\ cur.phase \in Taken /\ cur.queue = <<>> /\ ~cur.again
  BY CloseWrites DEF Taken
<1>2. HistoryInv(h) /\ h \in Seq(Records) BY DEF StoryInv, OrderInv, HistoryInv, Plain
<1>3. FlowOk(h, mem, cur) BY <1>1 DEF StoryInv, FlowInv
<1>4. e = Says(e[1], r) BY <1>1 DEF SentInv
<1>5. e \in S BY <1>1 DEF Relayable, Due, Stream
<1>6. ~ Removed(h, r) /\ Told(h, r, S, FALSE, FALSE)
  <2>1. Told(h, r, S, cur.deaf, cur.again) /\ ~ Removed(h, r) BY <1>1, <1>3 DEF FlowOk, Off
  <2> HIDE DEF S
  <2> QED BY <1>1, <2>1 DEF Told
<1> HIDE DEF S
<1>7. \A k \in 1..Len(h) : \A f : Has(h[k], f) /\ f[2] = r => Visible(h, k)
  <2> SUFFICES ASSUME NEW k \in 1..Len(h), NEW f, Has(h[k], f), f[2] = r PROVE Visible(h, k) OBVIOUS
  <2>1. Plain(h) BY <1>2 DEF HistoryInv
  <2>2. h[k].run \in {r, None} /\ h[k].kind # "remove" BY <2>1, OfRun
  <2>3. ~ Removed(h, None) BY <2>1, NoneIsNoRun DEF Plain, RecordInv, Removed
  <2> QED BY <1>2, <1>6, <2>2, <2>3, SeenIs
<1>8. \E k \in 1..Len(h) : Yields(h, k, e)
  <2>1. e[2] = r /\ Says("call", r)[2] = r /\ EndsMessage(e) BY <1>4 DEF Says, EndsMessage
  <2>2. CASE e[1] = "text_end"
    <3>1. In(h, e) BY <1>4, <1>5, <1>6, <2>2 DEF Told
    <3>2. PICK k \in 1..Len(h) : Has(h[k], e) BY <3>1 DEF In
    <3> QED BY <1>7, <2>1, <2>2, <3>2 DEF Yields
  <2>3. CASE e[1] = "result"
    <3>1. CalledBefore(h, r) BY <1>4, <1>5, <1>6, <2>3 DEF Told
    <3>2. PICK k \in 1..Len(h), l \in 1..Len(h) : l < k /\ Has(h[l], Says("call", r)) /\ Has(h[k], Says("result", r))
      BY <3>1 DEF CalledBefore
    <3>3. Has(h[k], e) /\ Visible(h, k) /\ Visible(h, l) BY <1>4, <1>7, <2>1, <2>3, <3>2
    <3>4. l \in 1..(k - 1) BY <3>2, <1>2, LenProperties
    <3> QED BY <2>1, <3>2, <3>3, <3>4 DEF Yields
  <2> QED BY <2>2, <2>3
<1>9. MessageOf(e) \in ToSet(AllMessages(h)) BY <1>2, <1>8, MessageSeen
<1>10. MessageOf(e) = <<IF e[1] = "result" THEN "K" ELSE "T", e[2]>> BY DEF MessageOf
<1> QED BY <1>1, <1>9, <1>10

\* In those stories a run that ended in peace has every message it sent in the history.
THEOREM NothingLostAlways == OrderlySpec => NothingLost
<1>1. Init => SentInv BY DEF Init, Idle, Holding, SentInv
<1>2. StoryInv /\ CardsInv /\ SentInv /\ [Next]_vars => SentInv' BY SentStep
<1>3. StoryInv /\ CardsInv /\ SentInv /\ [Next]_vars =>
        [\A r \in Runs :
           Close(r) /\ ~cur.left /\ ~cur.deaf /\ r \notin mem.stopped \cup mem.cancelled =>
             {<<IF e[1] = "result" THEN "K" ELSE "T", e[2]>> :
                 e \in {e \in cur.sent : e[1] \in {"text_end", "result"}}}
               \subseteq ToSet(AllMessages(disk'.history))]_vars
  BY NothingLostStep
<1> QED BY <1>1, <1>2, <1>3, StoryAlways, PTL DEF OrderlySpec, NothingLost

-----------------------------------------------------------------------------
(* The summary, and the view of the backend that the next one is made from. *)

\* The start of a sequence.
LEMMA StartIsSeq ==
  ASSUME NEW s \in Seq(Pairs), NEW n \in 1..Len(s)
  PROVE  /\ SubSeq(s, 1, n) \in Seq(Pairs) /\ Len(SubSeq(s, 1, n)) = n /\ \A i \in 1..n : SubSeq(s, 1, n)[i] = s[i]
         /\ Len(s) \in Nat
OBVIOUS

\* One sequence behind the other.
LEMMA JoinIs ==
  ASSUME NEW a \in Seq(Pairs), NEW b \in Seq(Pairs)
  PROVE  /\ a \o b \in Seq(Pairs) /\ Len(a \o b) = Len(a) + Len(b) /\ \A i \in 1..Len(a) : (a \o b)[i] = a[i]
         /\ \A i \in 1..Len(b) : (a \o b)[Len(a) + i] = b[i]
OBVIOUS

\* What such a summary says, message by message.
LEMMA SaidIs ==
  ASSUME NEW v, v.context \in Contexts, v.tail \in Seq(Pairs), NEW n \in OlderOf(v)
  PROVE  LET p == SaidOf(v, n)
             all == v.context.said \o v.tail
         IN /\ p \in Seq(Pairs) /\ p # <<>> /\ p[Len(p)] = v.tail[n] /\ Begins(p, all) /\ all \in Seq(Pairs)
            /\ \E k \in 1..Len(all) : all[k][1] = "U" /\ Len(p) < k
<1> DEFINE a == v.context.said
           t == v.tail
           b == SubSeq(t, 1, n)
<1>1. a \in Seq(Pairs) /\ t \in Seq(Pairs) BY DEF Contexts
<1>2. n \in 1..Len(t) /\ \E k \in 1..Len(t) : t[k][1] = "U" /\ n < k BY DEF OlderOf
<1>3. b \in Seq(Pairs) /\ Len(b) = n /\ (\A i \in 1..n : b[i] = t[i]) /\ Len(t) \in Nat BY <1>1, <1>2, StartIsSeq
<1>4. SaidOf(v, n) = a \o b BY DEF SaidOf
<1> HIDE DEF a, t, b
<1> DEFINE p == a \o b
           all == a \o t
<1>5. Len(a) \in Nat BY <1>1, LenProperties
<1>6. /\ p \in Seq(Pairs) /\ Len(p) = Len(a) + n /\ \A i \in 1..Len(a) : p[i] = a[i]
      /\ \A i \in 1..n : p[Len(a) + i] = b[i]
  <2>1. /\ p \in Seq(Pairs) /\ Len(p) = Len(a) + Len(b) /\ \A i \in 1..Len(a) : p[i] = a[i]
        /\ \A i \in 1..Len(b) : p[Len(a) + i] = b[i]
    BY <1>1, <1>3, JoinIs
  <2> HIDE DEF p
  <2> QED BY <1>3, <2>1
<1>7. /\ all \in Seq(Pairs) /\ Len(all) = Len(a) + Len(t) /\ \A i \in 1..Len(a) : all[i] = a[i]
      /\ \A i \in 1..Len(t) : all[Len(a) + i] = t[i]
  BY <1>1, <1>3, <1>5
<1> HIDE DEF p, all
<1>8. \A i \in 1..Len(p) : all[i] = p[i]
  <2> SUFFICES ASSUME NEW i \in 1..Len(p) PROVE all[i] = p[i] OBVIOUS
  <2>1. CASE i \in 1..Len(a) BY <1>6, <1>7, <2>1
  <2>2. CASE i \notin 1..Len(a)
    <3> DEFINE j == i - Len(a)
    <3>1. j \in 1..n /\ j \in 1..Len(t) /\ i = Len(a) + j BY <1>2, <1>3, <1>5, <1>6, <2>2
    <3> HIDE DEF j
    <3> QED BY <1>3, <1>6, <1>7, <3>1
  <2> QED BY <2>1, <2>2
<1>9. Begins(p, all)
  <2>1. Len(p) = Len(a) + n /\ Len(all) = Len(a) + Len(t) BY <1>6, <1>7
  <2>2. n <= Len(t) /\ n \in Nat BY <1>2, <1>3
  <2>3. Len(p) <= Len(all) BY <1>3, <1>5, <2>1, <2>2
  <2> QED BY <1>8, <2>3 DEF Begins
<1>10. p # <<>> /\ p[Len(p)] = t[n] BY <1>2, <1>6, <1>3, <1>5
<1>11. \E k \in 1..Len(all) : all[k][1] = "U" /\ Len(p) < k
  <2>1. PICK k \in 1..Len(t) : t[k][1] = "U" /\ n < k BY <1>2
  <2>2. Len(a) + k \in 1..Len(all) /\ Len(p) < Len(a) + k BY <1>2, <1>3, <1>5, <1>6, <1>7, <2>1
  <2>3. all[Len(a) + k] = t[k] BY <1>7, <2>1
  <2> QED BY <2>1, <2>2, <2>3
<1> QED BY <1>4, <1>6, <1>7, <1>9, <1>10, <1>11 DEF p, all, a, t

\* The view that is opened is such a one.
LEMMA ViewOpens ==
  ASSUME NEW d, HistoryInv(d.history), Sound(d.context, d.history), NEW x, NEW again,
         again \/ NoneBefore(d.history, x)
  PROVE  ViewOk(View(d), d.history, x, again)
<1> DEFINE v == View(d)
           h == d.history
           A == AllMessages(h)
<1>1. v.context \in Contexts /\ v.tail \in Seq(Pairs) /\ v.context.said \o v.tail = A BY ViewIs DEF Sound
<1> HIDE DEF v, A
<1> SUFFICES ASSUME NEW n \in OlderOf(v)
             PROVE  /\ Begins(SaidOf(v, n), A)
                    /\ again \/ \A i \in 1..Len(SaidOf(v, n)) : SaidOf(v, n)[i][2] # x
  BY <1>1 DEF ViewOk, v, A
<1> DEFINE p == SaidOf(v, n)
<1>2. /\ p \in Seq(Pairs) /\ Begins(p, A) /\ A \in Seq(Pairs)
      /\ \E k \in 1..Len(A) : A[k][1] = "U" /\ Len(p) < k
  BY <1>1, SaidIs
<1> HIDE DEF p
<1>3. ASSUME ~again, NEW i \in 1..Len(p) PROVE p[i][2] # x
  <2>1. PICK k \in 1..Len(A) : A[k][1] = "U" /\ Len(p) < k BY <1>2
  <2>2. i \in 1..Len(A) /\ i < k /\ A[i] = p[i] BY <1>2, LenProperties, <2>1 DEF Begins
  <2>3. Plain(h) /\ NoneBefore(h, x) BY <1>3 DEF HistoryInv
  <2>4. \A a, b \in 1..Len(h) : a < b /\ h[b].kind = "input" => \A e : Has(h[a], e) => e[2] # x
    BY <2>3 DEF NoneBefore
  <2>5. A[i][2] # x BY <2>1, <2>2, <2>3, <2>4, UserLast DEF A
  <2> QED BY <2>2, <2>5
<1> QED BY <1>2, <1>3 DEF p

\* No input comes after an event of no run.
LEMMA NoneOfNobody ==
  ASSUME NEW h, Plain(h)
  PROVE  NoneBefore(h, None)
<1> SUFFICES ASSUME NEW k \in 1..Len(h), NEW e, Has(h[k], e) PROVE e[2] # None BY DEF NoneBefore
<1>1. e[2] \in Runs BY OfRun
<1> QED BY <1>1, NoneIsNoRun

\* The summary and the view are good for the history with one more record.
LEMMA SoundGrown ==
  ASSUME NEW h \in Seq(Records), NEW rec, NEW g, Grown(h, g, rec), NEW c, Sound(c, h)
  PROVE  Sound(c, g)
BY GrownFacts DEF Sound, EndsIn

\* A view stays what it is when a record is appended.
LEMMA ViewGrown ==
  ASSUME NEW h, HistoryInv(h), NEW rec, rec.kind # "remove", NEW g, Grown(h, g, rec), NEW v, NEW x, NEW again,
         ViewOk(v, h, x, again)
  PROVE  ViewOk(v, g, x, again)
<1>1. h \in Seq(Records) /\ g \in Seq(Records) BY DEF HistoryInv, Plain, Grown
<1>2. Begins(AllMessages(h), AllMessages(g)) BY <1>1, GrownMessages
<1>3. AllMessages(h) \in Seq(Pairs) /\ AllMessages(g) \in Seq(Pairs)
  BY <1>1, LenProperties, MessagesTyped DEF AllMessages
<1>4. \A n \in OlderOf(v) : Begins(SaidOf(v, n), AllMessages(g))
  <2> SUFFICES ASSUME NEW n \in OlderOf(v) PROVE Begins(SaidOf(v, n), AllMessages(g)) OBVIOUS
  <2>1. SaidOf(v, n) \in Seq(Pairs) BY SaidIs DEF ViewOk
  <2>2. Begins(SaidOf(v, n), AllMessages(h)) BY DEF ViewOk
  <2> QED BY <1>2, <1>3, <2>1, <2>2, BeginsOn
<1> QED BY <1>4 DEF ViewOk

\* The tombstone of the run that goes on.
LEMMA ViewCancelled ==
  ASSUME NEW h, HistoryInv(h), NEW x \in Runs, NEW g, Grown(h, g, Tombstone(x)), \A k \in 1..Len(h) : h[k].run # None,
         NEW v, NEW again, ~again, ViewOk(v, h, x, again)
  PROVE  ViewOk(v, g, x, again)
<1>1. \A n \in OlderOf(v) : Begins(SaidOf(v, n), AllMessages(g))
  <2> SUFFICES ASSUME NEW n \in OlderOf(v) PROVE Begins(SaidOf(v, n), AllMessages(g)) OBVIOUS
  <2> DEFINE p == SaidOf(v, n)
  <2>1. p \in Seq(Pairs) BY SaidIs DEF ViewOk
  <2>2. Begins(p, AllMessages(h)) /\ \A i \in 1..Len(p) : p[i][2] # x BY DEF ViewOk
  <2> HIDE DEF p
  <2>3. Begins(p, AllMessages(g)) BY <2>1, <2>2, TombstoneKeeps
  <2> QED BY <2>3 DEF p
<1> QED BY <1>1 DEF ViewOk

\* A summary that is made from the view stands for what it says.
LEMMA CompactedSound ==
  ASSUME HistoryInv(disk.history), NEW again, NEW x, ViewOk(cur.view, disk.history, x, again),
         NEW n \in Older, NEW r \in Runs \cup {None}
  PROVE  Sound(Compacted(disk, Proposal(n), r), disk.history)
<1> DEFINE v == cur.view
           h == disk.history
           p == SaidOf(v, n)
           u == RecordOf(h, p[Len(p)])
           c == Compacted(disk, Proposal(n), r)
<1>1. v.context \in Contexts /\ v.tail \in Seq(Pairs) /\ Begins(p, AllMessages(h)) /\ n \in OlderOf(v)
  BY LenProperties DEF ViewOk, Older, OlderOf
<1>2. p \in Seq(Pairs) /\ p # <<>> /\ p[Len(p)] = v.tail[n] BY <1>1, SaidIs
<1>3. c = [gen |-> v.context.gen + 1, rev |-> v.context.rev + 1, upto |-> u, covers |-> Messages(h, u), said |-> p,
           pending |-> r]
  BY <1>2 DEF Compacted, Proposal, SaidOf
<1> HIDE DEF p, c
<1>4. u \in 1..Len(h) /\ Messages(h, u) = p /\ EndsIn(h, u) BY <1>1, <1>2, Commit DEF HistoryInv
<1>5. Len(h) \in Nat BY LenProperties DEF HistoryInv, Plain
<1> HIDE DEF u, v, h
<1>6. u \in Nat /\ u # 0 BY <1>4, <1>5
<1>7. c \in Contexts BY <1>1, <1>2, <1>3, <1>4, <1>6 DEF Contexts
<1>8. c.upto = u /\ c.said = p /\ c.covers = p BY <1>3, <1>4
<1>9. Sound(c, h) BY <1>4, <1>6, <1>7, <1>8 DEF Sound
<1> QED BY <1>9 DEF c, h

\* A new revision, and a continuation that is cleared.
LEMMA ContextSound ==
  ASSUME NEW h \in Seq(Records), NEW c, Sound(c, h)
  PROVE  Sound(Revised(c), h) /\ Sound(Cleared(c), h) /\ Sound(Validated(c, h), h) /\ Sound(EmptyContext, h)
<1>1. Sound(Revised(c), h) BY DEF Revised, Sound, Contexts
<1>2. Sound(Cleared(c), h)
  <2> DEFINE b == Revised(c)
  <2>1. Cleared(c) \in {c, [b EXCEPT !.pending = None]} BY DEF Cleared
  <2> HIDE DEF b
  <2>2. Sound([b EXCEPT !.pending = None], h) BY <1>1 DEF b, Sound, Contexts
  <2> QED BY <2>1, <2>2
<1> QED BY <1>1, <1>2, ValidatedIs, EmptyIsSound

-----------------------------------------------------------------------------
(* The steps keep the summary sound.                                       *)

\* The history is as it was.
LEMMA SummaryRests ==
  ASSUME SummaryInv, disk'.history = disk.history, Sound(disk'.context, disk.history), Goes
  PROVE  SummaryInv'
BY DEF SummaryInv, Goes

\* A record is appended that is no tombstone.
LEMMA SummaryGrows ==
  ASSUME SummaryInv, StoryInv, NEW rec, rec.kind # "remove", Wrote(rec), disk'.context = disk.context, Goes
  PROVE  SummaryInv'
<1>1. HistoryInv(disk.history) /\ disk.history \in Seq(Records) BY DEF StoryInv, OrderInv, HistoryInv, Plain
<1>2. CASE disk'.history = disk.history BY <1>2, SummaryRests DEF SummaryInv
<1>3. CASE Grown(disk.history, disk'.history, rec)
  <2>1. Sound(disk'.context, disk'.history) BY <1>1, <1>3, SoundGrown DEF SummaryInv
  <2>2. ASSUME Viewing(cur') PROVE ViewOk(cur'.view, disk'.history, cur'.run, cur'.again)
    BY <2>2, <1>1, <1>3, ViewGrown DEF SummaryInv, Goes
  <2> QED BY <2>1, <2>2 DEF SummaryInv
<1> QED BY <1>2, <1>3 DEF Wrote

\* The append, and what calls it.
LEMMA FlushAppends ==
  ASSUME NEW d, NEW m
  PROVE  AppendsOnly(d, Flush(d, m))
<1> DEFINE tail == SubSeq(m.events, m.count + 1, Len(m.events))
           named == {i \in DOMAIN tail : Named(tail[i])}
           r == IF named = {} THEN m.active ELSE tail[Min(named)][2]
           rec == Record("events", r, tail)
           op == Flush(d, m)
<1>1. op.writes = IF tail = <<>> THEN <<>> ELSE <<<<"history", Append(d.history, rec)>>>> BY DEF Flush, Outcome
<1>2. rec.kind # "remove" BY DEF Record
<1> HIDE DEF op, rec, tail
<1>3. AppendsOnly(d, op) BY <1>1, <1>2 DEF AppendsOnly
<1> QED BY <1>3 DEF op

\* An event, a stop and a start append, or write nothing.
LEMMA OperationAppends ==
  ASSUME NEW d, NEW m, NEW e, NEW r
  PROVE  AppendsOnly(d, AppendEvent(d, m, e)) /\ AppendsOnly(d, StopRun(d, m, r)) /\ AppendsOnly(d, SaveRunStart(d, m, r))
<1>1. \A n : AppendsOnly(d, Outcome(n, <<>>)) BY DEF AppendsOnly, Outcome
<1>2. \A n : AppendsOnly(d, Flush(d, n)) BY FlushAppends
<1>3. AppendsOnly(d, AppendEvent(d, m, e)) BY <1>1, <1>2 DEF AppendEvent
<1>4. AppendsOnly(d, StopRun(d, m, r)) BY <1>1, <1>2 DEF StopRun
<1>5. AppendsOnly(d, SaveRunStart(d, m, r))
  <2> DEFINE op == SaveRunStart(d, m, r)
             rec == Record("input", r, <<Says("input", r)>>)
  <2>1. op.writes = <<>> \/ op.writes = <<<<"history", Append(d.history, rec)>>>> BY DEF SaveRunStart, Outcome
  <2>2. rec.kind # "remove" BY DEF Record
  <2> HIDE DEF op, rec
  <2>3. AppendsOnly(d, op) BY <2>1, <2>2 DEF AppendsOnly
  <2> QED BY <2>3 DEF op
<1> QED BY <1>3, <1>4, <1>5

\* With such an operation the summary stays sound.
LEMMA SummaryAppends ==
  ASSUME SummaryInv, StoryInv, StoryInv', CardsInv, NEW op, AppendsOnly(disk, op), Perform(op), Goes
  PROVE  SummaryInv'
<1>1. Shape(disk) BY DEF CardsInv, RunsInv, CardTypes, Shaped
<1>2. CASE op.writes = <<>> BY <1>1, <1>2, WroteNothing, SummaryRests DEF OnlyContext, SummaryInv
<1>3. ASSUME NEW rec, rec.kind # "remove", op.writes = <<<<"history", Append(disk.history, rec)>>>> PROVE SummaryInv'
  <2> DEFINE h == disk.history
             g == disk'.history
  <2>1. g = Append(h, rec) /\ disk'.context = disk.context BY <1>1, <1>3, WroteHistory
  <2>2. h \in Seq(Records) /\ g \in Seq(Records) BY DEF StoryInv, OrderInv, HistoryInv, Plain
  <2> HIDE DEF h, g
  <2>3. Grown(h, g, rec) BY <2>1, <2>2 DEF Grown
  <2>4. Wrote(rec) BY <2>3 DEF Wrote, g, h
  <2> QED BY <1>3, <2>1, <2>4, SummaryGrows
<1> QED BY <1>2, <1>3 DEF AppendsOnly

\* The stop button, a message that is accepted, and the worker that persists.
LEMMA AppendsKeep ==
  ASSUME SummaryInv, StoryInv, StoryInv', CardsInv, (\E r \in Runs : Stop(r) \/ Accept(r)) \/ Persist
  PROVE  SummaryInv'
<1>1. Keys(cur) BY DEF CardsInv, RunsInv, CardTypes, Shaped
<1>2. ASSUME NEW r \in Runs, Stop(r) PROVE SummaryInv'
  BY <1>2, OperationAppends, SummaryAppends DEF Stop, Goes, Viewing
<1>3. ASSUME NEW r \in Runs, Accept(r) PROVE SummaryInv'
  BY <1>3, <1>1, OperationAppends, SummaryAppends DEF Accept, Goes, Viewing, Keys
<1>4. CASE Persist BY <1>4, <1>1, OperationAppends, SummaryAppends DEF Persist, Goes, Viewing, Keys
<1> QED BY <1>2, <1>3, <1>4

\* A run is cancelled.
LEMMA CancelSound ==
  ASSUME SummaryInv, StoryInv, StoryInv', CardsInv, NEW r \in Runs, Cancel(r)
  PROVE  SummaryInv'
<1> DEFINE h == disk.history
           g == disk'.history
<1>1. /\ may \cap {"stop", "cancel", "undo"} # {}
      /\ \/ cur.run = r
         \/ cur = Idle
      /\ Perform(CancelRun(disk, mem, r)) /\ UNCHANGED cur
  BY DEF Cancel, Cancellable, StoryInv, StillInv, Orderly
<1>2. Shape(disk) BY DEF CardsInv, RunsInv, CardTypes, Shaped
<1>3. ~cur.again /\ \A k \in 1..Len(h) : h[k].run # None BY <1>1, NotClean
<1>4. g = Append(h, Tombstone(r)) /\ disk'.context = Validated(disk.context, g)
  BY <1>1, <1>2, WroteCancel
<1>5. h \in Seq(Records) /\ HistoryInv(h) /\ g \in Seq(Records) BY DEF StoryInv, OrderInv, HistoryInv, Plain
<1>6. Grown(h, g, Tombstone(r)) BY TombstoneIs, <1>4, <1>5, AppendGrown
<1>7. Sound(disk'.context, g)
  <2>1. Sound(disk.context, g) BY <1>5, <1>6, SoundGrown DEF SummaryInv
  <2> QED BY <1>4, <1>5, <2>1, ValidatedIs
<1>8. ASSUME Viewing(cur') PROVE ViewOk(cur'.view, g, cur'.run, cur'.again)
  <2>1. cur.run = r /\ Viewing(cur) BY <1>1, <1>8, IdleIs DEF Viewing
  <2>2. ViewOk(cur.view, h, r, cur.again) BY <2>1 DEF SummaryInv
  <2> HIDE DEF h, g
  <2>3. ViewOk(cur.view, g, r, cur.again) BY <1>3, <1>5, <1>6, <2>2, ViewCancelled
  <2> QED BY <1>1, <2>1, <2>3
<1> QED BY <1>7, <1>8 DEF SummaryInv

\* The stream opens, for the first time or again, and the session's own view.
LEMMA OpenSound ==
  ASSUME SummaryInv, StoryInv, CardsInv, (\E r \in Runs : Open(r) \/ Reopen(r)) \/ ManualBegin
  PROVE  SummaryInv'
<1> DEFINE v == View(disk)
           h == disk.history
           m == Holding(None, "manual")
<1>1. /\ disk' = [disk EXCEPT !.context = View(disk).context]
      /\ \/ cur' = [cur EXCEPT !.phase = "streaming", !.view = View(disk)] /\ cur.phase \in {"opening", "reopening"}
         \/ cur' = [m EXCEPT !.view = View(disk)]
  BY DEF Open, Reopen, ManualBegin
<1>2. Shape(disk) /\ Keys(cur) BY DEF CardsInv, RunsInv, CardTypes, Shaped
<1>3. HistoryInv(h) /\ Plain(h) BY DEF StoryInv, OrderInv, HistoryInv
<1>4. Sound(v.context, h) BY <1>3, ViewIs DEF SummaryInv
<1>5. Keys(m) /\ m.run = None BY IdleFlows DEF Holding
<1> HIDE DEF v, m
<1>6. disk'.history = h /\ disk'.context = v.context BY <1>1, <1>2 DEF Shape, v
<1>7. /\ cur'.view = v
      /\ \/ cur.phase \in {"opening", "reopening"} /\ cur'.run = cur.run /\ cur'.again = cur.again
         \/ cur'.run = None
  BY <1>1, <1>2, <1>5 DEF Keys, v
<1>8. cur'.again \/ NoneBefore(h, cur'.run) BY <1>3, NoneOfNobody, <1>7 DEF Taken, StoryInv, FlowInv, FlowOk
<1>9. ViewOk(v, h, cur'.run, cur'.again) BY <1>3, <1>8, ViewOpens DEF SummaryInv, v
<1> QED BY <1>4, <1>6, <1>7, <1>9 DEF SummaryInv

\* A summary is committed, by the run that goes on or on request.
LEMMA CompactSound ==
  ASSUME SummaryInv, StoryInv, CardsInv, (\E r \in Runs : Compact(r)) \/ ManualEnd
  PROVE  SummaryInv'
<1>1. Shape(disk) /\ Keys(cur) BY DEF CardsInv, RunsInv, CardTypes, Shaped
<1>2. HistoryInv(disk.history) /\ disk.history \in Seq(Records) BY DEF StoryInv, OrderInv, HistoryInv, Plain
<1>3. /\ Viewing(cur) /\ ~ Viewing(cur')
      /\ \/ \E n \in Older, r \in Runs \cup {None} : disk' = [disk EXCEPT !.context = Compacted(disk, Proposal(n), r)]
         \/ disk' = [disk EXCEPT !.context = Revised(@)]
  <2>1. ASSUME NEW r \in Runs, Compact(r)
        PROVE  /\ Viewing(cur) /\ ~ Viewing(cur')
               /\ \E n \in Older : disk' = [disk EXCEPT !.context = Compacted(disk, Proposal(n), r)]
    BY <2>1, <1>1 DEF Compact, CanPropose, Live, Compacting, Keys, Viewing
  <2>2. ASSUME ManualEnd
        PROVE  /\ Viewing(cur) /\ ~ Viewing(cur')
               /\ \/ \E n \in Older : disk' = [disk EXCEPT !.context = Compacted(disk, Proposal(n), None)]
                  \/ disk' = [disk EXCEPT !.context = Revised(@)]
    BY <2>2, IdleIs DEF ManualEnd, Release, Viewing
  <2> QED BY <2>1, <2>2
<1>4. disk'.history = disk.history BY <1>1, <1>3 DEF Shape
<1>5. Sound(disk'.context, disk.history)
  <2>1. ASSUME NEW n \in Older, NEW r \in Runs \cup {None}, disk' = [disk EXCEPT !.context = Compacted(disk, Proposal(n), r)]
        PROVE  Sound(disk'.context, disk.history) BY <1>3, <1>2, CompactedSound, <1>1, <2>1 DEF SummaryInv, Shape
  <2>2. CASE disk' = [disk EXCEPT !.context = Revised(@)] BY <1>1, <2>2, <1>2, ContextSound DEF Shape, SummaryInv
  <2> QED BY <1>3, <2>1, <2>2
<1> QED BY <1>3, <1>4, <1>5 DEF SummaryInv

\* The summary stays sound in each case.
LEMMA CheckedSound ==
  ASSUME SummaryInv, StoryInv, disk'.history = disk.history, Checked(disk'.context), Goes
  PROVE  SummaryInv'
BY ContextSound, SummaryRests DEF StoryInv, OrderInv, HistoryInv, Plain, Checked, SummaryInv

\* One that gives the lock back.
LEMMA IdleGoes ==
  ASSUME cur' = Idle \/ UNCHANGED cur
  PROVE  Goes
BY IdleIs DEF Goes, Viewing

\* The steps of a run that write the context, or nothing.
LEMMA MovesKeep ==
  ASSUME SummaryInv, StoryInv, CardsInv, NEW r \in Runs,
         \/ Post(r) \/ Acquire(r) \/ Refuse(r) \/ StoreFails(r) \/ Dismiss(r)
         \/ Relay(r) \/ RelayLast(r) \/ CompactRefused(r) \/ Failure(r) \/ Patch(r)
         \/ StreamEnds(r) \/ Leave(r) \/ Close(r)
  PROVE  SummaryInv'
<1>1. Shape(disk) /\ Keys(cur) BY DEF CardsInv, RunsInv, CardTypes, Shaped
<1> DEFINE Fine == disk'.history = disk.history /\ Checked(disk'.context) /\ Goes
<1>2. CASE Post(r) \/ StoreFails(r)
  BY <1>2, IdleGoes, CheckedSound DEF Post, PostNew, PostAgain, StoreFails, CallFailed, Release, Checked
<1>3. CASE Acquire(r) BY <1>3, CheckedSound DEF Acquire, Holding, Viewing, Checked, Goes
<1>4. CASE Refuse(r)
  <2>1. Perform(Checking(disk, Outcome(mem, <<>>))) /\ cur' = Idle BY <1>4 DEF Refuse, Release
  <2>2. Outcome(mem, <<>>).writes = <<>> BY DEF Outcome
  <2>3. OnlyContext(Validated(disk.context, disk.history)) BY <1>1, <2>1, <2>2, WroteContext
  <2> QED BY <2>1, <2>3, IdleGoes, CheckedSound DEF Checked, OnlyContext
<1>5. CASE Dismiss(r)
  <2>1. Perform(Checking(disk, DismissCards(disk, mem))) /\ cur' = [cur EXCEPT !.phase = "accepting"]
    BY <1>5 DEF Dismiss
  <2>2. DismissCards(disk, mem).writes = <<>> BY DEF StoryInv, StillInv, DismissCards, Outcome
  <2>3. OnlyContext(Validated(disk.context, disk.history)) BY <1>1, <2>1, <2>2, WroteContext
  <2>4. ~ Viewing(cur') BY <1>1, <2>1 DEF Keys, Viewing
  <2> QED BY <2>3, <2>4, CheckedSound DEF Checked, OnlyContext, Goes
<1>6. CASE Relay(r) \/ RelayLast(r)
  <2>1. PICK e : cur' = Queued(e) \/ cur' = [Queued(e) EXCEPT !.phase = "closing"] BY <1>6 DEF Relay, RelayLast
  <2> DEFINE c == Queued(e)
  <2>2. Keys(c) /\ c.run = cur.run /\ c.again = cur.again /\ c.phase = cur.phase BY <1>1, QueuedFacts
  <2>3. c.view = cur.view BY <1>1 DEF Queued, Keys
  <2> HIDE DEF c
  <2>4. cur' = c \/ cur' = [c EXCEPT !.phase = "closing"] BY <2>1 DEF c
  <2>5. Goes BY <2>2, <2>3, <2>4 DEF Goes, Viewing, Keys
  <2>6. disk' = disk \/ disk' = [disk EXCEPT !.context = Cleared(@)] BY <1>6 DEF Relay, RelayLast
  <2>7. disk'.history = disk.history /\ disk'.context \in {disk.context, Cleared(disk.context)}
    BY <1>1, <2>6 DEF Shape
  <2> QED BY <2>5, <2>7, CheckedSound DEF Checked
<1>7. CASE CompactRefused(r)
  <2>1. /\ disk' = disk \/ disk' = [disk EXCEPT !.context = Validated(@, disk.history)]
        /\ cur' = Idle \/ cur' = [cur EXCEPT !.phase = "closing"]
    BY <1>7 DEF CompactRefused
  <2>2. disk'.history = disk.history /\ disk'.context \in {disk.context, Validated(disk.context, disk.history)}
    BY <1>1, <2>1 DEF Shape
  <2>3. ~ Viewing(cur') BY <1>1, <2>1, IdleIs DEF Viewing, Keys
  <2> QED BY <2>2, <2>3, CheckedSound DEF Checked, Goes
<1>8. CASE Failure(r) \/ Patch(r)
  <2>1. /\ disk' = disk \/ disk' = [disk EXCEPT !.context = Revised(@)]
        /\ \E type : cur' = [cur EXCEPT !.sent = @ \cup {Says(type, r)}]
    BY <1>8 DEF Failure, Patch, Marked
  <2>2. disk'.history = disk.history /\ disk'.context \in {disk.context, Revised(disk.context)}
    BY <1>1, <2>1 DEF Shape
  <2>3. Goes BY <1>1, <2>1 DEF Goes, Viewing, Keys
  <2> QED BY <2>2, <2>3, CheckedSound DEF Checked
<1>9. CASE StreamEnds(r) \/ Leave(r)
  <2>1. disk' = disk BY <1>9 DEF StreamEnds, Leave
  <2>2. ~ Viewing(Holding(None, "lost")) BY DEF Viewing, Holding
  <2>3. \/ cur' = [cur EXCEPT !.phase = "closing"] \/ cur' = [cur EXCEPT !.phase = "closing", !.left = TRUE]
        \/ cur' = Idle \/ cur' = Holding(None, "lost")
    BY <1>9 DEF StreamEnds, Leave, Release
  <2>4. ~ Viewing(cur') BY <1>1, <2>2, <2>3, IdleIs DEF Viewing, Keys
  <2> QED BY <2>1, <2>4, CheckedSound DEF Checked, Goes
<1>10. CASE Close(r) BY <1>10, CloseWrites, IdleGoes, CheckedSound DEF Checked
<1> QED BY <1>2, <1>3, <1>4, <1>5, <1>6, <1>7, <1>8, <1>9, <1>10

\* The steps of the session.
LEMMA SessionMovesKeep ==
  ASSUME SummaryInv, StoryInv, CardsInv, PersistFails \/ CutShort \/ Reset \/ Recover
  PROVE  SummaryInv'
<1>1. Shape(disk) /\ Keys(cur) BY DEF CardsInv, RunsInv, CardTypes, Shaped
<1>2. CASE PersistFails
  <2>1. Perform(AppendFails(disk, mem, Head(cur.queue))) BY <1>2 DEF PersistFails
  <2>2. AppendFails(disk, mem, Head(cur.queue)).writes = <<>> BY DEF AppendFails, Outcome
  <2>3. OnlyContext(disk.context) BY <1>1, <2>1, <2>2, WroteNothing
  <2>4. cur' = Idle \/ cur' = [cur EXCEPT !.queue = Tail(@), !.deaf = TRUE] BY <1>2 DEF PersistFails
  <2>5. Goes BY <1>1, <2>4, IdleGoes DEF Goes, Viewing, Keys
  <2> QED BY <2>3, <2>5, CheckedSound DEF Checked, OnlyContext
<1>3. CASE CutShort \/ Reset \/ Recover
  <2>1. /\ \/ disk' = disk \/ disk' = [disk EXCEPT !.context = EmptyContext] \/ disk' = [disk EXCEPT !.context = Cleared(@)]
        /\ cur' = Idle \/ UNCHANGED cur
    BY <1>3 DEF CutShort, Reset, Recover, Release
  <2>2. disk'.history = disk.history /\ disk'.context \in {disk.context, EmptyContext, Cleared(disk.context)}
    BY <1>1, <2>1 DEF Shape
  <2> QED BY <2>1, <2>2, IdleGoes, CheckedSound DEF Checked
<1> QED BY <1>2, <1>3

\* The process is started again.
LEMMA CrashSound ==
  ASSUME SummaryInv, StoryInv, StoryInv', CardsInv, Crash
  PROVE  SummaryInv'
<1> DEFINE h == disk.history
           g == disk'.history
           q == Validated(disk'.context, disk'.history).pending
           S == Recorded(q)
           v == View(disk')
           c0 == Holding(q, "streaming")
           c == [c0 EXCEPT !.again = TRUE, !.view = v, !.sent = S]
<1>1. cur' = IF q = None THEN Idle ELSE c BY DEF Crash, Restart
<1>2. HistoryInv(h) /\ h \in Seq(Records) /\ HistoryInv(g) BY DEF StoryInv, OrderInv, HistoryInv, Plain
<1>3. Sound(disk'.context, g)
  <2>1. disk'.context = disk.context /\ (g = h \/ \E r \in Runs : g = Append(h, Tombstone(r))) BY CrashWrites
  <2>2. CASE g = h BY <2>1, <2>2 DEF SummaryInv
  <2>3. ASSUME NEW r \in Runs, g = Append(h, Tombstone(r)) PROVE Sound(disk'.context, g)
    BY TombstoneIs, <1>2, <2>3, AppendGrown, <2>1, SoundGrown DEF SummaryInv
  <2> QED BY <2>1, <2>2, <2>3
<1>4. \A x : ViewOk(v, g, x, TRUE) BY <1>2, <1>3, ViewOpens
<1>5. Keys(c0) BY IdleFlows
<1> HIDE DEF S, v, q, c0
<1>6. c.view = v /\ c.again = TRUE BY <1>5 DEF Keys
<1>7. ~ Viewing(Idle) BY IdleIs DEF Viewing
<1> QED BY <1>1, <1>3, <1>4, <1>6, <1>7 DEF SummaryInv

-----------------------------------------------------------------------------
(* What a run that begins is given.                                        *)

\* Each step keeps the summary sound.
LEMMA SummaryStep ==
  ASSUME SummaryInv, StoryInv, StoryInv', CardsInv, [Next]_vars
  PROVE  SummaryInv'
<1>1. ASSUME NEW r \in Runs, Stop(r) \/ Accept(r) PROVE SummaryInv'
  BY <1>1, AppendsKeep
<1>2. ASSUME NEW r \in Runs, Cancel(r) PROVE SummaryInv'
  BY <1>2, CancelSound
<1>3. ASSUME NEW r \in Runs, Open(r) \/ Reopen(r) PROVE SummaryInv'
  BY <1>3, OpenSound
<1>4. ASSUME NEW r \in Runs, Compact(r) PROVE SummaryInv'
  BY <1>4, CompactSound
<1>5. ASSUME NEW r \in Runs, ClaimCards(r) \/ ShowCard(r) \/ LoseCard(r) PROVE SummaryInv'
  BY <1>5, NoCards
<1>6. ASSUME NEW r \in Runs,
         \/ Post(r) \/ Acquire(r) \/ Refuse(r) \/ StoreFails(r) \/ Dismiss(r)
         \/ Relay(r) \/ RelayLast(r) \/ CompactRefused(r) \/ Failure(r) \/ Patch(r)
         \/ StreamEnds(r) \/ Leave(r) \/ Close(r)
      PROVE SummaryInv'
  BY <1>6, MovesKeep
<1>7. ASSUME Persist PROVE SummaryInv' BY <1>7, AppendsKeep
<1>8. ASSUME PersistFails \/ CutShort \/ Reset \/ Recover PROVE SummaryInv' BY <1>8, SessionMovesKeep
<1>9. ASSUME ManualBegin PROVE SummaryInv' BY <1>9, OpenSound
<1>10. ASSUME ManualEnd PROVE SummaryInv' BY <1>10, CompactSound
<1>11. ASSUME Crash PROVE SummaryInv' BY <1>11, CrashSound
<1>12. CASE UNCHANGED vars BY <1>12, IdleGoes, CheckedSound DEF vars, Checked
<1> QED BY <1>1, <1>2, <1>3, <1>4, <1>5, <1>6, <1>7, <1>8, <1>9, <1>10, <1>11, <1>12 DEF Next

\* In those stories the summary says what its boundary stands for.
THEOREM SummaryAlways == OrderlySpec => []SummaryInv
<1>1. Init => SummaryInv
  <2> SUFFICES ASSUME Init PROVE SummaryInv OBVIOUS
  <2>1. disk.context = EmptyContext /\ cur = Idle BY DEF Init, NewDisk
  <2> QED BY <2>1, EmptyIsSound, IdleIs DEF SummaryInv, Viewing
<1>2. SummaryInv /\ StoryInv /\ StoryInv' /\ CardsInv /\ [Next]_vars => SummaryInv' BY SummaryStep
<1> QED BY <1>1, <1>2, StoryAlways, PTL DEF OrderlySpec

\* In those stories a run that begins is given each message of the conversation once and
\* in order.
THEOREM ViewCompleteAlways == OrderlySpec => []ViewComplete
<1>1. StoryInv /\ SummaryInv => ViewComplete
  BY ViewIs DEF StoryInv, OrderInv, SummaryInv, ViewComplete
<1> QED BY <1>1, StoryAlways, SummaryAlways, PTL

\* In those stories a branch that takes the summary along has the messages it stands for.
THEOREM BranchFaithfulAlways == OrderlySpec => []BranchFaithful
<1>1. StoryInv /\ SummaryInv => BranchFaithful
  <2> SUFFICES ASSUME StoryInv, SummaryInv, NEW r \in Runs, CanBranch(disk, r), Inherits(disk, BranchHistory(disk, r))
               PROVE  IsPrefix(disk.context.said, AllMessages(BranchHistory(disk, r)))
    BY DEF BranchFaithful
  <2> QED BY BranchIs DEF StoryInv, OrderInv, SummaryInv
<1> QED BY <1>1, StoryAlways, SummaryAlways, PTL
=============================================================================

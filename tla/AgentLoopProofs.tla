-------------------------- MODULE AgentLoopProofs --------------------------
(* Proofs about the loop of a turn: what the model is sent, what is executed. *)
EXTENDS AgentLoop, TLAPS, FiniteSetTheorems, SequenceTheorems, WellFoundedInduction

-----------------------------------------------------------------------------
(* The operators.                                                          *)

\* What the constructors build are messages.
LEMMA MessageFacts ==
  ASSUME NEW id \in Nat, NEW calls \in Seq(Call)
  PROVE  Calling(id, calls) \in Message /\ Result(id) \in Message
<1>1. <<>> \in Seq(Call) OBVIOUS
<1> QED BY <1>1 DEF Calling, Result, Message

\* A set of natural numbers has a least one.
LEMMA MinFacts ==
  ASSUME NEW S, S \subseteq Nat, S # {}
  PROVE  Min(S) \in S /\ \A y \in S : Min(S) <= y
<1>1. PICK x \in S : \A y \in S : ~ (<<y, x>> \in OpToRel(<, Nat))
  BY NatLessThanWellFounded, WFMin
<1>2. \A y \in S : x <= y
  <2> SUFFICES ASSUME NEW y \in S, ~ (x <= y) PROVE FALSE OBVIOUS
  <2>1. y \in Nat /\ x \in Nat /\ y < x OBVIOUS
  <2> QED BY <1>1, <2>1 DEF OpToRel
<1> QED BY <1>2 DEF Min

\* Rounds that are given back to the tail leave a cut that was one already.
LEMMA CutAfterIsCut ==
  ASSUME NEW ms \in Seq(Message), NEW cut \in Cuts(ms), NEW k \in 0..2
  PROVE  CutAfter(ms, cut, k) \in Cuts(ms)
<1> DEFINE Before(i) == {j \in Cuts(ms) : i <= j /\ j <= cut}
           Earlier == {i \in Cuts(ms) : i <= cut /\ Cardinality(Before(i)) <= k + 1}
<1>1. Cuts(ms) \subseteq Nat BY LenProperties DEF Cuts, RoundStarts
<1>2. Before(cut) = {cut} BY <1>1
<1>3. Cardinality(Before(cut)) = 1 BY <1>2, FS_Singleton
<1>4. cut \in Earlier BY <1>1, <1>3
<1>5. Min(Earlier) \in Earlier BY <1>1, <1>4, MinFacts
<1> QED BY <1>5 DEF CutAfter

\* The two parts of a split are the whole, and the cut begins a round.
LEMMA SplitFacts ==
  ASSUME NEW ms \in Seq(Message), NEW cut \in Cuts(ms), NEW k \in 0..2
  PROVE  LET part == Split(ms, cut, k)
         IN  /\ part.covered \in Seq(Message) /\ part.tail \in Seq(Message)
             /\ part.covered \o part.tail = ms
             /\ \E c \in RoundStarts(ms) : c > 1 /\ c <= Len(ms) /\ part.tail = SubSeq(ms, c, Len(ms))
<1> DEFINE c == CutAfter(ms, cut, k)
<1>1. c \in Cuts(ms) BY CutAfterIsCut
<1>2. c \in RoundStarts(ms) /\ c > 1 BY <1>1 DEF Cuts
<1>3. c \in 1..Len(ms) /\ Len(ms) \in Nat BY <1>2, LenProperties DEF RoundStarts
<1>4. \A i \in 1..Len(ms) : ms[i] \in Message BY LenProperties
<1> HIDE DEF c
<1>5. SubSeq(ms, 1, c - 1) \in Seq(Message) BY <1>3, <1>4, SubSeqProperties
<1>6. SubSeq(ms, c, Len(ms)) \in Seq(Message) BY <1>3, <1>4, SubSeqProperties
<1>7. SubSeq(ms, 1, c - 1) \o SubSeq(ms, c - 1 + 1, Len(ms)) = SubSeq(ms, 1, Len(ms))
  <2>1. 1 \in 1..(Len(ms) + 1) /\ c - 1 \in 1 - 1 .. Len(ms) /\ Len(ms) \in c - 1 .. Len(ms) BY <1>3
  <2> QED BY <2>1, ConcatAdjacentSubSeq
<1>8. SubSeq(ms, 1, c - 1) \o SubSeq(ms, c, Len(ms)) = ms
  BY <1>3, <1>7, SubSeqFull
<1>9. Split(ms, cut, k) = [covered |-> SubSeq(ms, 1, c - 1), tail |-> SubSeq(ms, c, Len(ms))]
  BY DEF Split, Prefix, TailFrom, c
<1> QED BY SMTT(30), <1>2, <1>3, <1>5, <1>6, <1>8, <1>9

-----------------------------------------------------------------------------
(* Pairs of calls and results.                                             *)

\* The first n messages are a conversation a provider takes.
PairedTo(ms, n) ==
  /\ \A i \in 1..n : CallIds(ms[i]) # {} =>
       LET l == Len(ms[i].calls)
       IN  /\ i + l <= n
           /\ \A k \in 1..l : IsResult(ms[i + k])
           /\ {ms[i + k].id : k \in 1..l} = CallIds(ms[i])
  /\ \A i \in 1..n : IsResult(ms[i]) =>
       \E j \in 1..(i - 1) : i - j <= Len(ms[j].calls) /\ ms[i].id \in CallIds(ms[j])

\* Well paired is paired to its end.
LEMMA PairedToAll ==
  ASSUME NEW ms \in Seq(Message)
  PROVE  WellPaired(ms) <=> PairedTo(ms, Len(ms))
<1>1. DOMAIN ms = 1..Len(ms) OBVIOUS
<1> QED BY <1>1, Zenon DEF WellPaired, PairedTo

\* Only a message that calls has call ids, as many at most as calls.
LEMMA CallFacts ==
  ASSUME NEW m \in Message
  PROVE  /\ Len(m.calls) \in Nat /\ DOMAIN m.calls = 1..Len(m.calls)
         /\ Len(m.calls) >= 1 => CallIds(m) # {}
         /\ CallIds(m) = {m.calls[k].id : k \in 1..Len(m.calls)}
<1>1. m.calls \in Seq(Call) BY DEF Message
<1>2. Len(m.calls) \in Nat /\ DOMAIN m.calls = 1..Len(m.calls) BY <1>1, LenProperties
<1>3. CallIds(m) = {m.calls[k].id : k \in 1..Len(m.calls)} BY <1>2 DEF CallIds
<1>4. Len(m.calls) >= 1 => m.calls[1].id \in CallIds(m) BY <1>2, <1>3
<1> QED BY <1>2, <1>3, <1>4

\* A conversation that is cut where a round begins is one behind the cut.
LEMMA TailPaired ==
  ASSUME NEW ms \in Seq(Message), WellPaired(ms), NEW c \in RoundStarts(ms)
  PROVE  WellPaired(SubSeq(ms, c, Len(ms)))
<1> DEFINE t == SubSeq(ms, c, Len(ms))
           n == Len(ms) - c + 1
<1>1. c \in 1..Len(ms) /\ Len(ms) \in Nat BY LenProperties DEF RoundStarts
<1>2. \A i \in 1..Len(ms) : ms[i] \in Message BY LenProperties
<1>3. t \in Seq(Message) /\ Len(t) = n /\ \A i \in 1..n : t[i] = ms[c + i - 1]
  BY <1>1, <1>2, SubSeqProperties
<1>4. PairedTo(ms, Len(ms)) BY PairedToAll
<1> HIDE DEF t
<1>5. ASSUME NEW i \in 1..n, CallIds(t[i]) # {}
      PROVE  LET l == Len(t[i].calls)
             IN  /\ i + l <= n
                 /\ \A k \in 1..l : IsResult(t[i + k])
                 /\ {t[i + k].id : k \in 1..l} = CallIds(t[i])
  <2> DEFINE l == Len(t[i].calls)
             d == c + i - 1
  <2>1. d \in 1..Len(ms) /\ t[i] = ms[d] BY <1>1, <1>3
  <2>2. l \in Nat BY <2>1, <1>2, CallFacts
  <2>3. /\ d + l <= Len(ms) /\ \A k \in 1..l : IsResult(ms[d + k])
        /\ {ms[d + k].id : k \in 1..l} = CallIds(ms[d])
    BY <1>4, <1>5, <2>1 DEF PairedTo
  <2>4. \A k \in 1..l : i + k \in 1..n /\ t[i + k] = ms[d + k]
    <3> TAKE k \in 1..l
    <3>1. i + k \in 1..n BY <1>1, <2>2, <2>3
    <3>2. c + (i + k) - 1 = d + k BY <1>1, <2>2
    <3> QED BY <1>3, <3>1, <3>2
  <2>5. i + l <= n BY <1>1, <2>2, <2>3
  <2>6. {t[i + k].id : k \in 1..l} = {ms[d + k].id : k \in 1..l} BY <2>4
  <2> QED BY <2>1, <2>3, <2>4, <2>5, <2>6
<1>6. ASSUME NEW i \in 1..n, IsResult(t[i])
      PROVE  \E j \in 1..(i - 1) : i - j <= Len(t[j].calls) /\ t[i].id \in CallIds(t[j])
  <2> DEFINE d == c + i - 1
  <2>1. d \in 1..Len(ms) /\ t[i] = ms[d] BY <1>1, <1>3
  <2>2. PICK j \in 1..(d - 1) : d - j <= Len(ms[j].calls) /\ ms[d].id \in CallIds(ms[j])
    BY <1>4, <1>6, <2>1 DEF PairedTo
  <2>3. j \in 1..Len(ms) /\ CallIds(ms[j]) # {} /\ Len(ms[j].calls) \in Nat
    BY <2>1, <2>2, <1>1, <1>2, CallFacts
  <2>4. \A k \in 1..Len(ms[j].calls) : IsResult(ms[j + k]) BY <1>4, <2>3 DEF PairedTo
  <2>5. j >= c
    <3> SUFFICES ASSUME j < c PROVE FALSE BY <1>1, <2>3
    <3>1. \A k \in (j + 1)..c : IsResult(ms[k])
      <4> TAKE k \in (j + 1)..c
      <4>1. k - j \in 1..Len(ms[j].calls) /\ j + (k - j) = k BY <1>1, <2>1, <2>2, <2>3
      <4> QED BY <4>1, <2>4
    <3>2. c \in (j + 1)..c /\ j \in 1..(c - 1) BY <1>1, <2>3
    <3> QED BY <3>1, <3>2, <2>3 DEF RoundStarts
  <2>6. j - c + 1 \in 1..(i - 1) /\ j - c + 1 \in 1..n /\ i - (j - c + 1) = d - j /\ c + (j - c + 1) - 1 = j
    BY <1>1, <2>1, <2>2, <2>5
  <2>7. t[j - c + 1] = ms[j] BY <1>3, <2>6
  <2> QED BY <2>1, <2>2, <2>6, <2>7
<1>7. PairedTo(t, n) BY <1>5, <1>6 DEF PairedTo
<1> QED BY <1>3, <1>7, PairedToAll DEF t

\* In the middle of a round, before its a-th call: all is paired but the message that
\* calls, and the results of the earlier calls are behind it, in order.
MidRound(ms, b, a) ==
  LET w == Len(ms) - a
  IN  /\ w \in Nat /\ PairedTo(ms, w)
      /\ ~ IsResult(ms[w + 1]) /\ ms[w + 1].calls = b
      /\ \A k \in 1..(a - 1) : ms[w + 1 + k] = Result(b[k].id)

\* What is paired stays so when something else changes.
LEMMA PairedToSame ==
  ASSUME NEW n \in Nat, NEW ms, NEW ns, \A i \in 1..n : ms[i] = ns[i], PairedTo(ms, n),
         \A i \in 1..n : ms[i] \in Message
  PROVE  PairedTo(ns, n)
<1>1. ASSUME NEW i \in 1..n, CallIds(ns[i]) # {}
      PROVE  LET l == Len(ns[i].calls)
             IN  /\ i + l <= n
                 /\ \A k \in 1..l : IsResult(ns[i + k])
                 /\ {ns[i + k].id : k \in 1..l} = CallIds(ns[i])
  <2> DEFINE l == Len(ms[i].calls)
  <2>1. l \in Nat BY CallFacts
  <2>2. /\ i + l <= n /\ \A k \in 1..l : IsResult(ms[i + k])
        /\ {ms[i + k].id : k \in 1..l} = CallIds(ms[i])
    BY <1>1 DEF PairedTo
  <2>3. \A k \in 1..l : i + k \in 1..n BY <2>1, <2>2
  <2>4. \A k \in 1..l : ms[i + k] = ns[i + k] BY <2>3
  <2> QED BY <2>2, <2>4
<1>2. ASSUME NEW i \in 1..n, IsResult(ns[i])
      PROVE  \E j \in 1..(i - 1) : i - j <= Len(ns[j].calls) /\ ns[i].id \in CallIds(ns[j])
  <2>1. PICK j \in 1..(i - 1) : i - j <= Len(ms[j].calls) /\ ms[i].id \in CallIds(ms[j])
    BY <1>2 DEF PairedTo
  <2>2. j \in 1..n OBVIOUS
  <2> QED BY <2>1, <2>2
<1> QED BY <1>1, <1>2 DEF PairedTo

\* The message that calls begins a round.
LEMMA RoundBegins ==
  ASSUME NEW ms \in Seq(Message), WellPaired(ms), NEW id \in Nat, NEW b \in Seq(Call)
  PROVE  MidRound(Append(ms, Calling(id, b)), b, 1)
<1> DEFINE m == Calling(id, b)
           ns == Append(ms, m)
<1>1. m \in Message BY MessageFacts
<1>2. Len(ms) \in Nat /\ \A i \in 1..Len(ms) : ms[i] \in Message BY LenProperties
<1>3. Len(ns) = Len(ms) + 1 /\ ns[Len(ms) + 1] = m /\ \A i \in 1..Len(ms) : ns[i] = ms[i]
  BY <1>1, AppendProperties
<1>4. PairedTo(ns, Len(ms)) BY <1>2, <1>3, PairedToAll, PairedToSame
<1>5. ~ IsResult(m) /\ m.calls = b BY DEF IsResult, Calling
<1> HIDE DEF m, ns
<1>6. Len(ns) - 1 = Len(ms) BY <1>2, <1>3
<1>7. MidRound(ns, b, 1) BY <1>2, <1>3, <1>4, <1>5, <1>6 DEF MidRound
<1> QED BY <1>7 DEF ns, m

\* What a result changes in the middle of a round.
LEMMA ResultFacts ==
  ASSUME NEW ms \in Seq(Message), NEW b \in Seq(Call), NEW a \in 1..Len(b), MidRound(ms, b, a)
  PROVE  LET ns == Append(ms, Result(b[a].id))
             w == Len(ms) - a
         IN  /\ ns \in Seq(Message) /\ Len(ns) = Len(ms) + 1
             /\ w \in Nat /\ PairedTo(ns, w) /\ ~ IsResult(ns[w + 1]) /\ ns[w + 1].calls = b
             /\ \A k \in 1..a : ns[w + 1 + k] = Result(b[k].id)
<1> DEFINE m == Result(b[a].id)
           ns == Append(ms, m)
           w == Len(ms) - a
<1>1. Len(b) \in Nat /\ b[a] \in Call BY LenProperties
<1>2. m \in Message BY <1>1, MessageFacts, EmptySeq DEF Call
<1>3. Len(ms) \in Nat /\ \A i \in 1..Len(ms) : ms[i] \in Message BY LenProperties
<1> HIDE DEF m
<1>4. ns \in Seq(Message) /\ Len(ns) = Len(ms) + 1 /\ ns[Len(ms) + 1] = m /\ \A i \in 1..Len(ms) : ns[i] = ms[i]
  BY <1>2, AppendProperties
<1> HIDE DEF ns
<1>5. w \in Nat /\ w + a = Len(ms) /\ PairedTo(ms, w) BY <1>1, <1>3 DEF MidRound
<1> HIDE DEF w
<1>6. PairedTo(ns, w)
  <2>1. \A i \in 1..w : i \in 1..Len(ms) BY <1>1, <1>3, <1>5
  <2>2. \A i \in 1..w : ms[i] = ns[i] /\ ms[i] \in Message BY <2>1, <1>3, <1>4
  <2> QED BY <2>2, <1>5, PairedToSame
<1>7. w + 1 \in 1..Len(ms) BY <1>5, <1>1
<1>8. ns[w + 1] = ms[w + 1] BY <1>4, <1>7
<1>9. ASSUME NEW k \in 1..a PROVE ns[w + 1 + k] = Result(b[k].id)
  <2>1. CASE k = a BY <2>1, <1>1, <1>4, <1>5 DEF m
  <2>2. CASE k \in 1..(a - 1)
    <3>1. w + 1 + k \in 1..Len(ms) BY <2>2, <1>1, <1>5
    <3>2. ms[w + 1 + k] = Result(b[k].id) BY <2>2 DEF MidRound, w
    <3> QED BY <3>1, <3>2, <1>4
  <2> QED BY <2>1, <2>2, <1>1
<1>10. ~ IsResult(ns[w + 1]) /\ ns[w + 1].calls = b BY <1>8 DEF MidRound, w
<1> QED BY <1>4, <1>5, <1>6, <1>9, <1>10 DEF ns, m, w

\* The result of a call that is not the last: the round goes on.
LEMMA RoundGoesOn ==
  ASSUME NEW ms \in Seq(Message), NEW b \in Seq(Call), NEW a \in 1..Len(b), MidRound(ms, b, a)
  PROVE  MidRound(Append(ms, Result(b[a].id)), b, a + 1)
<1> DEFINE ns == Append(ms, Result(b[a].id))
           w == Len(ms) - a
<1>1. Len(b) \in Nat /\ Len(ms) \in Nat BY LenProperties
<1>2. /\ ns \in Seq(Message) /\ Len(ns) = Len(ms) + 1
      /\ w \in Nat /\ PairedTo(ns, w) /\ ~ IsResult(ns[w + 1]) /\ ns[w + 1].calls = b
      /\ \A k \in 1..a : ns[w + 1 + k] = Result(b[k].id)
  BY ResultFacts
<1> HIDE DEF ns
<1>3. Len(ns) - (a + 1) = Len(ms) - a /\ a + 1 - 1 = a BY <1>1, <1>2
<1>4. MidRound(ns, b, a + 1) BY <1>2, <1>3 DEF MidRound
<1> QED BY <1>4 DEF ns

\* The result of the last call: the conversation is one a provider takes.
LEMMA RoundEnds ==
  ASSUME NEW ms \in Seq(Message), NEW b \in Seq(Call), NEW a \in 1..Len(b), a = Len(b), MidRound(ms, b, a)
  PROVE  WellPaired(Append(ms, Result(b[a].id)))
<1> DEFINE ns == Append(ms, Result(b[a].id))
           w == Len(ms) - a
<1>1. Len(b) \in Nat /\ Len(ms) \in Nat BY LenProperties
<1>2. /\ ns \in Seq(Message) /\ Len(ns) = Len(ms) + 1
      /\ w \in Nat /\ PairedTo(ns, w) /\ ~ IsResult(ns[w + 1]) /\ ns[w + 1].calls = b
      /\ \A k \in 1..a : ns[w + 1 + k] = Result(b[k].id)
  BY ResultFacts
<1> HIDE DEF ns
<1>3. Len(ns) = w + 1 + a BY <1>1, <1>2
<1>4. \A i \in 1..Len(ns) : ns[i] \in Message BY <1>2, LenProperties
<1> HIDE DEF w
<1>5. CallIds(ns[w + 1]) = {b[k].id : k \in 1..a}
  <2>1. DOMAIN b = 1..a BY LenProperties
  <2> QED BY <2>1, <1>2 DEF CallIds
<1>6. \A k \in 1..a : IsResult(ns[w + 1 + k]) /\ ns[w + 1 + k].id = b[k].id /\ CallIds(ns[w + 1 + k]) = {}
  <2> TAKE k \in 1..a
  <2>1. ns[w + 1 + k] = [role |-> "tool", id |-> b[k].id, text |-> TRUE, calls |-> <<>>]
    BY <1>2 DEF Result
  <2>2. CallIds(ns[w + 1 + k]) = {} BY <2>1 DEF CallIds
  <2>3. ns[w + 1 + k].role = "tool" /\ ns[w + 1 + k].id = b[k].id BY <2>1
  <2> QED BY <2>2, <2>3 DEF IsResult
<1>7. \A i \in 1..Len(ns) : i \in 1..w \/ i = w + 1 \/ \E k \in 1..a : i = w + 1 + k
  <2> SUFFICES ASSUME NEW i \in 1..Len(ns), i > w + 1 PROVE \E k \in 1..a : i = w + 1 + k
    BY <1>2, <1>3
  <2>1. i - w - 1 \in 1..a /\ i = w + 1 + (i - w - 1) BY <1>2, <1>3
  <2> QED BY <2>1
<1>8. ASSUME NEW i \in 1..Len(ns), CallIds(ns[i]) # {}
      PROVE  LET l == Len(ns[i].calls)
             IN  /\ i + l <= Len(ns)
                 /\ \A k \in 1..l : IsResult(ns[i + k])
                 /\ {ns[i + k].id : k \in 1..l} = CallIds(ns[i])
  <2>1. CASE i \in 1..w
    <3>1. Len(ns[i].calls) \in Nat BY <1>4, CallFacts
    <3>2. LET l == Len(ns[i].calls)
          IN  /\ i + l <= w
              /\ \A k \in 1..l : IsResult(ns[i + k])
              /\ {ns[i + k].id : k \in 1..l} = CallIds(ns[i])
      BY <2>1, <1>2, <1>8 DEF PairedTo
    <3> QED BY <3>1, <3>2, <1>2, <1>3
  <2>2. CASE i = w + 1
    <3>1. Len(ns[i].calls) = a BY <2>2, <1>2
    <3>2. {ns[w + 1 + k].id : k \in 1..a} = {b[k].id : k \in 1..a}
      <4>1. \A k \in 1..a : ns[w + 1 + k].id = b[k].id BY <1>6
      <4> QED BY <4>1
    <3>3. \A k \in 1..a : IsResult(ns[w + 1 + k]) BY <1>6
    <3>4. w + 1 + a <= Len(ns) BY <1>1, <1>2, <1>3
    <3> QED BY <2>2, <3>1, <3>2, <3>3, <3>4, <1>5
  <2> QED BY <2>1, <2>2, <1>6, <1>7, <1>8
<1>9. ASSUME NEW i \in 1..Len(ns), IsResult(ns[i])
      PROVE  \E j \in 1..(i - 1) : i - j <= Len(ns[j].calls) /\ ns[i].id \in CallIds(ns[j])
  <2>1. CASE i \in 1..w BY <2>1, <1>2, <1>9 DEF PairedTo
  <2>2. ASSUME NEW k \in 1..a, i = w + 1 + k
        PROVE  \E j \in 1..(i - 1) : i - j <= Len(ns[j].calls) /\ ns[i].id \in CallIds(ns[j])
    <3>1. w + 1 \in 1..(i - 1) /\ i - (w + 1) = k BY <2>2, <1>1, <1>2
    <3>2. Len(ns[w + 1].calls) = a /\ ns[i].id \in CallIds(ns[w + 1]) BY <2>2, <1>2, <1>5, <1>6
    <3>3. i - (w + 1) <= Len(ns[w + 1].calls) BY <3>1, <3>2, <1>1
    <3> QED BY <3>1, <3>2, <3>3
  <2> QED BY <2>1, <2>2, <1>2, <1>7, <1>9
<1>10. PairedTo(ns, Len(ns)) BY <1>8, <1>9 DEF PairedTo
<1> QED BY <1>2, <1>10, PairedToAll DEF ns, w

-----------------------------------------------------------------------------
(* The repair of a history.                                                *)

\* The n-th place is p[n], in their order, and each of them is some p[n].
PlacesAre(places, c, p) ==
  /\ p \in [1..c -> places]
  /\ \A i \in places : \E n \in 1..c : p[n] = i
  /\ \A m, n \in 1..c : m < n <=> p[m] < p[n]

\* A list along these places.
Along(s, c, p) == [n \in 1..c |-> s[p[n]]]

\* What is picked is the list along the places.
LEMMA PickedFacts ==
  ASSUME NEW s, NEW l \in Nat, NEW places, places \subseteq 1..l
  PROVE  \E c \in Nat : \E p : PlacesAre(places, c, p) /\ Picked(s, places) = Along(s, c, p)
<1> DEFINE c == Cardinality(places)
           Below(i) == {j \in places : j < i}
           rank == [i \in places |-> Cardinality(Below(i)) + 1]
           p == [n \in 1..c |-> CHOOSE i \in places : Cardinality(Below(i)) = n - 1]
<1>1. IsFiniteSet(places) /\ c \in Nat
  <2>0. IsFiniteSet(1..l) BY FS_Interval
  <2>1. IsFiniteSet(places) BY <2>0, FS_Subset
  <2> QED BY <2>1, FS_CardinalityType
<1>2. ASSUME NEW i \in places PROVE Cardinality(Below(i)) \in 0..(c - 1)
  <2>1. Below(i) \in SUBSET places /\ i \notin Below(i) OBVIOUS
  <2>2. IsFiniteSet(Below(i)) /\ Cardinality(Below(i)) <= c /\ Cardinality(Below(i)) # c
    BY <1>1, <2>1, FS_Subset
  <2>3. Cardinality(Below(i)) \in Nat BY <2>2, FS_CardinalityType
  <2> QED BY <1>1, <2>2, <2>3
<1>3. ASSUME NEW i \in places, NEW k \in places, i < k
      PROVE  Cardinality(Below(i)) < Cardinality(Below(k))
  <2>1. Below(i) \in SUBSET Below(k) /\ i \in Below(k) /\ i \notin Below(i) /\ Below(k) \in SUBSET places
    <3>1. \A j \in places : j < i => j < k BY <1>3
    <3>2. ~ (i < i) OBVIOUS
    <3> QED BY <1>3, <3>1, <3>2
  <2>2. IsFiniteSet(Below(k)) BY <1>1, <2>1, FS_Subset
  <2>3. Cardinality(Below(i)) <= Cardinality(Below(k)) /\ Cardinality(Below(i)) # Cardinality(Below(k))
    BY <2>1, <2>2, FS_Subset
  <2>4. Cardinality(Below(i)) \in 0..(c - 1) /\ Cardinality(Below(k)) \in 0..(c - 1) BY <1>2
  <2> QED BY <1>1, <2>3, <2>4
<1>4. rank \in Injection(places, 1..c)
  <2>1. rank \in [places -> 1..c] BY <1>1, <1>2
  <2>2. \A i, k \in places : rank[i] = rank[k] => i = k
    <3> SUFFICES ASSUME NEW i \in places, NEW k \in places, rank[i] = rank[k], i < k PROVE FALSE
      OBVIOUS
    <3>1. Cardinality(Below(i)) \in Int /\ Cardinality(Below(k)) \in Int BY <1>1, <1>2
    <3> QED BY <1>3, <3>1
  <2> QED BY <2>1, <2>2 DEF Injection, IsInjective
<1>5. rank \in Surjection(places, 1..c)
  <2>1. IsFiniteSet(1..c) /\ Cardinality(1..c) = c BY <1>1, FS_Interval
  <2> QED BY <1>4, <2>1, FS_Injection
<1>6. \A n \in 1..c : p[n] \in places /\ Cardinality(Below(p[n])) = n - 1
  <2> SUFFICES ASSUME NEW n \in 1..c PROVE p[n] \in places /\ Cardinality(Below(p[n])) = n - 1
    OBVIOUS
  <2>1. PICK i \in places : rank[i] = n BY <1>5 DEF Surjection
  <2>2. Cardinality(Below(i)) = n - 1 BY <1>1, <1>2, <2>1
  <2> QED BY <2>2
<1>7. \A m, n \in 1..c : m < n <=> p[m] < p[n]
  <2> SUFFICES ASSUME NEW m \in 1..c, NEW n \in 1..c PROVE m < n <=> p[m] < p[n]
    OBVIOUS
  <2>1. /\ p[m] \in places /\ p[n] \in places
        /\ Cardinality(Below(p[m])) = m - 1 /\ Cardinality(Below(p[n])) = n - 1
    BY <1>6
  <2>2. p[m] \in 1..l /\ p[n] \in 1..l BY <2>1
  <2> HIDE DEF p
  <2>3. CASE p[m] < p[n]
    <3>1. Cardinality(Below(p[m])) < Cardinality(Below(p[n])) BY <1>3, <2>1, <2>3
    <3>2. m - 1 < n - 1 BY <2>1, <3>1
    <3> QED BY <2>3, <3>2
  <2>4. CASE p[n] < p[m]
    <3>1. Cardinality(Below(p[n])) < Cardinality(Below(p[m])) BY <1>3, <2>1, <2>4
    <3>2. n - 1 < m - 1 BY <2>1, <3>1
    <3> QED BY <2>2, <2>4, <3>2
  <2>5. CASE p[m] = p[n]
    <3>1. m - 1 = n - 1 BY <2>1, <2>5
    <3> QED BY <2>2, <2>5, <3>1
  <2> QED BY <2>2, <2>3, <2>4, <2>5
<1>8. \A i \in places : \E n \in 1..c : p[n] = i
  <2> SUFFICES ASSUME NEW i \in places PROVE \E n \in 1..c : p[n] = i
    OBVIOUS
  <2>1. rank[i] \in 1..c /\ rank[i] - 1 = Cardinality(Below(i)) BY <1>1, <1>2
  <2>2. p[rank[i]] \in places /\ Cardinality(Below(p[rank[i]])) = Cardinality(Below(i)) BY <1>6, <2>1
  <2>3. p[rank[i]] = i
    <3>1. Cardinality(Below(i)) \in Int BY <1>1, <1>2
    <3> DEFINE q == p[rank[i]]
    <3>2. q \in places /\ Cardinality(Below(q)) = Cardinality(Below(i)) BY <2>2
    <3> HIDE DEF q
    <3>3. ~ (q < i)
      <4> SUFFICES ASSUME q < i PROVE FALSE OBVIOUS
      <4>1. Cardinality(Below(q)) < Cardinality(Below(i)) BY <1>3, <3>2
      <4> QED BY <3>1, <3>2, <4>1
    <3>4. ~ (i < q)
      <4> SUFFICES ASSUME i < q PROVE FALSE OBVIOUS
      <4>1. Cardinality(Below(i)) < Cardinality(Below(q)) BY <1>3, <3>2
      <4> QED BY <3>1, <3>2, <4>1
    <3>5. q = i BY <3>2, <3>3, <3>4
    <3> QED BY <3>5 DEF q
  <2> QED BY <2>1, <2>3
<1>9. p \in [1..c -> places] BY <1>6
<1>10. Picked(s, places) = Along(s, c, p) BY DEF Picked, Along
<1>11. PlacesAre(places, c, p) BY <1>7, <1>8, <1>9 DEF PlacesAre
<1> HIDE DEF c, p
<1> QED BY <1>1, <1>10, <1>11

\* A set without a gap that begins behind j is what its size says.
LEMMA WithoutGap ==
  ASSUME NEW j \in Nat, NEW c \in Nat, NEW J, J \subseteq (j + 1)..c,
         \A n \in J : \A m \in (j + 1)..n : m \in J
  PROVE  Cardinality(J) \in Nat /\ J = (j + 1)..(j + Cardinality(J))
<1> DEFINE N == {x \in Nat : x > j /\ x \notin J}
           m == Min(N)
<1>1. c + j + 1 \in N OBVIOUS
<1>2. m \in N /\ \A x \in N : m <= x BY <1>1, MinFacts
<1> HIDE DEF m
<1>3. J = (j + 1)..(m - 1)
  <2>1. ASSUME NEW x \in (j + 1)..(m - 1) PROVE x \in J
    <3>1. x \notin N BY <1>2
    <3> QED BY <3>1
  <2>2. ASSUME NEW x \in J PROVE x \in (j + 1)..(m - 1)
    <3>1. x \in Nat /\ x > j OBVIOUS
    <3>2. ~ (m <= x)
      <4> SUFFICES ASSUME m <= x PROVE FALSE OBVIOUS
      <4>1. m \in (j + 1)..x BY <1>2, <3>1
      <4>2. m \in J BY <4>1
      <4> QED BY <1>2, <4>2
    <3> QED BY <1>2, <3>1, <3>2
  <2> QED BY <2>1, <2>2
<1>4. m \in Nat /\ m > j BY <1>2
<1>5. Cardinality(J) = m - 1 - j
  <2>1. j + 1 \in Int /\ m - 1 \in Int BY <1>4
  <2>2. Cardinality((j + 1)..(m - 1)) = IF j + 1 > m - 1 THEN 0 ELSE (m - 1) - (j + 1) + 1
    BY <2>1, FS_Interval
  <2> QED BY <1>3, <1>4, <2>2
<1> QED BY <1>3, <1>4, <1>5

\* What is counted along different numbers.
LEMMA AsMany ==
  ASSUME NEW S, NEW T, NEW f, IsFiniteSet(S), f \in [S -> T],
         \A x, y \in S : f[x] = f[y] => x = y, \A t \in T : \E x \in S : f[x] = t
  PROVE  IsFiniteSet(T) /\ Cardinality(T) = Cardinality(S)
<1>1. f \in Injection(S, T) BY DEF Injection, IsInjective
<1>2. f \in Surjection(S, T) BY DEF Surjection
<1> QED BY <1>1, <1>2, FS_Surjection

\* The calls of a message that somebody answered.
Live(ms, m) == CallIds(m) \cap Answered(ms)

\* A message without the calls nobody answered is a message, and calls the others.
LEMMA KeptFacts ==
  ASSUME NEW ms, NEW m \in Message,
         \A k, l \in DOMAIN m.calls : m.calls[k].id = m.calls[l].id => k = l
  PROVE  /\ Kept(ms, m) \in Message /\ Kept(ms, m).role = m.role /\ Kept(ms, m).id = m.id
         /\ CallIds(Kept(ms, m)) = Live(ms, m)
         /\ Len(Kept(ms, m).calls) = Cardinality(Live(ms, m)) /\ IsFiniteSet(Live(ms, m))
<1> DEFINE places == {k \in DOMAIN m.calls : m.calls[k].id \in Answered(ms)}
           picked == Picked(m.calls, places)
<1>1. m.calls \in Seq(Call) BY DEF Message
<1>2. Len(m.calls) \in Nat /\ DOMAIN m.calls = 1..Len(m.calls) /\ \A k \in 1..Len(m.calls) : m.calls[k] \in Call
  BY <1>1, LenProperties
<1>a. PICK c \in Nat : \E p : PlacesAre(places, c, p) /\ picked = Along(m.calls, c, p)
  <2> DEFINE l == Len(m.calls)
             s == m.calls
  <2>1. l \in Nat /\ places \subseteq 1..l BY <1>2
  <2> HIDE DEF places, l, s
  <2>2. \E c \in Nat : \E p : PlacesAre(places, c, p) /\ Picked(s, places) = Along(s, c, p)
    BY <2>1, PickedFacts
  <2> QED BY <2>2 DEF s
<1>b. PICK p : PlacesAre(places, c, p) /\ picked = Along(m.calls, c, p) BY <1>a
<1>3. PlacesAre(places, c, p) /\ picked = [n \in 1..c |-> m.calls[p[n]]] BY <1>b DEF Along
<1>4. \A n \in 1..c : p[n] \in places /\ picked[n] = m.calls[p[n]] /\ picked[n] \in Call
  BY <1>2, <1>3 DEF PlacesAre
<1>5. Kept(ms, m) = [m EXCEPT !.calls = picked] BY DEF Kept
<1> HIDE DEF picked
<1>6. picked \in Seq(Call) /\ Len(picked) = c /\ DOMAIN picked = 1..c
  <2>1. picked \in [1..c -> Call] BY <1>3, <1>4
  <2> QED BY <2>1, SMTT(30)
<1>7. Kept(ms, m) \in Message /\ Kept(ms, m).role = m.role /\ Kept(ms, m).id = m.id /\ Kept(ms, m).calls = picked
  BY <1>5, <1>6 DEF Message
<1>8. CallIds(Kept(ms, m)) = {picked[n].id : n \in 1..c} BY <1>6, <1>7 DEF CallIds
<1>9. {picked[n].id : n \in 1..c} = Live(ms, m)
  <2>1. ASSUME NEW n \in 1..c PROVE picked[n].id \in Live(ms, m)
    BY <1>4 DEF Live, CallIds
  <2>2. ASSUME NEW d \in Live(ms, m) PROVE \E n \in 1..c : picked[n].id = d
    <3>1. PICK k \in DOMAIN m.calls : m.calls[k].id = d /\ d \in Answered(ms) BY DEF Live, CallIds
    <3>2. k \in places BY <3>1
    <3>3. PICK n \in 1..c : p[n] = k BY <1>3, <3>2 DEF PlacesAre
    <3> QED BY <1>4, <3>1, <3>3
  <2> QED BY <2>1, <2>2
<1>10. IsFiniteSet(Live(ms, m)) /\ Cardinality(Live(ms, m)) = c
  <2> DEFINE f == [n \in 1..c |-> picked[n].id]
  <2>1. IsFiniteSet(1..c) /\ Cardinality(1..c) = c BY FS_Interval
  <2>2. f \in [1..c -> Live(ms, m)] BY <1>9
  <2>3. \A x, y \in 1..c : f[x] = f[y] => x = y
    <3> SUFFICES ASSUME NEW x \in 1..c, NEW y \in 1..c, f[x] = f[y] PROVE x = y OBVIOUS
    <3>1. p[x] = p[y] BY <1>4
    <3>2. ~ (x < y) /\ ~ (y < x)
      <4>1. p[x] \in 1..Len(m.calls) BY <1>2, <1>4
      <4> QED BY <1>3, <3>1, <4>1 DEF PlacesAre
    <3> QED BY <3>2
  <2>4. \A t \in Live(ms, m) : \E x \in 1..c : f[x] = t BY <1>9
  <2> HIDE DEF f
  <2> QED BY <2>1, <2>2, <2>3, <2>4, AsMany
<1> QED BY <1>6, <1>7, <1>8, <1>9, <1>10

\* A call that is announced was made by a message before, and answered.
LEMMA AnnouncedFacts ==
  ASSUME NEW ms, NEW i, NEW d
  PROVE  d \in Announced(ms, i) <=> d \in Answered(ms) /\ \E j \in 1..(i - 1) : d \in CallIds(ms[j])
<1> DEFINE U == UNION {CallIds(ms[j]) : j \in 1..(i - 1)}
<1>1. d \in U <=> \E j \in 1..(i - 1) : d \in CallIds(ms[j])
  <2>1. ASSUME NEW j \in 1..(i - 1), d \in CallIds(ms[j]) PROVE d \in U
    <3>1. CallIds(ms[j]) \in {CallIds(ms[k]) : k \in 1..(i - 1)} OBVIOUS
    <3> QED BY <2>1, <3>1
  <2>2. ASSUME d \in U PROVE \E j \in 1..(i - 1) : d \in CallIds(ms[j])
    <3>1. PICK u \in {CallIds(ms[k]) : k \in 1..(i - 1)} : d \in u BY <2>2
    <3> QED BY <3>1
  <2> QED BY <2>1, <2>2
<1>2. Announced(ms, i) = U \cap Answered(ms) BY DEF Announced
<1> HIDE DEF U
<1> QED BY <1>1, <1>2

\* The results of a message's calls.
Theirs(ms, a) == {b \in DOMAIN ms : IsResult(ms[b]) /\ ms[b].id \in CallIds(ms[a])}

\* What becomes of a message that stays.
Repaired(ms) == [i \in DOMAIN ms |-> IF IsResult(ms[i]) THEN ms[i] ELSE Kept(ms, ms[i])]
Staying(ms) == {i \in DOMAIN ms : Stays(ms, i)}

\* As many results as calls that were answered, all of them behind the message, and with
\* them in between nothing that stays but them.
LEMMA TheirsFacts ==
  ASSUME NEW ms, BrokenOffAnywhere(ms), NEW a \in DOMAIN ms, ~ IsResult(ms[a]), IsFiniteSet(Live(ms, ms[a]))
  PROVE  /\ Cardinality(Theirs(ms, a)) = Cardinality(Live(ms, ms[a]))
         /\ {ms[b].id : b \in Theirs(ms, a)} = Live(ms, ms[a])
         /\ \A b \in Theirs(ms, a) : a < b /\ b \in Staying(ms)
         /\ \A b \in Theirs(ms, a), x \in Staying(ms) : a < x /\ x < b => x \in Theirs(ms, a)
<1> DEFINE R == Theirs(ms, a)
           L == Live(ms, ms[a])
<1>0. Len(ms) \in Nat /\ DOMAIN ms = 1..Len(ms) BY LenProperties DEF BrokenOffAnywhere
<1>1. ASSUME NEW b \in R PROVE ms[b].id \in L
  BY DEF Theirs, Live, Answered
<1>2. ASSUME NEW d \in L PROVE \E b \in R : ms[b].id = d
  <2>1. PICK b \in DOMAIN ms : IsResult(ms[b]) /\ ms[b].id = d BY DEF Live, Answered
  <2> QED BY <2>1 DEF Live, Theirs
<1>3. \A b, x \in R : ms[b].id = ms[x].id => b = x BY DEF Theirs, BrokenOffAnywhere
<1>4. {ms[b].id : b \in R} = L BY <1>1, <1>2
<1>5. Cardinality(R) = Cardinality(L)
  <2> DEFINE back == [d \in L |-> CHOOSE b \in R : ms[b].id = d]
  <2>1. \A d \in L : back[d] \in R /\ ms[back[d]].id = d BY <1>2
  <2>2. back \in [L -> R] BY <2>1
  <2>3. \A d, e \in L : back[d] = back[e] => d = e BY <2>1
  <2>4. \A b \in R : \E d \in L : back[d] = b BY <1>1, <1>3, <2>1
  <2> HIDE DEF back, R, L
  <2>5. IsFiniteSet(L) BY DEF L
  <2> QED BY <2>2, <2>3, <2>4, <2>5, AsMany
<1>6. ASSUME NEW b \in R PROVE a < b /\ (\A n \in (a + 1)..b : IsResult(ms[n])) /\ b \in Staying(ms)
  <2>1. IsResult(ms[b]) /\ ms[b].id \in CallIds(ms[a]) /\ b \in DOMAIN ms BY DEF Theirs
  <2>2. a < b /\ \A n \in (a + 1)..b : IsResult(ms[n]) BY <2>1 DEF BrokenOffAnywhere
  <2>3. a \in 1..(b - 1) BY <1>0, <2>1, <2>2
  <2>4. ms[b].id \in Announced(ms, b)
    <3>1. ms[b].id \in Answered(ms) BY <2>1 DEF Answered
    <3> QED BY <2>1, <2>3, <3>1, AnnouncedFacts
  <2> QED BY <2>1, <2>2, <2>4 DEF Staying, Stays
<1>7. ASSUME NEW b \in R, NEW x \in Staying(ms), a < x, x < b PROVE x \in R
  <2>1. b \in 1..Len(ms) /\ x \in 1..Len(ms) /\ a \in 1..Len(ms) BY <1>0 DEF Theirs, Staying
  <2>2. x \in (a + 1)..b BY <1>7, <2>1
  <2>3. IsResult(ms[x]) BY <1>6, <2>2
  <2>4. ms[x].id \in Announced(ms, x) BY <2>3 DEF Staying, Stays
  <2>5. PICK j \in 1..(x - 1) : ms[x].id \in CallIds(ms[j]) BY <2>4, AnnouncedFacts
  <2>6. j \in 1..Len(ms) BY <2>1
  <2>7. \A n \in (j + 1)..x : IsResult(ms[n]) BY <1>0, <2>1, <2>3, <2>5, <2>6 DEF BrokenOffAnywhere
  <2>8. ~ (a \in (j + 1)..x) BY <2>7
  <2>9. a <= j BY <1>7, <2>1, <2>6, <2>8
  <2>10. ~ IsResult(ms[j]) BY <1>0, <2>5, <2>6 DEF BrokenOffAnywhere
  <2>11. ~ (j \in (a + 1)..b) BY <1>6, <2>10
  <2>12. j = a BY <1>7, <2>1, <2>5, <2>6, <2>9, <2>11
  <2> QED BY <1>0, <2>1, <2>3, <2>5, <2>12 DEF Theirs
<1> QED BY <1>4, <1>5, <1>6, <1>7

\* What the repair makes of a message.
LEMMA RepairedFacts ==
  ASSUME NEW ms, BrokenOffAnywhere(ms), NEW i \in DOMAIN ms
  PROVE  /\ Repaired(ms)[i] \in Message /\ Repaired(ms)[i].id = ms[i].id
         /\ IsResult(Repaired(ms)[i]) <=> IsResult(ms[i])
         /\ IsResult(ms[i]) => CallIds(Repaired(ms)[i]) = {}
         /\ ~ IsResult(ms[i]) => /\ CallIds(Repaired(ms)[i]) = Live(ms, ms[i])
                                 /\ Len(Repaired(ms)[i].calls) = Cardinality(Live(ms, ms[i]))
                                 /\ IsFiniteSet(Live(ms, ms[i]))
<1>1. ms \in Seq(Message) /\ ms[i] \in Message BY ElementOfSeq, LenProperties DEF BrokenOffAnywhere
<1>2. CASE IsResult(ms[i])
  <2>1. CallIds(ms[i]) = {} BY <1>2 DEF BrokenOffAnywhere
  <2> QED BY <1>1, <1>2, <2>1 DEF Repaired
<1>3. CASE ~ IsResult(ms[i])
  <2>1. \A k, l \in DOMAIN ms[i].calls : ms[i].calls[k].id = ms[i].calls[l].id => k = l
    BY DEF BrokenOffAnywhere
  <2>2. Repaired(ms)[i] = Kept(ms, ms[i]) BY <1>3 DEF Repaired
  <2>3. /\ Kept(ms, ms[i]) \in Message /\ Kept(ms, ms[i]).role = ms[i].role /\ Kept(ms, ms[i]).id = ms[i].id
        /\ CallIds(Kept(ms, ms[i])) = Live(ms, ms[i])
        /\ Len(Kept(ms, ms[i]).calls) = Cardinality(Live(ms, ms[i])) /\ IsFiniteSet(Live(ms, ms[i]))
    BY <1>1, <2>1, KeptFacts
  <2> QED BY <1>3, <2>2, <2>3 DEF IsResult
<1> QED BY <1>2, <1>3

\* However the runs of a conversation were broken off, its repair is one a provider takes.
LEMMA RepairPairs ==
  ASSUME NEW ms, BrokenOffAnywhere(ms)
  PROVE  PairToolMessages(ms) \in Seq(Message) /\ WellPaired(PairToolMessages(ms))
<1> DEFINE S == Staying(ms)
           r == Repaired(ms)
           out == PairToolMessages(ms)
<1>1. Len(ms) \in Nat /\ DOMAIN ms = 1..Len(ms) BY LenProperties DEF BrokenOffAnywhere
<1>2. out = Picked(r, S) BY DEF PairToolMessages, Repaired, Staying
<1>3. S \subseteq 1..Len(ms) BY <1>1 DEF Staying
<1> HIDE DEF S, r, out
<1>4. PICK c \in Nat : \E p : PlacesAre(S, c, p) /\ Picked(r, S) = Along(r, c, p)
  BY <1>1, <1>3, PickedFacts
<1>5. PICK p : PlacesAre(S, c, p) /\ Picked(r, S) = Along(r, c, p) BY <1>4
<1>6. out = [n \in 1..c |-> r[p[n]]] BY <1>2, <1>5 DEF Along
<1>7. /\ \A n \in 1..c : p[n] \in S /\ p[n] \in 1..Len(ms)
      /\ \A i \in S : \E n \in 1..c : p[n] = i
      /\ \A m, n \in 1..c : m < n <=> p[m] < p[n]
  BY <1>3, <1>5 DEF PlacesAre
<1>8. ASSUME NEW n \in 1..c
      PROVE  /\ out[n] \in Message /\ out[n].id = ms[p[n]].id
             /\ IsResult(out[n]) <=> IsResult(ms[p[n]])
             /\ IsResult(ms[p[n]]) => CallIds(out[n]) = {}
             /\ ~ IsResult(ms[p[n]]) => /\ CallIds(out[n]) = Live(ms, ms[p[n]])
                                        /\ Len(out[n].calls) = Cardinality(Live(ms, ms[p[n]]))
                                        /\ IsFiniteSet(Live(ms, ms[p[n]]))
  <2>1. p[n] \in DOMAIN ms /\ out[n] = r[p[n]] BY <1>1, <1>6, <1>7
  <2> QED BY <2>1, RepairedFacts DEF r
<1>9. out \in Seq(Message) /\ Len(out) = c /\ DOMAIN out = 1..c
  <2>1. out \in [1..c -> Message] BY <1>6, <1>8
  <2> QED BY <2>1, SMTT(30)
<1>10. ASSUME NEW j \in 1..c, ~ IsResult(ms[p[j]])
       PROVE  LET l == Len(out[j].calls)
              IN  /\ l \in Nat /\ {n \in 1..c : p[n] \in Theirs(ms, p[j])} = (j + 1)..(j + l)
                  /\ {out[j + k].id : k \in 1..l} = CallIds(out[j])
  <2> DEFINE a == p[j]
             R == Theirs(ms, a)
             J == {n \in 1..c : p[n] \in R}
             l == Len(out[j].calls)
  <2>1. a \in DOMAIN ms BY <1>1, <1>7
  <2>2. IsFiniteSet(Live(ms, ms[a])) /\ CallIds(out[j]) = Live(ms, ms[a]) /\ l = Cardinality(Live(ms, ms[a]))
    BY <1>8, <1>10
  <2>3. /\ Cardinality(R) = l /\ {ms[b].id : b \in R} = CallIds(out[j])
        /\ \A b \in R : a < b /\ b \in S
        /\ \A b \in R, x \in S : a < x /\ x < b => x \in R
    BY <1>10, <2>1, <2>2, TheirsFacts DEF S
  <2> HIDE DEF R, l
  <2>4. J \subseteq (j + 1)..c
    <3> SUFFICES ASSUME NEW n \in J PROVE n \in (j + 1)..c OBVIOUS
    <3>1. p[j] < p[n] BY <2>3
    <3> QED BY <1>7, <3>1
  <2>5. \A n \in J : \A m \in (j + 1)..n : m \in J
    <3> SUFFICES ASSUME NEW n \in J, NEW m \in (j + 1)..n, m # n PROVE m \in J OBVIOUS
    <3>1. m \in 1..c /\ j < m /\ m < n OBVIOUS
    <3>2. p[j] < p[m] /\ p[m] < p[n] /\ p[m] \in S BY <1>7, <3>1
    <3> QED BY <2>3, <3>1, <3>2
  <2>6. Cardinality(J) \in Nat /\ J = (j + 1)..(j + Cardinality(J))
    <3> HIDE DEF J
    <3>1. j \in Nat OBVIOUS
    <3> QED BY <2>4, <2>5, <3>1, WithoutGap
  <2>7. Cardinality(R) = Cardinality(J)
    <3> DEFINE f == [n \in J |-> p[n]]
    <3>1. IsFiniteSet(J)
      <4>1. IsFiniteSet(1..c) BY FS_Interval
      <4> QED BY <4>1, FS_Subset
    <3>2. f \in [J -> R] OBVIOUS
    <3>3. \A x, y \in J : f[x] = f[y] => x = y
      <4> SUFFICES ASSUME NEW x \in J, NEW y \in J, p[x] = p[y] PROVE x = y OBVIOUS
      <4>1. ~ (p[x] < p[y]) /\ ~ (p[y] < p[x]) BY <1>7
      <4> QED BY <1>7, <4>1
    <3>4. \A b \in R : \E n \in J : f[n] = b
      <4> SUFFICES ASSUME NEW b \in R PROVE \E n \in J : f[n] = b OBVIOUS
      <4>1. PICK n \in 1..c : p[n] = b BY <1>7, <2>3
      <4> QED BY <4>1
    <3> HIDE DEF f, J
    <3> QED BY <3>1, <3>2, <3>3, <3>4, AsMany
  <2>8. l \in Nat /\ J = (j + 1)..(j + l) BY <2>3, <2>6, <2>7
  <2>9. {out[j + k].id : k \in 1..l} = CallIds(out[j])
    <3>1. ASSUME NEW k \in 1..l PROVE \E b \in R : ms[b].id = out[j + k].id
      <4>1. j + k \in J BY <2>8
      <4>2. out[j + k].id = ms[p[j + k]].id BY <1>8, <4>1
      <4> QED BY <4>1, <4>2
    <3>2. ASSUME NEW b \in R PROVE \E k \in 1..l : out[j + k].id = ms[b].id
      <4>1. PICK n \in 1..c : p[n] = b BY <1>7, <2>3
      <4>2. n \in (j + 1)..(j + l) BY <2>8, <4>1
      <4>3. n - j \in 1..l /\ j + (n - j) = n BY <2>8, <4>2
      <4>4. out[n].id = ms[b].id BY <1>8, <4>1
      <4> QED BY <4>3, <4>4
    <3>3. {out[j + k].id : k \in 1..l} = {ms[b].id : b \in R} BY <3>1, <3>2
    <3> QED BY <2>3, <3>3
  <2> QED BY <2>8, <2>9 DEF l, R
<1>11. ASSUME NEW j \in DOMAIN out, CallIds(out[j]) # {}
       PROVE  LET l == Len(out[j].calls)
              IN  /\ j + l <= Len(out)
                  /\ \A k \in 1..l : IsResult(out[j + k])
                  /\ {out[j + k].id : k \in 1..l} = CallIds(out[j])
  <2> DEFINE l == Len(out[j].calls)
  <2>1. j \in 1..c /\ ~ IsResult(ms[p[j]]) BY <1>8, <1>9, <1>11
  <2>2. /\ l \in Nat /\ {n \in 1..c : p[n] \in Theirs(ms, p[j])} = (j + 1)..(j + l)
        /\ {out[j + k].id : k \in 1..l} = CallIds(out[j])
    BY <1>10, <2>1
  <2> HIDE DEF l
  <2>3. \A k \in 1..l : j + k \in 1..c /\ p[j + k] \in Theirs(ms, p[j])
    <3> TAKE k \in 1..l
    <3>1. j + k \in (j + 1)..(j + l) BY <2>1, <2>2
    <3> QED BY <2>2, <3>1
  <2>4. \A k \in 1..l : IsResult(out[j + k]) BY <1>8, <2>3 DEF Theirs
  <2>5. j + l <= c
    <3>1. CASE l = 0 BY <2>1, <3>1
    <3>2. CASE l # 0
      <4>1. l \in 1..l BY <2>2, <3>2
      <4> QED BY <2>3, <4>1
    <3> QED BY <3>1, <3>2
  <2> QED BY <1>9, <2>2, <2>4, <2>5 DEF l
<1>12. ASSUME NEW i \in DOMAIN out, IsResult(out[i])
       PROVE  \E j \in 1..(i - 1) : i - j <= Len(out[j].calls) /\ out[i].id \in CallIds(out[j])
  <2> DEFINE b == p[i]
  <2>1. i \in 1..c /\ IsResult(ms[b]) /\ b \in S /\ b \in 1..Len(ms) /\ out[i].id = ms[b].id
    BY <1>7, <1>8, <1>9, <1>12
  <2> HIDE DEF b
  <2>2. ms[b].id \in Announced(ms, b) BY <2>1 DEF S, Staying, Stays
  <2>3. PICK a \in 1..(b - 1) : ms[b].id \in CallIds(ms[a]) /\ ms[b].id \in Answered(ms)
    BY <2>2, AnnouncedFacts
  <2>4. a \in DOMAIN ms /\ ~ IsResult(ms[a]) BY <1>1, <2>1, <2>3 DEF BrokenOffAnywhere
  <2>5. a \in S BY <2>3, <2>4 DEF S, Staying, Stays
  <2>6. PICK j \in 1..c : p[j] = a BY <1>7, <2>5
  <2>7. b \in Theirs(ms, a) BY <1>1, <2>1, <2>3 DEF Theirs
  <2>8. i \in {n \in 1..c : p[n] \in Theirs(ms, p[j])} BY <2>1, <2>6, <2>7 DEF b
  <2>9. Len(out[j].calls) \in Nat /\ i \in (j + 1)..(j + Len(out[j].calls))
    BY <1>10, <2>4, <2>6, <2>8
  <2>10. CallIds(out[j]) = Live(ms, ms[a]) BY <1>8, <2>4, <2>6
  <2>11. out[i].id \in CallIds(out[j]) BY <2>1, <2>3, <2>10 DEF Live
  <2>12. j \in 1..(i - 1) /\ i - j <= Len(out[j].calls)
    <3> DEFINE l == Len(out[j].calls)
    <3>1. l \in Nat /\ i \in (j + 1)..(j + l) BY <2>9
    <3> HIDE DEF l
    <3>2. j \in 1..(i - 1) /\ i - j <= l BY <2>1, <3>1
    <3> QED BY <3>2 DEF l
  <2> QED BY <2>11, <2>12
<1>13. WellPaired(out) BY <1>11, <1>12 DEF WellPaired
<1> QED BY <1>9, <1>13 DEF out

\* A new request behind it, it is still a conversation that was broken off.
LEMMA AskedAnew ==
  ASSUME NEW h, BrokenOffAnywhere(h)
  PROVE  BrokenOffAnywhere(Append(h, Request))
<1> DEFINE ms == Append(h, Request)
<1>1. Request = [role |-> "user", id |-> 0, text |-> TRUE, calls |-> <<>>] BY DEF Request, Said
<1>2. Request \in Message
  <2>1. <<>> \in Seq(Call) OBVIOUS
  <2> QED BY <1>1, <2>1 DEF Message
<1>3. ~ IsResult(Request) /\ CallIds(Request) = {} /\ DOMAIN Request.calls = {}
  BY <1>1 DEF IsResult, CallIds
<1>4. h \in Seq(Message) /\ Len(h) \in Nat /\ DOMAIN h = 1..Len(h) BY LenProperties DEF BrokenOffAnywhere
<1>5. /\ ms \in Seq(Message) /\ Len(ms) = Len(h) + 1 /\ ms[Len(h) + 1] = Request
      /\ \A i \in 1..Len(h) : ms[i] = h[i]
  BY <1>2, <1>4, AppendProperties
<1>6. DOMAIN ms = 1..(Len(h) + 1) BY <1>5, LenProperties
<1> HIDE DEF ms
<1>7. \A i \in DOMAIN ms : \/ i \in DOMAIN h /\ ms[i] = h[i]
                           \/ i = Len(h) + 1 /\ ms[i] = Request
  BY <1>4, <1>5, <1>6
<1>8. \A i \in DOMAIN ms : CallIds(ms[i]) # {} => ~ IsResult(ms[i])
  BY <1>3, <1>7 DEF BrokenOffAnywhere
<1>9. \A i, j \in DOMAIN ms : \A k \in DOMAIN ms[i].calls, l \in DOMAIN ms[j].calls :
        ms[i].calls[k].id = ms[j].calls[l].id => i = j /\ k = l
  <2> SUFFICES ASSUME NEW i \in DOMAIN ms, NEW j \in DOMAIN ms, NEW k \in DOMAIN ms[i].calls,
                      NEW l \in DOMAIN ms[j].calls, ms[i].calls[k].id = ms[j].calls[l].id
               PROVE  i = j /\ k = l
    OBVIOUS
  <2>1. i \in DOMAIN h /\ ms[i] = h[i] /\ j \in DOMAIN h /\ ms[j] = h[j] BY <1>3, <1>7
  <2> QED BY <2>1 DEF BrokenOffAnywhere
<1>10. ASSUME NEW i \in DOMAIN ms, IsResult(ms[i])
       PROVE  /\ \A j \in DOMAIN ms : IsResult(ms[j]) /\ ms[j].id = ms[i].id => j = i
              /\ \A j \in DOMAIN ms : ms[i].id \in CallIds(ms[j]) =>
                   j < i /\ \A n \in (j + 1)..i : IsResult(ms[n])
  <2>1. i \in DOMAIN h /\ ms[i] = h[i] /\ IsResult(h[i]) BY <1>3, <1>7, <1>10
  <2>2. ASSUME NEW j \in DOMAIN ms, IsResult(ms[j]), ms[j].id = ms[i].id PROVE j = i
    <3>1. j \in DOMAIN h /\ ms[j] = h[j] BY <1>3, <1>7, <2>2
    <3> QED BY <2>1, <2>2, <3>1 DEF BrokenOffAnywhere
  <2>3. ASSUME NEW j \in DOMAIN ms, ms[i].id \in CallIds(ms[j])
        PROVE  j < i /\ \A n \in (j + 1)..i : IsResult(ms[n])
    <3>1. j \in DOMAIN h /\ ms[j] = h[j] BY <1>3, <1>7, <2>3
    <3>2. j < i /\ \A n \in (j + 1)..i : IsResult(h[n]) BY <2>1, <2>3, <3>1 DEF BrokenOffAnywhere
    <3>3. \A n \in (j + 1)..i : n \in 1..Len(h) BY <1>4, <2>1, <3>1
    <3> QED BY <1>5, <3>2, <3>3
  <2> QED BY <2>2, <2>3
<1>11. BrokenOffAnywhere(ms) BY <1>5, <1>8, <1>9, <1>10 DEF BrokenOffAnywhere
<1> QED BY <1>11 DEF ms

-----------------------------------------------------------------------------
(* Types, the checkpoint and the round.                                    *)

Places == {"idle", "connecting", "observe", "summarise", "squeezed", "proposed", "reason",
           "act", "asked", "perform", "closing"}

Boundary == [kind : {"boundary"}, msgs : Seq(Message), iter : Nat, batch : Seq(Call), at : Nat,
             scope : SUBSET Tools]
Handover == [kind : {"continuation"}, msgs : Seq(Message), covered : Seq(Message), iter : Nat,
             scope : SUBSET Tools, compacts : Nat]
Execution == [id : Nat, tool : Tools, full : BOOLEAN, ok : BOOLEAN]

TypeOK ==
  /\ pc \in Places /\ full \in BOOLEAN /\ tried \in BOOLEAN
  /\ msgs \in Seq(Message) /\ covered \in Seq(Message) /\ past \in Seq(Message)
  /\ batch \in Seq(Call) /\ at \in Nat /\ iter \in Nat /\ compacts \in Nat
  /\ scope \in SUBSET Tools /\ auth \in Nat /\ told \in Nat /\ approved \in SUBSET Nat
  /\ held \in {Nothing} \cup Boundary \cup Handover
  /\ ran \in Seq(Execution)

\* A round has been begun and not ended; or no round is open, and the call goes on.
InRound == pc \in {"act", "asked", "perform"} \/ (pc = "connecting" /\ batch # <<>>)
Between == pc \in {"observe", "summarise", "squeezed", "reason", "proposed"} \/ (pc = "connecting" /\ batch = <<>>)

\* The Access Layer keeps a checkpoint only when no call is open, a continuation only until
\* the call that goes on from it.
HeldSound ==
  /\ pc = "idle" => held = Nothing \/ held \in Boundary
  /\ pc = "proposed" => held \in Handover
  /\ pc \notin {"idle", "proposed"} => held = Nothing

\* A call's number tells at which message its round began and its place in it.
RoundSound(b, a) ==
  /\ a \in 1..Len(b) /\ a <= Len(past)
  /\ \A k \in 1..Len(b) : b[k].id = 10 * (Len(past) - a) + k

RoundInv ==
  /\ InRound => RoundSound(batch, at)
  /\ Between => batch = <<>>
  /\ held \in Boundary => RoundSound(held.batch, held.at)

BaseInv == TypeOK /\ HeldSound /\ RoundInv

\* The kinds of checkpoints are apart.
LEMMA KindsApart ==
  /\ Nothing.kind = "nothing"
  /\ \A h \in Boundary : h.kind = "boundary"
  /\ \A h \in Handover : h.kind = "continuation"
BY DEF Nothing, Boundary, Handover

\* A move that leaves all but the place as it is.
Quiet ==
  /\ UNCHANGED <<window, round, rights, held, book, compacts>>
  /\ pc \notin {"idle", "proposed", "perform"} /\ pc' \in Places \ {"proposed", "perform"} /\ tried' \in BOOLEAN
  /\ (InRound' => InRound) /\ (Between' => Between)

\* A step that leaves the history, the cut and the window where they are.
LEMMA QuietMoves ==
  ASSUME BaseInv, Connect \/ Limit \/ Observe \/ NotSummarised \/ ReasonEnds \/ ActAsks \/ Close
  PROVE  Quiet
<1> USE DEF BaseInv, TypeOK, Quiet, Places, InRound, Between, window, round, rights, limits, book
<1>1. CASE Connect BY <1>1 DEF Connect
<1>2. CASE Limit BY <1>2 DEF Limit
<1>3. CASE Observe BY <1>3 DEF Observe
<1>4. CASE NotSummarised BY <1>4 DEF NotSummarised
<1>5. CASE ReasonEnds BY <1>5 DEF ReasonEnds
<1>6. CASE ActAsks BY <1>6 DEF ActAsks
<1>7. CASE Close BY <1>7 DEF Close
<1> QED BY <1>1, <1>2, <1>3, <1>4, <1>5, <1>6, <1>7

\* A result without an execution.
Answer ==
  /\ pc = "act" /\ Observed
  /\ UNCHANGED <<covered, rights, limits, held, book>>

\* What a step is.
LEMMA Steps ==
  ASSUME BaseInv, Next
  PROVE  \/ Begin \/ (\E d \in {"approve", "deny", "cancelled"} : Resume(d)) \/ Continue \/ Cancel \/ ShowCard
         \/ Quiet \/ Summarised \/ ReasonCalls \/ Answer \/ ActRuns
         \/ \E ok \in BOOLEAN : ToolEnds(ok)
<1>1. CASE ActTold BY <1>1 DEF ActTold, Answer
<1>2. CASE ActRefused BY <1>2 DEF ActRefused, Answer
<1>3. CASE Connect \/ Limit \/ Observe \/ NotSummarised \/ ReasonEnds \/ ActAsks \/ Close
  BY <1>3, QuietMoves
<1> QED BY <1>1, <1>2, <1>3 DEF Next

\* The call of the round that is at hand, and what its result changes.
LEMMA ObservedFacts ==
  ASSUME BaseInv, pc \in {"act", "perform"}, Observed
  PROVE  /\ Current \in Call /\ Result(Current.id) \in Message
         /\ msgs' \in Seq(Message) /\ past' \in Seq(Message) /\ Len(past') = Len(past) + 1
         /\ \/ at = Len(batch) /\ pc' = "observe" /\ batch' = <<>> /\ at' = 0
            \/ at < Len(batch) /\ pc' = "act" /\ batch' = batch /\ at' = at + 1
         /\ iter' \in Nat
<1>1. RoundSound(batch, at) BY DEF BaseInv, RoundInv, InRound
<1>2. at \in 1..Len(batch) /\ Len(batch) \in Nat BY <1>1, LenProperties DEF RoundSound, BaseInv, TypeOK
<1>3. Current \in Call BY <1>2, LenProperties DEF Current, BaseInv, TypeOK
<1>4. Result(Current.id) \in Message BY <1>3, MessageFacts, EmptySeq DEF Call
<1>5. msgs' = Append(msgs, Result(Current.id)) /\ past' = Append(past, Result(Current.id))
  BY DEF Observed
<1>6. msgs' \in Seq(Message) /\ past' \in Seq(Message) /\ Len(past') = Len(past) + 1
  BY <1>4, <1>5, AppendProperties DEF BaseInv, TypeOK
<1>7. \/ at = Len(batch) /\ pc' = "observe" /\ batch' = <<>> /\ at' = 0
      \/ at < Len(batch) /\ pc' = "act" /\ batch' = batch /\ at' = at + 1
  BY <1>2 DEF Observed
<1>8. iter' \in Nat BY DEF Observed, BaseInv, TypeOK
<1> QED BY <1>3, <1>4, <1>6, <1>7, <1>8

\* The calls of a new round have numbers above those of all rounds before.
LEMMA NumberedFacts ==
  ASSUME BaseInv, NEW tools \in Batches
  PROVE  LET b == Numbered(tools)
         IN  /\ b \in Seq(Call) /\ b # <<>> /\ Len(b) >= 1
             /\ \A k \in 1..Len(b) : b[k].id = 10 * Len(past) + k
             /\ Calling(10 * Len(past), b) \in Message
<1>1. tools \in Seq(Tools) /\ tools # <<>> BY LoopAssumption
<1>2. DOMAIN tools = 1..Len(tools) /\ Len(tools) \in Nat /\ Len(tools) >= 1
  BY <1>1, LenProperties, EmptySeq
<1>3. Len(past) \in Nat BY LenProperties DEF BaseInv, TypeOK
<1>4. \A k \in 1..Len(tools) : [id |-> 10 * Len(past) + k, tool |-> tools[k]] \in Call
  BY <1>1, <1>2, <1>3, ElementOfSeq DEF Call
<1>5. Numbered(tools) = [k \in 1..Len(tools) |-> [id |-> 10 * Len(past) + k, tool |-> tools[k]]]
  BY <1>2 DEF Numbered
<1>6. Numbered(tools) \in [1..Len(tools) -> Call] BY <1>4, <1>5
<1>7. Numbered(tools) \in Seq(Call) /\ Len(Numbered(tools)) = Len(tools) BY <1>2, <1>6
<1>8. \A k \in 1..Len(tools) : Numbered(tools)[k].id = 10 * Len(past) + k BY <1>5
<1>9. Numbered(tools) # <<>> BY <1>2, <1>7, EmptySeq
<1>10. Calling(10 * Len(past), Numbered(tools)) \in Message BY <1>3, <1>7, MessageFacts
<1> QED BY <1>2, <1>7, <1>8, <1>9, <1>10

\* The first call with the repaired conversation.
LEMMA BeginFacts ==
  ASSUME Begin
  PROVE  /\ msgs' \in Seq(Message) /\ WellPaired(msgs)' /\ past' = msgs' /\ covered' = <<>>
         /\ Len(msgs') \in Nat
<1>1. PICK h \in Histories : msgs' = PairToolMessages(Append(h, Request)) BY DEF Begin
<1>2. PairToolMessages(Append(h, Request)) \in Seq(Message) /\ WellPaired(PairToolMessages(Append(h, Request)))
  BY HistoryAssumption, AskedAnew, RepairPairs
<1>3. WellPaired(msgs') BY <1>1, <1>2
<1>4. WellPaired(msgs)' BY <1>3 DEF WellPaired
<1> QED BY <1>1, <1>2, <1>4, LenProperties DEF Begin

\* The continuation that a summary makes.
LEMMA SummaryFacts ==
  ASSUME BaseInv, Summarised
  PROVE  /\ held' \in Handover /\ held'.covered \o held'.msgs = covered \o msgs
         /\ held'.scope = scope
         /\ \E c \in RoundStarts(msgs) : c > 1 /\ c <= Len(msgs) /\ held'.msgs = SubSeq(msgs, c, Len(msgs))
<1>1. PICK cut \in Cuts(msgs), k \in 0..2 : held' = Continuation(Split(msgs, cut, k)) BY DEF Summarised
<1> DEFINE part == Split(msgs, cut, k)
<1>2. /\ part.covered \in Seq(Message) /\ part.tail \in Seq(Message)
      /\ part.covered \o part.tail = msgs
      /\ \E c \in RoundStarts(msgs) : c > 1 /\ c <= Len(msgs) /\ part.tail = SubSeq(msgs, c, Len(msgs))
  BY SplitFacts DEF BaseInv, TypeOK
<1> HIDE DEF part
<1>3. covered \in Seq(Message) /\ iter \in Nat /\ scope \in SUBSET Tools /\ compacts \in Nat
  BY DEF BaseInv, TypeOK
<1>4. held' = [kind |-> "continuation", msgs |-> part.tail, covered |-> covered \o part.covered,
               iter |-> iter, scope |-> scope, compacts |-> compacts + 1]
  BY <1>1 DEF Continuation, part
<1>5. covered \o part.covered \in Seq(Message) BY <1>2, <1>3, ConcatProperties
<1>6. (covered \o part.covered) \o part.tail = covered \o (part.covered \o part.tail)
  <2> DEFINE u == part.covered
             v == part.tail
  <2>1. u \in Seq(Message) /\ v \in Seq(Message) BY <1>2
  <2> HIDE DEF u, v
  <2>2. \A a, b, c \in Seq(Message) : (a \o b) \o c = a \o (b \o c) BY ConcatAssociative
  <2>3. (covered \o u) \o v = covered \o (u \o v) BY <2>1, <2>2, <1>3, Zenon
  <2> QED BY <2>3 DEF u, v
<1>7. held' \in Handover BY <1>2, <1>3, <1>4, <1>5 DEF Handover
<1> QED BY <1>2, <1>4, <1>6, <1>7

\* Every step keeps the types.
LEMMA TypeStep ==
  ASSUME BaseInv, [Next]_vars
  PROVE  TypeOK'
<1> USE DEF BaseInv, TypeOK
<1>0. <<>> \in Seq(Message) /\ <<>> \in Seq(Call) /\ <<>> \in Seq(Execution) OBVIOUS
<1>1. CASE Begin BY <1>0, <1>1, BeginFacts DEF Begin, Places, NoCall
<1>2. ASSUME NEW d \in {"approve", "deny", "cancelled"}, Resume(d) PROVE TypeOK'
  <2>1. held \in Boundary BY <1>2, KindsApart DEF HeldSound, Resume
  <2>2. RoundSound(held.batch, held.at) BY <2>1 DEF RoundInv
  <2>3. /\ held.msgs \in Seq(Message) /\ held.batch \in Seq(Call) /\ held.at \in Nat /\ held.iter \in Nat
        /\ held.scope \in SUBSET Tools
    BY <2>1 DEF Boundary
  <2>4. held.batch[held.at] \in Call BY <2>2, <2>3, ElementOfSeq DEF RoundSound
  <2>5. held.batch[held.at].id \in Nat BY <2>4 DEF Call
  <2>6. auth' \in Nat /\ told' \in Nat /\ approved' \in SUBSET Nat BY <1>2, <2>5 DEF Resume, NoCall
  <2> QED BY <1>2, <2>3, <2>6 DEF Resume, Places
<1>3. CASE Continue
  <2>1. held \in Handover BY <1>3 DEF HeldSound, Continue
  <2>2. /\ held.msgs \in Seq(Message) /\ held.covered \in Seq(Message) /\ held.iter \in Nat
        /\ held.scope \in SUBSET Tools /\ held.compacts \in Nat
    BY <2>1 DEF Handover
  <2> QED BY <1>0, <1>3, <2>2 DEF Continue, Places, NoCall, book
<1>4. CASE Cancel BY <1>4 DEF Cancel, Places, window, round, rights, limits, book
<1>5. CASE ShowCard
  <2>1. held' \in Boundary BY <1>5 DEF ShowCard, Boundary
  <2> QED BY <1>5, <2>1 DEF ShowCard, Places, window, round, rights, limits, book
<1>6. CASE Quiet BY <1>6 DEF Quiet, window, round, rights, book
<1>7. CASE Summarised BY <1>7, SummaryFacts DEF Summarised, Places, window, round, rights, book
<1>8. CASE ReasonCalls
  <2>1. PICK tools \in Batches : batch' = Numbered(tools) BY <1>8 DEF ReasonCalls
  <2>2. batch' \in Seq(Call) /\ Calling(10 * Len(past), batch') \in Message BY <2>1, NumberedFacts
  <2>3. msgs' \in Seq(Message) /\ past' \in Seq(Message)
    BY <1>8, <2>2, AppendProperties DEF ReasonCalls
  <2> QED BY <1>8, <2>2, <2>3 DEF ReasonCalls, Places, rights, limits
<1>9. CASE Answer
  <2>1. msgs' \in Seq(Message) /\ past' \in Seq(Message) /\ iter' \in Nat
    BY <1>9, ObservedFacts DEF Answer
  <2>2. \/ pc' = "observe" /\ batch' = <<>> /\ at' = 0
        \/ pc' = "act" /\ batch' = batch /\ at' = at + 1
    BY <1>9, ObservedFacts DEF Answer
  <2>3. batch' \in Seq(Call) /\ at' \in Nat /\ pc' \in Places
    <3>1. CASE pc' = "observe" /\ batch' = <<>> /\ at' = 0 BY <1>0, <3>1 DEF Places
    <3>2. CASE pc' = "act" /\ batch' = batch /\ at' = at + 1
      <4>1. batch' \in Seq(Call) BY <3>2
      <4>2. at' \in Nat BY <3>2
      <4> QED BY <3>2, <4>1, <4>2 DEF Places
    <3> QED BY <3>1, <3>2, <2>2
  <2> QED BY <1>9, <2>1, <2>3 DEF Answer, rights, limits, book
<1>10. CASE ActRuns
  <2>1. RoundSound(batch, at) BY <1>10 DEF RoundInv, InRound, ActRuns
  <2>2. Current \in Call BY <2>1, ElementOfSeq DEF RoundSound, Current
  <2>3. [id |-> Current.id, tool |-> Current.tool, full |-> full, ok |-> FALSE] \in Execution
    BY <2>2 DEF Call, Execution
  <2>4. ran' \in Seq(Execution) BY <1>10, <2>3, AppendProperties DEF ActRuns
  <2> QED BY <1>10, <2>4 DEF ActRuns, Places, window, round, limits, NoCall
<1>11. ASSUME NEW ok \in BOOLEAN, ToolEnds(ok) PROVE TypeOK'
  <2>1. ran' \in Seq(Execution)
    <3>1. \A i \in DOMAIN ran : ran[i] \in Execution BY ElementOfSeq, LenProperties
    <3>2. ran' = [i \in DOMAIN ran |-> IF i = Len(ran) THEN [ran[i] EXCEPT !.ok = ok] ELSE ran[i]]
      BY <1>11 DEF ToolEnds
    <3>3. \A i \in DOMAIN ran : [ran[i] EXCEPT !.ok = ok] \in Execution BY <3>1 DEF Execution
    <3>4. ran' \in [1..Len(ran) -> Execution] /\ Len(ran) \in Nat BY <3>1, <3>2, <3>3, LenProperties
    <3> QED BY SMTT(30), <3>4
  <2>2. scope' \in SUBSET Tools BY <1>11, ToolsAssumption DEF ToolEnds, Effects
  <2>3. msgs' \in Seq(Message) /\ past' \in Seq(Message) /\ iter' \in Nat
    BY <1>11, ObservedFacts DEF ToolEnds
  <2>4. \/ pc' = "observe" /\ batch' = <<>> /\ at' = 0
        \/ pc' = "act" /\ batch' = batch /\ at' = at + 1
    BY <1>11, ObservedFacts DEF ToolEnds
  <2>5. batch' \in Seq(Call) /\ at' \in Nat /\ pc' \in Places
    <3>1. CASE pc' = "observe" /\ batch' = <<>> /\ at' = 0 BY <1>0, <3>1 DEF Places
    <3>2. CASE pc' = "act" /\ batch' = batch /\ at' = at + 1
      <4>1. batch' \in Seq(Call) BY <3>2
      <4>2. at' \in Nat BY <3>2
      <4> QED BY <3>2, <4>1, <4>2 DEF Places
    <3> QED BY <3>1, <3>2, <2>4
  <2> QED BY <1>11, <2>1, <2>2, <2>3, <2>5 DEF ToolEnds, limits
<1>12. CASE UNCHANGED vars BY <1>12 DEF vars, window, round, rights, limits, book
<1> QED BY <1>1, <1>2, <1>3, <1>4, <1>5, <1>6, <1>7, <1>8, <1>9, <1>10, <1>11, <1>12, Steps

\* Nothing is kept once it has been taken up.
LEMMA HeldStep ==
  ASSUME BaseInv, [Next]_vars
  PROVE  HeldSound'
<1> USE DEF BaseInv, HeldSound
<1>1. CASE Begin BY <1>1 DEF Begin
<1>2. ASSUME NEW d \in {"approve", "deny", "cancelled"}, Resume(d) PROVE HeldSound'
  BY <1>2 DEF Resume
<1>3. CASE Continue BY <1>3 DEF Continue
<1>4. CASE Cancel BY <1>4 DEF Cancel
<1>5. CASE ShowCard
  <2>1. held' \in Boundary BY <1>5 DEF ShowCard, Boundary, TypeOK
  <2> QED BY <1>5, <2>1 DEF ShowCard
<1>6. CASE Quiet BY <1>6 DEF Quiet, Places
<1>7. CASE Summarised BY <1>7, SummaryFacts DEF Summarised
<1>8. CASE ReasonCalls BY <1>8 DEF ReasonCalls
<1>9. CASE Answer BY <1>9 DEF Answer, Observed
<1>10. CASE ActRuns BY <1>10 DEF ActRuns
<1>11. ASSUME NEW ok \in BOOLEAN, ToolEnds(ok) PROVE HeldSound' BY <1>11 DEF ToolEnds, Observed
<1>12. CASE UNCHANGED vars BY <1>12 DEF vars
<1> QED BY <1>1, <1>2, <1>3, <1>4, <1>5, <1>6, <1>7, <1>8, <1>9, <1>10, <1>11, <1>12, Steps

\* The round goes on when a result is added.
LEMMA RoundObserved ==
  ASSUME BaseInv, pc \in {"act", "perform"}, Observed, held' = held
  PROVE  RoundInv'
<1>1. RoundSound(batch, at) /\ held = Nothing BY DEF BaseInv, RoundInv, HeldSound, InRound
<1>2. held' \notin Boundary BY <1>1, KindsApart
<1>3. Len(batch) \in Nat /\ Len(past) \in Nat BY LenProperties DEF BaseInv, TypeOK
<1>4. Len(past') = Len(past) + 1 BY ObservedFacts
<1>5. CASE pc' = "observe" /\ batch' = <<>> BY <1>2, <1>5 DEF RoundInv, InRound
<1>6. CASE at < Len(batch) /\ pc' = "act" /\ batch' = batch /\ at' = at + 1
  <2>1. at' \in 1..Len(batch) /\ at' <= Len(past') BY <1>1, <1>3, <1>4, <1>6 DEF RoundSound
  <2>2. Len(past') - at' = Len(past) - at BY <1>1, <1>3, <1>4, <1>6 DEF RoundSound
  <2>3. RoundSound(batch, at)' BY <1>1, <1>6, <2>1, <2>2 DEF RoundSound
  <2> QED BY <1>2, <1>6, <2>3 DEF RoundInv, Between
<1> QED BY <1>5, <1>6, ObservedFacts

\* The numbers of the open round stay true to the messages.
LEMMA RoundStep ==
  ASSUME BaseInv, [Next]_vars
  PROVE  RoundInv'
<1> USE DEF BaseInv
<1>0. Nothing \notin Boundary BY KindsApart
<1>1. CASE Begin BY <1>0, <1>1 DEF Begin, RoundInv, InRound
<1>2. ASSUME NEW d \in {"approve", "deny", "cancelled"}, Resume(d) PROVE RoundInv'
  <2>1. held \in Boundary BY <1>2, KindsApart DEF HeldSound, Resume
  <2>2. RoundSound(held.batch, held.at) BY <2>1 DEF RoundInv
  <2>3. RoundSound(batch, at)' BY <1>2, <2>2 DEF Resume, RoundSound
  <2>4. Len(held.batch) >= 1 /\ held.batch \in Seq(Call)
    BY <2>1, <2>2, LenProperties DEF RoundSound, Boundary
  <2>5. batch' # <<>> BY <1>2, <2>4, EmptySeq DEF Resume
  <2> QED BY <1>0, <1>2, <2>3, <2>5 DEF Resume, RoundInv, Between
<1>3. CASE Continue BY <1>0, <1>3 DEF Continue, RoundInv, InRound
<1>4. CASE Cancel BY <1>0, <1>4 DEF Cancel, RoundInv, InRound, Between
<1>5. CASE ShowCard
  <2>1. RoundSound(batch, at) BY <1>5 DEF ShowCard, RoundInv, InRound
  <2>2. RoundSound(held.batch, held.at)' BY <1>5, <2>1 DEF ShowCard, RoundSound, window, round
  <2> QED BY <1>5, <2>2 DEF ShowCard, RoundInv, InRound, Between
<1>6. CASE Quiet
  <2>1. \A b, a : RoundSound(b, a) => RoundSound(b, a)' BY <1>6 DEF Quiet, RoundSound, window
  <2>2. held' \notin Boundary BY <1>0, <1>6 DEF Quiet, HeldSound
  <2> QED BY <1>6, <2>1, <2>2 DEF Quiet, RoundInv, round, RoundSound, window
<1>7. CASE Summarised
  <2>1. held' \notin Boundary BY <1>7, SummaryFacts, KindsApart
  <2> QED BY <1>7, <2>1 DEF Summarised, RoundInv, InRound, Between, round
<1>8. CASE ReasonCalls
  <2>1. PICK tools \in Batches : batch' = Numbered(tools) BY <1>8 DEF ReasonCalls
  <2>2. /\ batch' \in Seq(Call) /\ Len(batch') >= 1
        /\ \A k \in 1..Len(batch') : batch'[k].id = 10 * Len(past) + k
        /\ Calling(10 * Len(past), batch') \in Message
    BY <2>1, NumberedFacts
  <2>3. Len(past') = Len(past) + 1 /\ Len(past) \in Nat /\ Len(batch') \in Nat
    BY <1>8, <2>2, AppendProperties, LenProperties DEF ReasonCalls, TypeOK
  <2>4. at' = 1 BY <1>8 DEF ReasonCalls
  <2>5. RoundSound(batch, at)' BY <2>2, <2>3, <2>4 DEF RoundSound
  <2>6. held' \notin Boundary BY <1>0, <1>8 DEF ReasonCalls, HeldSound
  <2> QED BY <1>8, <2>5, <2>6 DEF ReasonCalls, RoundInv, Between
<1>9. CASE Answer BY <1>9, RoundObserved DEF Answer
<1>10. CASE ActRuns
  <2>1. RoundSound(batch, at) BY <1>10 DEF ActRuns, RoundInv, InRound
  <2>2. RoundSound(batch, at)' BY <1>10, <2>1 DEF ActRuns, RoundSound, window, round
  <2>3. held' \notin Boundary BY <1>0, <1>10 DEF ActRuns, HeldSound
  <2> QED BY <1>10, <2>2, <2>3 DEF ActRuns, RoundInv, Between
<1>11. ASSUME NEW ok \in BOOLEAN, ToolEnds(ok) PROVE RoundInv' BY <1>11, RoundObserved DEF ToolEnds
<1>12. CASE UNCHANGED vars
  BY <1>12 DEF vars, RoundInv, InRound, Between, RoundSound, window, round
<1> QED BY <1>1, <1>2, <1>3, <1>4, <1>5, <1>6, <1>7, <1>8, <1>9, <1>10, <1>11, <1>12, Steps

\* Every step keeps the base invariant.
LEMMA BaseStep == BaseInv /\ [Next]_vars => BaseInv'
BY TypeStep, HeldStep, RoundStep DEF BaseInv

\* It holds before the first turn.
LEMMA InitBase == Init => BaseInv
<1> SUFFICES ASSUME Init PROVE BaseInv OBVIOUS
<1>1. TypeOK
  <2>1. <<>> \in Seq(Message) /\ <<>> \in Seq(Call) /\ <<>> \in Seq(Execution) OBVIOUS
  <2> QED BY <2>1 DEF Init, TypeOK, Places, NoCall
<1>2. HeldSound BY DEF Init, HeldSound
<1>3. RoundInv BY KindsApart DEF Init, RoundInv, InRound, Between
<1> QED BY <1>1, <1>2, <1>3 DEF BaseInv

-----------------------------------------------------------------------------
(* The messages.                                                           *)

\* The summary and the messages are the turn, in an open call and in what is kept for the next.
WindowInv ==
  /\ InRound \/ Between => covered \o msgs = past
  /\ held \in Boundary => covered \o held.msgs = past
  /\ held \in Handover => held.covered \o held.msgs = past

\* Between rounds all is paired; within one, all before it is.
PairInv ==
  /\ Between => WellPaired(msgs)
  /\ InRound => MidRound(msgs, batch, at)
  /\ held \in Boundary => MidRound(held.msgs, held.batch, held.at)
  /\ held \in Handover => WellPaired(held.msgs)

\* A message appended to a history is appended to all that ends with it.
LEMMA AppendedToBoth ==
  ASSUME NEW u \in Seq(Message), NEW v \in Seq(Message), NEW m \in Message
  PROVE  u \o Append(v, m) = Append(u \o v, m)
<1>1. <<m>> \in Seq(Message) OBVIOUS
<1>2. \A a, b, c \in Seq(Message) : (a \o b) \o c = a \o (b \o c) BY ConcatAssociative
<1>3. (u \o v) \o <<m>> = u \o (v \o <<m>>) BY <1>1, <1>2, Zenon
<1>4. Append(v, m) = v \o <<m>> BY AppendIsConcat
<1>5. Append(u \o v, m) = (u \o v) \o <<m>> BY ConcatProperties, AppendIsConcat
<1> QED BY <1>3, <1>4, <1>5

\* A result is added to the messages and to the turn alike.
LEMMA WindowObserved ==
  ASSUME BaseInv, WindowInv, pc \in {"act", "perform"}, Observed, held' = held, covered' = covered
  PROVE  WindowInv'
<1>1. covered \o msgs = past /\ held = Nothing BY DEF WindowInv, BaseInv, HeldSound, InRound
<1>2. Result(Current.id) \in Message BY ObservedFacts
<1>3. msgs' = Append(msgs, Result(Current.id)) /\ past' = Append(past, Result(Current.id))
  BY DEF Observed
<1>4. covered' \o msgs' = past'
  BY <1>1, <1>2, <1>3, AppendedToBoth DEF BaseInv, TypeOK
<1>5. held' \notin Boundary \cup Handover BY <1>1, KindsApart
<1> QED BY <1>4, <1>5 DEF WindowInv

\* No step loses a message, or has one twice.
LEMMA WindowStep ==
  ASSUME BaseInv, WindowInv, [Next]_vars
  PROVE  WindowInv'
<1> USE DEF WindowInv
<1>0. Nothing \notin Boundary \cup Handover /\ Boundary \cap Handover = {} BY KindsApart
<1>1. CASE Begin
  <2>1. covered' \o msgs' = past' BY <1>1, BeginFacts, ConcatEmptySeq
  <2> QED BY <1>0, <1>1, <2>1 DEF Begin
<1>2. ASSUME NEW d \in {"approve", "deny", "cancelled"}, Resume(d) PROVE WindowInv'
  <2>1. held \in Boundary BY <1>2, KindsApart DEF HeldSound, Resume, BaseInv
  <2> QED BY <1>0, <1>2, <2>1 DEF Resume
<1>3. CASE Continue
  <2>1. held \in Handover BY <1>3 DEF HeldSound, Continue, BaseInv
  <2> QED BY <1>0, <1>3, <2>1 DEF Continue
<1>4. CASE Cancel BY <1>0, <1>4 DEF Cancel, InRound, Between
<1>5. CASE ShowCard
  <2>1. covered \o msgs = past BY <1>5 DEF ShowCard, InRound
  <2>2. held' \in Boundary /\ held'.msgs = msgs BY <1>5 DEF ShowCard, Boundary, BaseInv, TypeOK
  <2> QED BY <1>0, <1>5, <2>1, <2>2 DEF ShowCard, InRound, Between, window
<1>6. CASE Quiet BY <1>0, <1>6 DEF Quiet, window
<1>7. CASE Summarised
  <2>1. covered \o msgs = past BY <1>7 DEF Summarised, Between
  <2>2. held' \in Handover /\ held'.covered \o held'.msgs = past BY <1>7, <2>1, SummaryFacts
  <2> QED BY <1>0, <1>7, <2>1, <2>2 DEF Summarised, window
<1>8. CASE ReasonCalls
  <2>1. PICK tools \in Batches : batch' = Numbered(tools) BY <1>8 DEF ReasonCalls
  <2> DEFINE m == Calling(10 * Len(past), batch')
  <2>2. m \in Message BY <2>1, NumberedFacts
  <2>3. msgs' = Append(msgs, m) /\ past' = Append(past, m) /\ covered' = covered BY <1>8 DEF ReasonCalls
  <2>4. covered \o msgs = past /\ held' \notin Boundary \cup Handover
    BY <1>0, <1>8 DEF ReasonCalls, Between, BaseInv, HeldSound
  <2> HIDE DEF m
  <2>5. covered' \o msgs' = past' BY <2>2, <2>3, <2>4, AppendedToBoth DEF BaseInv, TypeOK
  <2> QED BY <2>4, <2>5
<1>9. CASE Answer BY <1>9, WindowObserved DEF Answer
<1>10. CASE ActRuns BY <1>0, <1>10 DEF ActRuns, InRound, Between, window
<1>11. ASSUME NEW ok \in BOOLEAN, ToolEnds(ok) PROVE WindowInv' BY <1>11, WindowObserved DEF ToolEnds
<1>12. CASE UNCHANGED vars
  BY <1>12 DEF vars, InRound, Between, window, round
<1> QED BY <1>1, <1>2, <1>3, <1>4, <1>5, <1>6, <1>7, <1>8, <1>9, <1>10, <1>11, <1>12, Steps

\* The summary and the messages behind it are the whole turn, whatever was compacted, taken
\* up at a card or broken off (generate_compaction).
THEOREM EveryMessageOnce == Spec => []NothingForgotten
<1>1. Init => BaseInv /\ WindowInv
  BY InitBase, KindsApart DEF Init, WindowInv, InRound, Between, Boundary, Handover
<1>2. BaseInv /\ WindowInv /\ [Next]_vars => (BaseInv /\ WindowInv)' BY BaseStep, WindowStep
<1>3. BaseInv /\ WindowInv => NothingForgotten BY DEF WindowInv, Between, NothingForgotten
<1> QED BY <1>1, <1>2, <1>3, PTL DEF Spec

\* A result is added behind the calls of its round: the round goes on, or it is complete.
LEMMA PairObserved ==
  ASSUME BaseInv, PairInv, pc \in {"act", "perform"}, Observed, held' = held
  PROVE  PairInv'
<1>1. MidRound(msgs, batch, at) /\ held = Nothing /\ RoundSound(batch, at)
  BY DEF PairInv, BaseInv, RoundInv, HeldSound, InRound
<1>2. at \in 1..Len(batch) /\ msgs \in Seq(Message) /\ batch \in Seq(Call)
  BY <1>1 DEF RoundSound, BaseInv, TypeOK
<1>3. msgs' = Append(msgs, Result(batch[at].id)) BY DEF Observed, Current
<1>4. held' \notin Boundary \cup Handover BY <1>1, KindsApart
<1>5. CASE at = Len(batch) /\ pc' = "observe"
  <2>1. WellPaired(msgs') BY <1>1, <1>2, <1>3, <1>5, RoundEnds
  <2>2. WellPaired(msgs)' BY <2>1 DEF WellPaired
  <2> QED BY <1>4, <1>5, <2>2 DEF PairInv, InRound
<1>6. CASE at < Len(batch) /\ pc' = "act" /\ batch' = batch /\ at' = at + 1
  <2>1. MidRound(msgs', batch', at') BY <1>1, <1>2, <1>3, <1>6, RoundGoesOn
  <2>2. MidRound(msgs, batch, at)' BY <2>1 DEF MidRound
  <2> QED BY <1>4, <1>6, <2>2 DEF PairInv, Between
<1> QED BY <1>5, <1>6, ObservedFacts

\* No step tears a call from its result.
LEMMA PairStep ==
  ASSUME BaseInv, PairInv, [Next]_vars
  PROVE  PairInv'
<1>0. Nothing \notin Boundary \cup Handover /\ Boundary \cap Handover = {} BY KindsApart
<1>a. ASSUME msgs' = msgs, WellPaired(msgs) PROVE WellPaired(msgs)'
  BY <1>a DEF WellPaired
<1>b. ASSUME msgs' = msgs, batch' = batch, at' = at, MidRound(msgs, batch, at)
      PROVE  MidRound(msgs, batch, at)'
  BY <1>b DEF MidRound
<1>1. CASE Begin
  BY <1>0, <1>1, BeginFacts DEF Begin, PairInv, InRound
<1>2. ASSUME NEW d \in {"approve", "deny", "cancelled"}, Resume(d) PROVE PairInv'
  <2>1. held \in Boundary BY <1>2, KindsApart DEF HeldSound, Resume, BaseInv
  <2>2. MidRound(held.msgs, held.batch, held.at) BY <2>1 DEF PairInv
  <2>3. MidRound(msgs, batch, at)' BY <1>2, <2>2 DEF Resume, MidRound
  <2>4. RoundSound(held.batch, held.at) BY <2>1 DEF RoundInv, BaseInv
  <2>5. Len(held.batch) >= 1 /\ held.batch \in Seq(Call)
    BY <2>1, <2>4, LenProperties DEF RoundSound, Boundary
  <2>6. batch' # <<>> BY <1>2, <2>5, EmptySeq DEF Resume
  <2> QED BY <1>0, <1>2, <2>3, <2>6 DEF Resume, PairInv, Between
<1>3. CASE Continue
  <2>1. held \in Handover BY <1>3 DEF HeldSound, Continue, BaseInv
  <2>2. WellPaired(held.msgs) BY <2>1 DEF PairInv
  <2>3. WellPaired(msgs)' BY <1>3, <2>2 DEF Continue, WellPaired
  <2> QED BY <1>0, <1>3, <2>3 DEF Continue, PairInv, InRound
<1>4. CASE Cancel BY <1>0, <1>4 DEF Cancel, InRound, Between, PairInv
<1>5. CASE ShowCard
  <2>1. MidRound(msgs, batch, at) BY <1>5 DEF ShowCard, InRound, PairInv
  <2>2. held' \in Boundary BY <1>5 DEF ShowCard, Boundary, BaseInv, TypeOK
  <2>3. held'.msgs = msgs /\ held'.batch = batch /\ held'.at = at BY <1>5 DEF ShowCard
  <2>4. MidRound(held.msgs, held.batch, held.at)' BY <2>1, <2>3 DEF MidRound
  <2> QED BY <1>0, <1>5, <2>2, <2>4 DEF ShowCard, InRound, Between, PairInv
<1>6. CASE Quiet
  <2>1. held' \notin Boundary \cup Handover BY <1>0, <1>6 DEF Quiet, BaseInv, HeldSound
  <2> QED BY <1>6, <1>a, <1>b, <2>1 DEF Quiet, window, round, PairInv
<1>7. CASE Summarised
  <2>1. WellPaired(msgs) /\ msgs \in Seq(Message) BY <1>7 DEF Summarised, Between, PairInv, BaseInv, TypeOK
  <2>2. PICK c \in RoundStarts(msgs) : held'.msgs = SubSeq(msgs, c, Len(msgs)) BY <1>7, SummaryFacts
  <2>3. WellPaired(held'.msgs) BY <2>1, <2>2, TailPaired
  <2>4. WellPaired(held.msgs)' BY <2>3 DEF WellPaired
  <2>5. held' \in Handover BY <1>7, SummaryFacts
  <2> QED BY <1>0, <1>7, <1>a, <2>1, <2>4, <2>5 DEF Summarised, PairInv, InRound, window
<1>8. CASE ReasonCalls
  <2>1. PICK tools \in Batches : batch' = Numbered(tools) BY <1>8 DEF ReasonCalls
  <2>2. batch' \in Seq(Call) BY <2>1, NumberedFacts
  <2>3. msgs' = Append(msgs, Calling(10 * Len(past), batch')) /\ at' = 1 BY <1>8 DEF ReasonCalls
  <2>4. WellPaired(msgs) /\ msgs \in Seq(Message) /\ 10 * Len(past) \in Nat
    BY <1>8, LenProperties DEF ReasonCalls, Between, PairInv, BaseInv, TypeOK
  <2>5. MidRound(msgs', batch', at') BY <2>2, <2>3, <2>4, RoundBegins
  <2>6. MidRound(msgs, batch, at)' BY <2>5 DEF MidRound
  <2>7. held' \notin Boundary \cup Handover BY <1>0, <1>8 DEF ReasonCalls, BaseInv, HeldSound
  <2> QED BY <1>8, <2>6, <2>7 DEF ReasonCalls, PairInv, Between
<1>9. CASE Answer BY <1>9, PairObserved DEF Answer
<1>10. CASE ActRuns
  <2>1. held' \notin Boundary \cup Handover BY <1>0, <1>10 DEF ActRuns, BaseInv, HeldSound
  <2> QED BY <1>10, <1>b, <2>1 DEF ActRuns, InRound, Between, window, round, PairInv
<1>11. ASSUME NEW ok \in BOOLEAN, ToolEnds(ok) PROVE PairInv' BY <1>11, PairObserved DEF ToolEnds
<1>12. CASE UNCHANGED vars
  <2>1. msgs' = msgs /\ batch' = batch /\ at' = at /\ held' = held /\ pc' = pc
    BY <1>12 DEF vars, window, round
  <2>2. held \in Handover /\ WellPaired(held.msgs) => WellPaired(held.msgs)' BY <2>1 DEF WellPaired
  <2>3. held \in Boundary /\ MidRound(held.msgs, held.batch, held.at) => MidRound(held.msgs, held.batch, held.at)'
    BY <2>1 DEF MidRound
  <2> QED BY <1>a, <1>b, <2>1, <2>2, <2>3 DEF PairInv, InRound, Between
<1> QED BY <1>1, <1>2, <1>3, <1>4, <1>5, <1>6, <1>7, <1>8, <1>9, <1>10, <1>11, <1>12, Steps

\* What goes to the provider is a conversation it takes: every call has its results next to
\* it (pair_tool_messages, group_api_rounds, the resumed rounds of run_stream_react).
THEOREM CallsStayPaired == Spec => []PairedHistory
<1>1. Init => BaseInv /\ PairInv
  BY InitBase, KindsApart, BaseStep DEF Init, PairInv, InRound, Between, Boundary, Handover, WellPaired
<1>2. BaseInv /\ PairInv /\ [Next]_vars => (BaseInv /\ PairInv)' BY BaseStep, PairStep
<1>3. BaseInv /\ PairInv => PairedHistory BY DEF PairInv, Between, PairedHistory
<1> QED BY <1>1, <1>2, <1>3, PTL DEF Spec

-----------------------------------------------------------------------------
(* What is executed.                                                       *)

\* Every check of a permission decides.
LEMMA CheckDecides ==
  ASSUME NEW tool \in Tools, NEW s
  PROVE  CheckPermission(tool, s) \in Behaviors
<1> DEFINE hits == Matching(tool, s)
           decisive == {i \in hits : Rules[i].behavior # "ask"}
<1>1. decisive \subseteq DOMAIN Rules /\ DOMAIN Rules \subseteq Nat BY ToolsAssumption DEF Matching
<1>2. decisive # {} => Min(decisive) \in DOMAIN Rules BY <1>1, MinFacts
<1>3. decisive # {} => Rules[Min(decisive)].behavior \in Behaviors BY <1>2, ToolsAssumption
<1>4. Default \in Behaviors /\ "ask" \in Behaviors BY ToolsAssumption DEF Behaviors
<1>5. CheckPermission(tool, s) = CASE decisive # {} -> Rules[Min(decisive)].behavior
                                   [] decisive = {} /\ hits # {} -> "ask"
                                   [] OTHER -> Default
  BY DEF CheckPermission
<1> HIDE DEF decisive, hits
<1>6. CASE decisive # {} BY <1>3, <1>5, <1>6
<1>7. CASE decisive = {} /\ hits # {} BY <1>4, <1>5, <1>7
<1>8. CASE decisive = {} /\ hits = {} BY <1>4, <1>5, <1>8
<1> QED BY <1>6, <1>7, <1>8

\* What the rules permit, so that nobody has to be asked.
Permitted(t) ==
  Profile[t].wants = "nothing" /\ (Profile[t].readOnly \/
    \A s \in Profile[t].subjects : CheckPermission(t, s) = "allow")

\* A call is allowed without a card only if all it does is permitted.
LEMMA AllowedIsPermitted ==
  ASSUME NEW t \in Tools, Decision(t, FALSE) = "allow"
  PROVE  Permitted(t)
<1>1. CheckPermissions(t) = "allow" => \A s \in Profile[t].subjects : CheckPermission(t, s) = "allow"
  <2> SUFFICES ASSUME CheckPermissions(t) = "allow", NEW s \in Profile[t].subjects
               PROVE  CheckPermission(t, s) = "allow"
    OBVIOUS
  <2> DEFINE all == {CheckPermission(t, r) : r \in Profile[t].subjects}
  <2>1. CheckPermission(t, s) \in all OBVIOUS
  <2>2. CheckPermissions(t) = CASE "deny" \in all -> "deny"
                                [] "deny" \notin all /\ "ask" \in all -> "ask"
                                [] OTHER -> "allow"
    BY DEF CheckPermissions
  <2> HIDE DEF all
  <2>3. "deny" \notin all /\ "ask" \notin all
    <3>1. CASE "deny" \in all BY <2>2, <3>1
    <3>2. CASE "deny" \notin all /\ "ask" \in all BY <2>2, <3>2
    <3> QED BY <3>1, <3>2
  <2>4. CheckPermission(t, s) \in Behaviors BY CheckDecides
  <2> QED BY <2>1, <2>3, <2>4 DEF Behaviors
<1>2. CASE Profile[t].source = "mcp"
  <2>1. Decision(t, FALSE) = CheckPermissions(t) BY <1>2 DEF Decision, McpDecision
  <2> QED BY <1>1, <1>2, <2>1, ToolsAssumption DEF Permitted
<1>3. CASE Profile[t].source = "local"
  <2> DEFINE ruled == CheckPermissions(t)
             w == Profile[t].wants
  <2>1. Decision(t, FALSE) = CASE FALSE -> "allow"
                               [] ~ FALSE /\ w = "outside" -> "ask"
                               [] ~ FALSE /\ w \in {"vague", "reachable"} -> "deny"
                               [] OTHER -> IF Profile[t].readOnly /\ ruled = "ask" THEN "allow" ELSE ruled
    BY <1>3 DEF Decision, LocalDecision
  <2>2. w \in Wants BY ToolsAssumption
  <2> HIDE DEF ruled, w
  <2>3. CASE w = "outside" BY <2>1, <2>3
  <2>4. CASE w \in {"vague", "reachable"} BY <2>1, <2>4
  <2>5. CASE w = "nothing"
    <3>1. (IF Profile[t].readOnly /\ ruled = "ask" THEN "allow" ELSE ruled) = "allow" BY <2>1, <2>5
    <3>2. Profile[t].readOnly \/ ruled = "allow" BY <3>1
    <3> QED BY <1>1, <2>5, <3>2 DEF Permitted, ruled, w
  <2> QED BY <2>2, <2>3, <2>4, <2>5 DEF Wants
<1> QED BY <1>2, <1>3, ToolsAssumption

\* What the gate lets through.
LEMMA GateRuns ==
  ASSUME NEW call \in Call, NEW s, NEW a, NEW f \in BOOLEAN, Gate(call, s, a, f) = "run"
  PROVE  /\ f \/ call.tool \in s
         /\ call.tool \notin Questions
         /\ f \/ a = call.id \/ Permitted(call.tool)
<1> DEFINE F == Forbidden(call.tool, s, f)
           Q == call.tool \in Questions
           D == Decision(call.tool, f)
<1>1. Gate(call, s, a, f) =
        CASE F -> "refuse"
          [] ~ F /\ Q -> "ask"
          [] OTHER -> CASE a = call.id \/ D = "allow" -> "run"
                        [] a # call.id /\ D = "ask" -> "ask"
                        [] OTHER -> "refuse"
  BY DEF Gate
<1> HIDE DEF F, Q, D
<1>2. CASE F BY <1>1, <1>2
<1>3. CASE ~ F /\ Q BY <1>1, <1>3
<1>4. CASE ~ F /\ ~ Q
  <2>1. (CASE a = call.id \/ D = "allow" -> "run"
           [] a # call.id /\ D = "ask" -> "ask"
           [] OTHER -> "refuse") = "run"
    BY <1>1, <1>4
  <2>2. a = call.id \/ D = "allow"
    <3>1. CASE a # call.id /\ D = "ask" BY <2>1, <3>1
    <3>2. CASE a # call.id /\ D # "ask" /\ D # "allow" BY <2>1, <3>2
    <3> QED BY <3>1, <3>2
  <2>3. call.tool \in Tools BY DEF Call
  <2>4. ~ f /\ D = "allow" => Permitted(call.tool) BY <2>3, AllowedIsPermitted DEF D
  <2> QED BY <1>4, <2>2, <2>4 DEF F, Q, Forbidden
<1> QED BY <1>2, <1>3, <1>4

\* The numbers of the calls that were executed grow, and the round at hand is above them.
Below(n) == \A i \in DOMAIN ran : ran[i].id < n

RanInv ==
  /\ \A i, j \in DOMAIN ran : i < j => ran[i].id < ran[j].id
  /\ InRound /\ pc # "perform" => Below(Current.id)
  /\ pc = "perform" => Below(Current.id + 1)
  /\ Between => Below(10 * Len(past) + 1)
  /\ held \in Boundary => Below(held.batch[held.at].id)

\* An approval is of the user's, and what was executed had one or needed none.
GrantInv ==
  /\ auth \in approved \cup {NoCall}
  /\ \A i \in DOMAIN ran :
       /\ ran[i].tool \notin Questions
       /\ ran[i].full \/ ran[i].id \in approved \/ Permitted(ran[i].tool)

\* What the executed calls are numbered with.
LEMMA RanTypes ==
  ASSUME BaseInv
  PROVE  \A i \in DOMAIN ran : i \in Nat /\ ran[i].id \in Nat
<1>1. ran \in Seq(Execution) BY DEF BaseInv, TypeOK
<1>2. \A i \in DOMAIN ran : i \in Nat /\ ran[i] \in Execution BY <1>1, ElementOfSeq, LenProperties
<1> QED BY <1>2 DEF Execution

\* The call at hand.
LEMMA CurrentFacts ==
  ASSUME BaseInv, InRound
  PROVE  /\ Current \in Call /\ Current.id = 10 * (Len(past) - at) + at
         /\ at \in 1..Len(batch) /\ at <= Len(past) /\ Len(past) \in Nat /\ Len(batch) \in Nat
<1>1. RoundSound(batch, at) BY DEF BaseInv, RoundInv
<1>2. Current \in Call BY <1>1, ElementOfSeq DEF RoundSound, Current, BaseInv, TypeOK
<1> QED BY <1>1, <1>2, LenProperties DEF RoundSound, Current, BaseInv, TypeOK

\* Executing adds a call; its end changes whether it was in order.
LEMMA RunFacts ==
  ASSUME BaseInv, ActRuns
  PROVE  /\ Len(ran) \in Nat /\ DOMAIN ran = 1..Len(ran) /\ Len(ran') = Len(ran) + 1
         /\ DOMAIN ran' = 1..(Len(ran) + 1)
         /\ \A i \in 1..Len(ran) : ran'[i] = ran[i]
         /\ ran'[Len(ran) + 1] = [id |-> Current.id, tool |-> Current.tool, full |-> full, ok |-> FALSE]
<1>1. Current \in Call BY CurrentFacts DEF ActRuns, InRound
<1>2. ran \in Seq(Execution) /\ full \in BOOLEAN BY DEF BaseInv, TypeOK
<1> DEFINE e == [id |-> Current.id, tool |-> Current.tool, full |-> full, ok |-> FALSE]
<1>3. e \in Execution BY <1>1, <1>2 DEF Call, Execution
<1>4. ran' = Append(ran, e) BY DEF ActRuns
<1> HIDE DEF e
<1>5. ran' \in Seq(Execution) BY <1>2, <1>3, <1>4, AppendProperties
<1>6. Len(ran) \in Nat /\ DOMAIN ran = 1..Len(ran) /\ DOMAIN ran' = 1..Len(ran') BY <1>2, <1>5, LenProperties
<1>7. Len(ran') = Len(ran) + 1 /\ (\A i \in 1..Len(ran) : ran'[i] = ran[i]) /\ ran'[Len(ran) + 1] = e
  BY <1>2, <1>3, <1>4, AppendProperties
<1> QED BY <1>6, <1>7 DEF e

\* The last execution ends, well or not; the others stay.
LEMMA EndFacts ==
  ASSUME BaseInv, NEW ok \in BOOLEAN, ToolEnds(ok)
  PROVE  /\ DOMAIN ran' = DOMAIN ran /\ DOMAIN ran = 1..Len(ran) /\ Len(ran') = Len(ran) /\ Len(ran) \in Nat
         /\ \A i \in DOMAIN ran : /\ ran'[i].id = ran[i].id /\ ran'[i].tool = ran[i].tool
                                  /\ ran'[i].full = ran[i].full
                                  /\ i # Len(ran) => ran'[i].ok = ran[i].ok
                                  /\ i = Len(ran) => ran'[i].ok = ok
<1>1. ran \in Seq(Execution) BY DEF BaseInv, TypeOK
<1>2. Len(ran) \in Nat /\ DOMAIN ran = 1..Len(ran) BY <1>1, LenProperties
<1>3. ran' = [i \in DOMAIN ran |-> IF i = Len(ran) THEN [ran[i] EXCEPT !.ok = ok] ELSE ran[i]]
  BY DEF ToolEnds
<1>4. \A i \in DOMAIN ran : ran[i] \in Execution BY <1>1, <1>2, ElementOfSeq
<1>5. DOMAIN ran' = DOMAIN ran /\ Len(ran') = Len(ran)
  <2>1. ran' \in [1..Len(ran) -> {ran'[i] : i \in 1..Len(ran)}] BY <1>2, <1>3
  <2> QED BY <1>2, <1>3, <2>1
<1>6. \A i \in DOMAIN ran : i = Len(ran) => ran'[i] = [ran[i] EXCEPT !.ok = ok] BY <1>3
<1>7. \A i \in DOMAIN ran : i # Len(ran) => ran'[i] = ran[i] BY <1>3
<1> QED BY <1>2, <1>4, <1>5, <1>6, <1>7 DEF Execution

\* After a result the round at hand is still above all that was executed.
LEMMA RanObserved ==
  ASSUME BaseInv, pc \in {"act", "perform"}, Observed, held' = held, NEW n \in Nat,
         n <= Current.id + 1, Below(n)', \A i, j \in DOMAIN ran' : i < j => ran'[i].id < ran'[j].id,
         TypeOK'
  PROVE  RanInv'
<1>1. /\ Current \in Call /\ Current.id = 10 * (Len(past) - at) + at
      /\ at \in 1..Len(batch) /\ at <= Len(past) /\ Len(past) \in Nat /\ Len(batch) \in Nat
  BY CurrentFacts DEF InRound
<1>2. held' \notin Boundary BY KindsApart DEF BaseInv, HeldSound
<1>3. \A i \in DOMAIN ran' : ran'[i].id \in Nat /\ ran'[i].id < n
  <2>1. ran' \in Seq(Execution) BY DEF TypeOK
  <2>2. \A i \in DOMAIN ran' : ran'[i] \in Execution BY <2>1, ElementOfSeq, LenProperties
  <2> QED BY <2>2 DEF Execution, Below
<1>4. Len(past') = Len(past) + 1 BY ObservedFacts
<1>5. CASE at = Len(batch) /\ pc' = "observe"
  <2>1. Below(10 * Len(past) + 1)' BY <1>1, <1>3, <1>4 DEF Below
  <2> QED BY <1>2, <1>5, <2>1 DEF RanInv, InRound
<1>6. CASE at < Len(batch) /\ pc' = "act" /\ batch' = batch /\ at' = at + 1
  <2>1. batch[at + 1].id = Current.id + 1
    <3>1. RoundSound(batch, at) /\ at + 1 \in 1..Len(batch)
      BY <1>1, <1>6 DEF BaseInv, RoundInv, InRound
    <3> QED BY <1>1, <3>1 DEF RoundSound
  <2>2. Current' = batch[at + 1] BY <1>6 DEF Current
  <2>3. Current.id \in Nat BY <1>1 DEF Call
  <2>4. Below(Current.id)' BY <1>3, <2>1, <2>2, <2>3 DEF Below
  <2> QED BY <1>2, <1>6, <2>4 DEF RanInv, Between
<1> QED BY <1>5, <1>6, ObservedFacts

\* The numbers of the calls that are executed grow with every step.
LEMMA RanStep ==
  ASSUME BaseInv, RanInv, [Next]_vars
  PROVE  RanInv'
<1>0. Nothing \notin Boundary /\ Boundary \cap Handover = {} BY KindsApart
<1>t. BaseInv' BY BaseStep
<1>n. \A i \in DOMAIN ran : ran[i].id \in Nat BY RanTypes
<1>1. CASE Begin BY <1>0, <1>1 DEF Begin, RanInv, InRound, Below
<1>2. ASSUME NEW d \in {"approve", "deny", "cancelled"}, Resume(d) PROVE RanInv'
  <2>1. held \in Boundary BY <1>2, KindsApart DEF HeldSound, Resume, BaseInv
  <2>2. Below(held.batch[held.at].id) BY <2>1 DEF RanInv
  <2>3. Current' = held.batch[held.at] /\ ran' = ran BY <1>2 DEF Resume, Current
  <2>4. Below(Current.id)' BY <2>2, <2>3 DEF Below
  <2>5. RoundSound(held.batch, held.at) BY <2>1 DEF RoundInv, BaseInv
  <2>6. Len(held.batch) >= 1 /\ held.batch \in Seq(Call)
    BY <2>1, <2>5, LenProperties DEF RoundSound, Boundary
  <2>7. batch' # <<>> BY <1>2, <2>6, EmptySeq DEF Resume
  <2> QED BY <1>0, <1>2, <2>3, <2>4, <2>7 DEF Resume, RanInv, Between
<1>3. CASE Continue
  <2>1. Below(10 * Len(past) + 1)' BY <1>3 DEF Continue, RanInv, Between, Below, book
  <2> QED BY <1>0, <1>3, <2>1 DEF Continue, RanInv, InRound, book
<1>4. CASE Cancel BY <1>0, <1>4 DEF Cancel, InRound, Between, RanInv, book
<1>5. CASE ShowCard
  <2>1. Below(Current.id) BY <1>5 DEF ShowCard, InRound, RanInv
  <2>2. Below(held.batch[held.at].id)' BY <1>5, <2>1 DEF ShowCard, Below, Current, book
  <2> QED BY <1>5, <2>2 DEF ShowCard, InRound, Between, RanInv, book
<1>6. CASE Quiet
  <2>1. held' \notin Boundary BY <1>0, <1>6 DEF Quiet, BaseInv, HeldSound
  <2>2. \A m : Below(m) => Below(m)' BY <1>6 DEF Quiet, Below, book
  <2>3. Current' = Current /\ past' = past /\ ran' = ran BY <1>6 DEF Quiet, Current, round, window, book
  <2>4. InRound' => Below(Current.id)' BY <1>6, <2>3 DEF Quiet, RanInv, Below
  <2>5. Between' => Below(10 * Len(past) + 1)' BY <1>6, <2>3 DEF Quiet, RanInv, Below
  <2> QED BY <1>6, <2>1, <2>3, <2>4, <2>5 DEF Quiet, RanInv
<1>7. CASE Summarised
  <2>1. held' \in Handover BY <1>7, SummaryFacts
  <2>2. Below(10 * Len(past) + 1)' BY <1>7 DEF Summarised, Between, RanInv, Below, book, window
  <2> QED BY <1>0, <1>7, <2>1, <2>2 DEF Summarised, InRound, RanInv, book
<1>8. CASE ReasonCalls
  <2>1. Below(10 * Len(past) + 1) /\ ran' = ran /\ pc' = "act" BY <1>8 DEF ReasonCalls, RanInv, Between
  <2>2. PICK tools \in Batches : batch' = Numbered(tools) BY <1>8 DEF ReasonCalls
  <2>3. batch'[1].id = 10 * Len(past) + 1 /\ at' = 1 BY <1>8, <2>2, NumberedFacts, LenProperties DEF ReasonCalls
  <2>4. Below(Current.id)' BY <2>1, <2>3 DEF Below, Current
  <2>5. held' \notin Boundary BY <1>0, <1>8 DEF ReasonCalls, BaseInv, HeldSound
  <2> QED BY <2>1, <2>4, <2>5 DEF RanInv, Between
<1>9. CASE Answer
  <2>1. Below(Current.id) /\ Current.id \in Nat /\ ran' = ran
    BY <1>9, CurrentFacts DEF Answer, RanInv, InRound, Call, book
  <2>2. Below(Current.id + 1) BY <1>n, <2>1 DEF Below
  <2> DEFINE n == Current.id + 1
  <2>3. n \in Nat /\ n <= Current.id + 1 BY <2>1
  <2>4. \A i \in DOMAIN ran' : ran'[i].id < n BY <2>1, <2>2 DEF Below
  <2> HIDE DEF n
  <2>5. \A i, j \in DOMAIN ran' : i < j => ran'[i].id < ran'[j].id BY <2>1 DEF RanInv
  <2> QED BY <1>9, <1>t, <2>3, <2>4, <2>5, RanObserved DEF Answer, Below, BaseInv
<1>10. CASE ActRuns
  <2>1. Below(Current.id) /\ Current.id \in Nat
    BY <1>10, CurrentFacts DEF ActRuns, RanInv, InRound, Call
  <2>2. /\ Len(ran) \in Nat /\ DOMAIN ran = 1..Len(ran) /\ DOMAIN ran' = 1..(Len(ran) + 1)
        /\ \A i \in 1..Len(ran) : ran'[i] = ran[i]
        /\ ran'[Len(ran) + 1].id = Current.id
    BY <1>10, RunFacts
  <2>3. \A i, j \in DOMAIN ran' : i < j => ran'[i].id < ran'[j].id
    <3> SUFFICES ASSUME NEW i \in DOMAIN ran', NEW j \in DOMAIN ran', i < j PROVE ran'[i].id < ran'[j].id
      OBVIOUS
    <3>1. i \in 1..Len(ran) BY <2>2
    <3>2. CASE j \in 1..Len(ran) BY <2>2, <3>1, <3>2 DEF RanInv
    <3>3. CASE j = Len(ran) + 1 BY <2>1, <2>2, <3>1, <3>3 DEF Below
    <3> QED BY <2>2, <3>2, <3>3
  <2>4. Current' = Current BY <1>10 DEF ActRuns, Current, round
  <2>5. Below(Current.id + 1)'
    <3> SUFFICES ASSUME NEW i \in DOMAIN ran' PROVE ran'[i].id < Current.id + 1 BY <2>4 DEF Below
    <3>1. CASE i \in 1..Len(ran) BY <1>n, <2>1, <2>2, <3>1 DEF Below
    <3>2. CASE i = Len(ran) + 1 BY <2>1, <2>2, <3>2
    <3> QED BY <2>2, <3>1, <3>2
  <2>6. held' \notin Boundary BY <1>0, <1>10 DEF ActRuns, BaseInv, HeldSound
  <2> QED BY <1>10, <2>3, <2>5, <2>6 DEF ActRuns, RanInv, Between, InRound
<1>11. ASSUME NEW ok \in BOOLEAN, ToolEnds(ok) PROVE RanInv'
  <2>1. Below(Current.id + 1) /\ Current.id \in Nat
    BY <1>11, CurrentFacts DEF ToolEnds, RanInv, InRound, Call
  <2> DEFINE n == Current.id + 1
  <2>2. DOMAIN ran' = DOMAIN ran /\ \A i \in DOMAIN ran : ran'[i].id = ran[i].id
    BY <1>11, EndFacts
  <2>3. n \in Nat /\ n <= Current.id + 1 BY <2>1
  <2>4. \A i \in DOMAIN ran' : ran'[i].id < n BY <2>1, <2>2 DEF Below
  <2> HIDE DEF n
  <2>5. \A i, j \in DOMAIN ran' : i < j => ran'[i].id < ran'[j].id BY <2>2 DEF RanInv
  <2> QED BY <1>11, <1>t, <2>3, <2>4, <2>5, RanObserved DEF ToolEnds, Below, BaseInv
<1>12. CASE UNCHANGED vars
  BY <1>12 DEF vars, InRound, Between, window, round, book, RanInv, Below, Current
<1> QED BY <1>1, <1>2, <1>3, <1>4, <1>5, <1>6, <1>7, <1>8, <1>9, <1>10, <1>11, <1>12, Steps

\* What is executed has its grant.
LEMMA GrantStep ==
  ASSUME BaseInv, GrantInv, [Next]_vars
  PROVE  GrantInv'
<1>1. CASE Begin BY <1>1 DEF Begin, GrantInv
<1>2. ASSUME NEW d \in {"approve", "deny", "cancelled"}, Resume(d) PROVE GrantInv'
  <2>1. ran' = ran /\ approved \subseteq approved' BY <1>2 DEF Resume
  <2>2. auth' \in approved' \cup {NoCall} BY <1>2 DEF Resume, ResumeOutcome
  <2> QED BY <2>1, <2>2 DEF GrantInv
<1>3. CASE Continue BY <1>3 DEF Continue, GrantInv, book
<1>4. CASE Cancel BY <1>4 DEF Cancel, GrantInv, book, rights
<1>5. CASE ShowCard BY <1>5 DEF ShowCard, GrantInv, book, rights
<1>6. CASE Quiet BY <1>6 DEF Quiet, GrantInv, book, rights
<1>7. CASE Summarised BY <1>7 DEF Summarised, GrantInv, book, rights
<1>8. CASE ReasonCalls BY <1>8 DEF ReasonCalls, GrantInv, rights
<1>9. CASE Answer BY <1>9 DEF Answer, GrantInv, book, rights
<1>10. CASE ActRuns
  <2>1. /\ Len(ran) \in Nat /\ DOMAIN ran = 1..Len(ran) /\ DOMAIN ran' = 1..(Len(ran) + 1)
        /\ \A i \in 1..Len(ran) : ran'[i] = ran[i]
        /\ ran'[Len(ran) + 1] = [id |-> Current.id, tool |-> Current.tool, full |-> full, ok |-> FALSE]
    BY <1>10, RunFacts
  <2>2. /\ Current \in Call /\ Current.id = 10 * (Len(past) - at) + at
        /\ at \in 1..Len(batch) /\ at <= Len(past) /\ Len(past) \in Nat /\ Len(batch) \in Nat
    BY <1>10, CurrentFacts DEF ActRuns, InRound
  <2>3. Current.id # NoCall BY <2>2 DEF NoCall
  <2>4. full \/ Current.tool \in scope BY <1>10, <2>2, GateRuns DEF ActRuns, BaseInv, TypeOK
  <2>5. Current.tool \notin Questions /\ (full \/ auth = Current.id \/ Permitted(Current.tool))
    BY <1>10, <2>2, GateRuns DEF ActRuns, BaseInv, TypeOK
  <2>6. auth' \in approved' \cup {NoCall} /\ approved' = approved BY <1>10 DEF ActRuns, GrantInv
  <2>7. auth = Current.id => Current.id \in approved BY <2>3 DEF GrantInv
  <2>8. ASSUME NEW i \in DOMAIN ran'
        PROVE  /\ ran'[i].tool \notin Questions
               /\ ran'[i].full \/ ran'[i].id \in approved' \/ Permitted(ran'[i].tool)
    <3>1. CASE i \in 1..Len(ran) BY <2>1, <2>6, <3>1 DEF GrantInv
    <3>2. CASE i = Len(ran) + 1 BY <2>1, <2>5, <2>6, <2>7, <3>2
    <3> QED BY <2>1, <3>1, <3>2
  <2> QED BY <2>6, <2>8 DEF GrantInv, Permitted
<1>11. ASSUME NEW ok \in BOOLEAN, ToolEnds(ok) PROVE GrantInv'
  <2>1. /\ DOMAIN ran' = DOMAIN ran
        /\ \A i \in DOMAIN ran : ran'[i].id = ran[i].id /\ ran'[i].tool = ran[i].tool /\ ran'[i].full = ran[i].full
    BY <1>11, EndFacts
  <2> QED BY <1>11, <2>1 DEF ToolEnds, GrantInv
<1>12. CASE UNCHANGED vars BY <1>12 DEF vars, book, rights, GrantInv
<1> QED BY <1>1, <1>2, <1>3, <1>4, <1>5, <1>6, <1>7, <1>8, <1>9, <1>10, <1>11, <1>12, Steps

\* A call is executed once at most, and only with the approval of this very call, or
\* because the rules allow all that it does, or the run has full access (dispatch, run_tool).
THEOREM ExecutedOnceAndGranted == Spec => []OnceAndGranted
<1> DEFINE Inv == BaseInv /\ RanInv /\ GrantInv
<1>1. Init => Inv
  <2> SUFFICES ASSUME Init PROVE Inv OBVIOUS
  <2>1. BaseInv BY InitBase
  <2>2. RanInv BY KindsApart DEF Init, RanInv, Below, Boundary
  <2>3. GrantInv BY DEF Init, GrantInv
  <2> QED BY <2>1, <2>2, <2>3
<1>2. Inv /\ [Next]_vars => Inv' BY BaseStep, RanStep, GrantStep
<1>3. Inv => OnceAndGranted
  <2> SUFFICES ASSUME Inv PROVE OnceAndGranted OBVIOUS
  <2>2. \A i \in DOMAIN ran : i \in Nat /\ ran[i].id \in Nat BY RanTypes
  <2>3. \A i, j \in DOMAIN ran : i # j => ran[i].id # ran[j].id
    <3> SUFFICES ASSUME NEW i \in DOMAIN ran, NEW j \in DOMAIN ran, i # j PROVE ran[i].id # ran[j].id
      OBVIOUS
    <3>1. i < j \/ j < i BY <2>2
    <3> QED BY <2>2, <3>1 DEF RanInv
  <2> QED BY <2>3 DEF GrantInv, OnceAndGranted, Permitted
<1> QED BY <1>1, <1>2, <1>3, PTL DEF Spec

-----------------------------------------------------------------------------
(* The allowlist of a skill.                                               *)

Loaded == \E i \in DOMAIN ran : ran[i].tool \in Skills /\ ran[i].ok

\* Once a skill has been loaded its list is in force, here or in what is kept.
ScopeInv ==
  /\ InRound \/ Between => (Loaded => scope = Listed)
  /\ held \in Boundary \cup Handover => (Loaded => held.scope = Listed)
  /\ pc = "perform" => Len(ran) >= 1 /\ ran[Len(ran)].tool = Current.tool
  /\ ScopeKept

\* The list stays in force through every step.
LEMMA ScopeStep ==
  ASSUME BaseInv, ScopeInv, [Next]_vars
  PROVE  ScopeInv'
<1>0. Nothing \notin Boundary \cup Handover /\ Boundary \cap Handover = {} BY KindsApart
<1>a. ASSUME ran' = ran PROVE (Loaded' <=> Loaded) /\ ScopeKept'
  BY <1>a DEF Loaded, ScopeKept, ScopeInv
<1>1. CASE Begin BY <1>0, <1>1 DEF Begin, ScopeInv, Loaded, ScopeKept
<1>2. ASSUME NEW d \in {"approve", "deny", "cancelled"}, Resume(d) PROVE ScopeInv'
  <2>1. held \in Boundary BY <1>2, KindsApart DEF HeldSound, Resume, BaseInv
  <2> QED BY <1>0, <1>2, <1>a, <2>1 DEF Resume, ScopeInv
<1>3. CASE Continue
  <2>1. held \in Handover BY <1>3 DEF HeldSound, Continue, BaseInv
  <2> QED BY <1>0, <1>3, <1>a, <2>1 DEF Continue, ScopeInv, book
<1>4. CASE Cancel BY <1>0, <1>4, <1>a DEF Cancel, InRound, Between, ScopeInv, book
<1>5. CASE ShowCard
  <2>1. Loaded => scope = Listed BY <1>5 DEF ShowCard, ScopeInv, InRound
  <2>2. held'.scope = scope BY <1>5 DEF ShowCard
  <2> QED BY <1>5, <1>a, <2>1, <2>2 DEF ShowCard, InRound, Between, ScopeInv, book
<1>6. CASE Quiet
  <2>1. held' \notin Boundary \cup Handover BY <1>0, <1>6 DEF Quiet, BaseInv, HeldSound
  <2>2. scope' = scope /\ ran' = ran BY <1>6 DEF Quiet, rights, book
  <2> QED BY <1>6, <1>a, <2>1, <2>2 DEF Quiet, ScopeInv
<1>7. CASE Summarised
  <2>1. held' \in Handover /\ held'.scope = scope BY <1>7, SummaryFacts
  <2>2. Loaded => scope = Listed BY <1>7 DEF Summarised, ScopeInv, Between
  <2> QED BY <1>7, <1>a, <2>1, <2>2 DEF Summarised, ScopeInv, book, rights
<1>8. CASE ReasonCalls
  <2>1. held' \notin Boundary \cup Handover BY <1>0, <1>8 DEF ReasonCalls, BaseInv, HeldSound
  <2> QED BY <1>8, <1>a, <2>1 DEF ReasonCalls, ScopeInv, Between, rights
<1>9. CASE Answer
  <2>1. held' \notin Boundary \cup Handover BY <1>0, <1>9 DEF Answer, BaseInv, HeldSound
  <2>2. pc' # "perform" /\ (Loaded => scope = Listed) /\ scope' = scope /\ ran' = ran
    BY <1>9, ObservedFacts DEF Answer, ScopeInv, InRound, rights, book
  <2> QED BY <1>a, <2>1, <2>2 DEF ScopeInv
<1>10. CASE ActRuns
  <2>1. /\ Len(ran) \in Nat /\ DOMAIN ran = 1..Len(ran) /\ DOMAIN ran' = 1..(Len(ran) + 1)
        /\ \A i \in 1..Len(ran) : ran'[i] = ran[i]
        /\ ran'[Len(ran) + 1] = [id |-> Current.id, tool |-> Current.tool, full |-> full, ok |-> FALSE]
        /\ Len(ran') = Len(ran) + 1
    BY <1>10, RunFacts
  <2>2. Current \in Call BY <1>10, CurrentFacts DEF ActRuns, InRound
  <2>3. full \/ Current.tool \in scope BY <1>10, <2>2, GateRuns DEF ActRuns, BaseInv, TypeOK
  <2>4. Loaded => scope = Listed BY <1>10 DEF ActRuns, ScopeInv, InRound
  <2>5. Loaded' => Loaded BY <2>1 DEF Loaded
  <2>6. ScopeKept'
    <3> SUFFICES ASSUME NEW i \in DOMAIN ran', NEW j \in DOMAIN ran', i < j,
                        ran'[i].tool \in Skills, ran'[i].ok, ~ ran'[j].full
                 PROVE  ran'[j].tool \in Listed
      BY DEF ScopeKept
    <3>1. i \in 1..Len(ran) BY <2>1
    <3>2. CASE j \in 1..Len(ran) BY <2>1, <3>1, <3>2 DEF ScopeInv, ScopeKept
    <3>3. CASE j = Len(ran) + 1
      <4>1. Loaded BY <2>1, <3>1 DEF Loaded
      <4> QED BY <2>1, <2>3, <2>4, <3>3, <4>1
    <3> QED BY <2>1, <3>2, <3>3
  <2>7. held' \notin Boundary \cup Handover BY <1>0, <1>10 DEF ActRuns, BaseInv, HeldSound
  <2>8. scope' = scope /\ Current' = Current BY <1>10 DEF ActRuns, Current, round
  <2>9. Len(ran') >= 1 /\ ran'[Len(ran')].tool = (Current').tool BY <2>1, <2>8
  <2> QED BY <2>4, <2>5, <2>6, <2>7, <2>8, <2>9 DEF ScopeInv
<1>11. ASSUME NEW ok \in BOOLEAN, ToolEnds(ok) PROVE ScopeInv'
  <2>1. /\ DOMAIN ran' = DOMAIN ran /\ DOMAIN ran = 1..Len(ran) /\ Len(ran) \in Nat
        /\ \A i \in DOMAIN ran : /\ ran'[i].tool = ran[i].tool /\ ran'[i].full = ran[i].full
                                 /\ i # Len(ran) => ran'[i].ok = ran[i].ok
    BY <1>11, EndFacts
  <2>2. Len(ran) >= 1 /\ ran[Len(ran)].tool = Current.tool /\ (Loaded => scope = Listed)
    BY <1>11 DEF ToolEnds, ScopeInv, InRound
  <2>3. scope' = IF ok THEN Effects(Current.tool, scope) ELSE scope BY <1>11 DEF ToolEnds
  <2>4. ran'[Len(ran)].ok = ok BY <1>11, <2>2, EndFacts
  <2>5. Loaded' => scope' = Listed
    <3> SUFFICES ASSUME NEW i \in DOMAIN ran', ran'[i].tool \in Skills, ran'[i].ok PROVE scope' = Listed
      BY DEF Loaded
    <3>1. CASE i = Len(ran) BY <2>1, <2>2, <2>3, <2>4, <3>1 DEF Effects
    <3>2. CASE i # Len(ran)
      <4>1. Loaded BY <2>1, <3>2 DEF Loaded
      <4> QED BY <2>2, <2>3, <4>1 DEF Effects
    <3> QED BY <3>1, <3>2
  <2>6. ScopeKept'
    <3> SUFFICES ASSUME NEW i \in DOMAIN ran', NEW j \in DOMAIN ran', i < j,
                        ran'[i].tool \in Skills, ran'[i].ok, ~ ran'[j].full
                 PROVE  ran'[j].tool \in Listed
      BY DEF ScopeKept
    <3>1. i # Len(ran) /\ i \in DOMAIN ran /\ j \in DOMAIN ran BY <2>1
    <3> QED BY <2>1, <3>1 DEF ScopeInv, ScopeKept
  <2>7. held' \notin Boundary \cup Handover BY <1>0, <1>11 DEF ToolEnds, BaseInv, HeldSound
  <2>8. pc' # "perform" BY <1>11, ObservedFacts DEF ToolEnds
  <2> QED BY <2>5, <2>6, <2>7, <2>8 DEF ScopeInv
<1>12. CASE UNCHANGED vars
  BY <1>12, <1>a DEF vars, InRound, Between, round, book, rights, ScopeInv, Current
<1> QED BY <1>1, <1>2, <1>3, <1>4, <1>5, <1>6, <1>7, <1>8, <1>9, <1>10, <1>11, <1>12, Steps

\* Once a skill has been loaded no tool outside its list is executed, through cards and
\* compactions (checkpoint_state, restore_state).
THEOREM ScopeOutlivesTheCall == Spec => []ScopeKept
<1>1. Init => BaseInv /\ ScopeInv
  <2> SUFFICES ASSUME Init PROVE BaseInv /\ ScopeInv OBVIOUS
  <2>1. BaseInv BY InitBase
  <2>2. ScopeInv BY KindsApart DEF Init, ScopeInv, Loaded, ScopeKept, InRound, Between, Boundary, Handover
  <2> QED BY <2>1, <2>2
<1>2. BaseInv /\ ScopeInv /\ [Next]_vars => (BaseInv /\ ScopeInv)' BY BaseStep, ScopeStep
<1>3. ScopeInv => ScopeKept BY DEF ScopeInv
<1> QED BY <1>1, <1>2, <1>3, PTL DEF Spec
=============================================================================

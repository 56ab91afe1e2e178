------------------------- MODULE MarketplaceProofs -------------------------
(***************************************************************************)
(* Theorems about Marketplace: one fetch at a time of one entry; files     *)
(* that agree between requests, whatever tabs do to each other and where   *)
(* the process dies; secrets that outlive their mask; and a run that is    *)
(* given what was ticked.                                                  *)
(***************************************************************************)
EXTENDS Marketplace, TLAPS, FiniteSetTheorems, SequenceTheorems

-----------------------------------------------------------------------------
(* Fetches.                                                                *)

FetchRecords == [of : Sources, state : {"running", "answered", "failed", "gone"}]

\* A fetch that is under way is the one its entry finds in the table.
FetchInv ==
  /\ fetches \in Seq(FetchRecords)
  /\ inflight \in [Sources -> Nat]
  /\ \A f \in DOMAIN fetches : fetches[f].state = "running" => inflight[fetches[f].of] = f

\* The fields of a fetch and of its record.
LEMMA FetchTypes ==
  ASSUME FetchInv
  PROVE  /\ DOMAIN fetches = 1..Len(fetches) /\ Len(fetches) \in Nat
         /\ \A f \in DOMAIN fetches : fetches[f] \in FetchRecords /\ fetches[f].of \in Sources
<1>1. DOMAIN fetches = 1..Len(fetches) /\ Len(fetches) \in Nat
  BY DEF FetchInv
<1>2. \A f \in DOMAIN fetches : fetches[f] \in FetchRecords
  BY DEF FetchInv
<1> QED
  BY <1>1, <1>2 DEF FetchRecords

\* At first nothing is fetched.
LEMMA InitFetchInv == Init => FetchInv
BY DEF Init, FetchInv

\* A fetch is started when the table has none for the entry.
LEMMA FetchAsked ==
  ASSUME FetchInv, NEW c \in Tabs, NEW s \in Sources, AskConnector(c, s)
  PROVE  FetchInv'
<1> DEFINE f == Len(fetches) + 1
           new == [of |-> s, state |-> "running"]
<1>1. \/ UNCHANGED cache
      \/ inflight[s] # 0 /\ UNCHANGED <<fetches, inflight>>
      \/ /\ inflight[s] = 0
         /\ fetches' = Append(fetches, new) /\ inflight' = [inflight EXCEPT ![s] = f]
  BY DEF AskConnector, FetchInv
<1>2. CASE UNCHANGED cache \/ UNCHANGED <<fetches, inflight>>
  BY <1>2 DEF cache, FetchInv
<1>3. CASE /\ inflight[s] = 0
           /\ fetches' = Append(fetches, new) /\ inflight' = [inflight EXCEPT ![s] = f]
  <2>1. /\ fetches' \in Seq(FetchRecords)
        /\ inflight' \in [Sources -> Nat]
    <3>1. new \in FetchRecords
      BY DEF FetchRecords
    <3> QED
      BY <1>3, <3>1 DEF FetchInv
  <2>2. ASSUME NEW g \in DOMAIN fetches', fetches'[g].state = "running"
        PROVE  inflight'[fetches'[g].of] = g
    <3>1. CASE g = f
      BY <1>3, <2>1, <3>1, FetchTypes DEF FetchInv
    <3>2. CASE g # f
      <4>1. g \in DOMAIN fetches /\ fetches'[g] = fetches[g] /\ fetches[g].of \in Sources
        BY <1>3, <3>2, FetchTypes
      <4>2. inflight[fetches[g].of] = g /\ g # 0
        BY <2>2, <4>1 DEF FetchInv
      <4>3. fetches[g].of # s
        BY <1>3, <4>2
      <4> QED
        BY <1>3, <4>1, <4>2, <4>3 DEF FetchInv
    <3> QED
      BY <3>1, <3>2
  <2> QED
    BY <2>1, <2>2 DEF FetchInv
<1> QED
  BY <1>1, <1>2, <1>3

\* A fetch ends, well or not.
LEMMA FetchEnded ==
  ASSUME FetchInv, NEW f \in DOMAIN fetches, NEW how \in {"answered", "failed"}, FetchEnds(f, how)
  PROVE  FetchInv'
<1>1. /\ fetches' = [fetches EXCEPT ![f].state = how] /\ inflight' = inflight
  BY DEF FetchEnds
<1>2. [fetches[f] EXCEPT !.state = how] \in FetchRecords
  BY FetchTypes DEF FetchRecords
<1>3. fetches' \in Seq(FetchRecords) /\ DOMAIN fetches' = DOMAIN fetches
  BY <1>1, <1>2 DEF FetchInv
<1>4. ASSUME NEW g \in DOMAIN fetches
      PROVE  /\ fetches'[g].of = fetches[g].of
             /\ fetches'[g].state = "running" => fetches[g].state = "running"
  BY <1>1, FetchTypes DEF FetchRecords
<1> QED
  BY <1>1, <1>3, <1>4 DEF FetchInv

\* Who is done with a fetch clears the entry only if it still is that fetch's, and that
\* one is over.
LEMMA FetchTaken ==
  ASSUME FetchInv, NEW c \in Tabs, TakeAnswer(c)
  PROVE  FetchInv'
<1> DEFINE f == job[c].fetch
<1>1. /\ fetches' = fetches /\ fetches[f].state \in {"answered", "failed"}
      /\ inflight' = Forgotten(f)
  BY DEF TakeAnswer
<1>2. inflight' \in [Sources -> Nat]
  BY <1>1 DEF Forgotten, FetchInv
<1>3. ASSUME NEW g \in DOMAIN fetches, fetches[g].state = "running"
      PROVE  inflight'[fetches[g].of] = g
  <2>1. g # f /\ inflight[fetches[g].of] = g /\ fetches[g].of \in Sources
    <3>1. g # f
      BY <1>1, <1>3
    <3> QED
      BY <3>1, <1>3, FetchTypes DEF FetchInv
  <2> QED
    BY <1>1, <2>1 DEF Forgotten, FetchInv
<1> QED
  BY <1>1, <1>2, <1>3 DEF FetchInv

\* A crash forgets the table, but no fetch survives it.
LEMMA FetchesGone == ASSUME FetchInv, Crash PROVE FetchInv'
<1>1. /\ fetches' = [f \in DOMAIN fetches |-> [fetches[f] EXCEPT !.state = "gone"]]
      /\ inflight' = [s \in Sources |-> 0]
  BY DEF Crash
<1>2. /\ fetches' \in Seq(FetchRecords)
      /\ \A g \in DOMAIN fetches' : fetches'[g].state = "gone"
  <2>1. \A g \in DOMAIN fetches :
          /\ [fetches[g] EXCEPT !.state = "gone"] \in FetchRecords
          /\ [fetches[g] EXCEPT !.state = "gone"].state = "gone"
    BY FetchTypes DEF FetchRecords
  <2>2. fetches' \in [1..Len(fetches) -> FetchRecords]
    BY <1>1, <2>1, FetchTypes
  <2>3. fetches' \in Seq(FetchRecords)
    BY <2>2, FetchTypes
  <2> QED
    BY <1>1, <2>1, <2>3
<1> QED
  BY <1>1, <1>2 DEF FetchInv

\* Every step keeps it.
LEMMA NextFetchInv == FetchInv /\ [Next]_vars => FetchInv'
<1> SUFFICES ASSUME FetchInv, [Next]_vars PROVE FetchInv'
  OBVIOUS
<1>1. ASSUME UNCHANGED <<fetches, inflight>> PROVE FetchInv'
  BY <1>1 DEF FetchInv
<1>2. CASE UNCHANGED vars \/ Perform \/ \E s \in Sources : Expire(s)
  BY <1>1, <1>2 DEF vars, Perform, Expire, cache
<1>3. ASSUME NEW c \in Tabs,
             \/ OpenConnectors(c) \/ SaveConnectors(c)
             \/ InstallSkill(c) \/ InstallFails(c)
             \/ OpenSkills(c) \/ SaveSkills(c) \/ RefuseSkills(c)
      PROVE  FetchInv'
  BY <1>1, <1>3 DEF OpenConnectors, SaveConnectors, InstallSkill, InstallFails, OpenSkills,
                    SaveSkills, RefuseSkills, cache
<1>4. ASSUME NEW c \in Tabs, NEW x \in Ids,
             UninstallConnector(c, x) \/ ImportSkill(c, x) \/ UninstallSkill(c, x)
      PROVE  FetchInv'
  BY <1>1, <1>4 DEF UninstallConnector, ImportSkill, UninstallSkill, cache
<1>5. ASSUME NEW c \in Tabs, NEW k \in Slugs, AskSkill(c, k)
      PROVE  FetchInv'
  BY <1>1, <1>5 DEF AskSkill, cache
<1> QED
  BY <1>2, <1>3, <1>4, <1>5, FetchesGone, FetchAsked, FetchEnded, FetchTaken DEF Next

\* However requests join fetches, are late to take their answer, or go with the process,
\* one fetch of an entry is under way at a time.
THEOREM FetchedOnce == Spec => []OneFetch
<1>1. FetchInv => OneFetch
  BY DEF FetchInv, OneFetch
<1> QED
  BY <1>1, InitFetchInv, NextFetchInv, PTL DEF Spec

-----------------------------------------------------------------------------
(* Lists.                                                                  *)

\* A name that is listed once at most; a list without a name twice.
Once(list, x) == \A i, j \in DOMAIN list : list[i].id = x /\ list[j].id = x => i = j
Distinct(list) == \A i, j \in DOMAIN list : list[i].id = list[j].id => i = j

\* A set of natural numbers has a least one.
LEMMA LeastExists ==
  ASSUME NEW S, S \subseteq Nat, S # {}
  PROVE  \E m \in S : \A k \in S : m <= k
<1>1. PICK m \in S : \A k \in S : ~ (<<k, m>> \in OpToRel(<, Nat))
  BY NatLessThanWellFounded, WFMin
<1>2. \A k \in S : m <= k
  <2> SUFFICES ASSUME NEW k \in S, ~ (m <= k) PROVE FALSE
    OBVIOUS
  <2>1. k \in Nat /\ m \in Nat /\ k < m
    OBVIOUS
  <2> QED BY <1>1, <2>1 DEF OpToRel
<1> QED BY <1>2

\* The n-th place is p[n], each of them is some p[n], once.
PlacesAre(places, c, p) ==
  /\ p \in [1..c -> places]
  /\ \A i \in places : \E n \in 1..c : p[n] = i
  /\ \A m, n \in 1..c : p[m] = p[n] => m = n

Along(s, c, p) == [n \in 1..c |-> s[p[n]]]

\* What is picked is the list along the places.
LEMMA PickedFacts ==
  ASSUME NEW s, NEW l \in Nat, NEW places, places \subseteq 1..l
  PROVE  \E c \in Nat : \E p : PlacesAre(places, c, p) /\ Picked(s, places) = Along(s, c, p)
<1> DEFINE c == Cardinality(places)
           Below(i) == {j \in places : j < i}
           rank == [i \in places |-> Cardinality(Below(i)) + 1]
           p == [n \in 1..c |-> CHOOSE i \in places : Cardinality(Below(i)) = n - 1]
<1>1. IsFiniteSet(places) /\ c \in Nat
  <2>1. IsFiniteSet(1..l)
    BY FS_Interval
  <2>2. IsFiniteSet(places)
    BY <2>1, FS_Subset
  <2> QED BY <2>2, FS_CardinalityType
<1>2. ASSUME NEW i \in places PROVE Cardinality(Below(i)) \in 0..(c - 1)
  <2>1. Below(i) \in SUBSET places /\ i \notin Below(i)
    OBVIOUS
  <2>2. IsFiniteSet(Below(i)) /\ Cardinality(Below(i)) <= c /\ Cardinality(Below(i)) # c
    BY <1>1, <2>1, FS_Subset
  <2>3. Cardinality(Below(i)) \in Nat
    BY <2>2, FS_CardinalityType
  <2> QED BY <1>1, <2>2, <2>3
<1>3. ASSUME NEW i \in places, NEW k \in places, i < k
      PROVE  Cardinality(Below(i)) # Cardinality(Below(k))
  <2>1. Below(i) \in SUBSET Below(k) /\ i \in Below(k) /\ i \notin Below(i) /\ Below(k) \in SUBSET places
    <3>1. \A j \in places : j < i => j < k
      BY <1>3
    <3>2. ~ (i < i)
      OBVIOUS
    <3> QED BY <1>3, <3>1, <3>2
  <2>2. IsFiniteSet(Below(k))
    BY <1>1, <2>1, FS_Subset
  <2> QED BY <2>1, <2>2, FS_Subset
<1>4. \A i, k \in places : Cardinality(Below(i)) = Cardinality(Below(k)) => i = k
  <2> SUFFICES ASSUME NEW i \in places, NEW k \in places, Cardinality(Below(i)) = Cardinality(Below(k)), i # k
               PROVE  FALSE
    OBVIOUS
  <2>1. i < k \/ k < i
    OBVIOUS
  <2> QED BY <1>3, <2>1
<1>5. rank \in Injection(places, 1..c)
  <2>1. rank \in [places -> 1..c]
    BY <1>1, <1>2
  <2>2. \A i, k \in places : rank[i] = rank[k] => i = k
    <3> SUFFICES ASSUME NEW i \in places, NEW k \in places, rank[i] = rank[k] PROVE i = k
      OBVIOUS
    <3>1. Cardinality(Below(i)) \in Int /\ Cardinality(Below(k)) \in Int
      BY <1>1, <1>2
    <3>2. Cardinality(Below(i)) = Cardinality(Below(k))
      BY <3>1
    <3> QED BY <1>4, <3>2
  <2> QED BY <2>1, <2>2 DEF Injection, IsInjective
<1>6. rank \in Surjection(places, 1..c)
  <2>1. IsFiniteSet(1..c) /\ Cardinality(1..c) = c
    BY <1>1, FS_Interval
  <2> QED BY <1>5, <2>1, FS_Injection
<1>7. \A n \in 1..c : p[n] \in places /\ Cardinality(Below(p[n])) = n - 1
  <2> SUFFICES ASSUME NEW n \in 1..c PROVE p[n] \in places /\ Cardinality(Below(p[n])) = n - 1
    OBVIOUS
  <2>1. PICK i \in places : rank[i] = n
    BY <1>6 DEF Surjection
  <2>2. Cardinality(Below(i)) = n - 1
    BY <1>1, <1>2, <2>1
  <2> QED BY <2>2
<1>8. p \in [1..c -> places]
  BY <1>7
<1>9. \A i \in places : \E n \in 1..c : p[n] = i
  <2> SUFFICES ASSUME NEW i \in places PROVE \E n \in 1..c : p[n] = i
    OBVIOUS
  <2>1. rank[i] \in 1..c /\ rank[i] - 1 = Cardinality(Below(i))
    BY <1>1, <1>2
  <2>2. p[rank[i]] = i
    BY <1>4, <1>7, <2>1
  <2> QED BY <2>1, <2>2
<1>10. \A m, n \in 1..c : p[m] = p[n] => m = n
  <2> SUFFICES ASSUME NEW m \in 1..c, NEW n \in 1..c, p[m] = p[n] PROVE m = n
    OBVIOUS
  <2>1. m - 1 = n - 1
    BY <1>7
  <2> QED BY <2>1
<1>11. Picked(s, places) = Along(s, c, p)
  BY DEF Picked, Along
<1>12. PlacesAre(places, c, p)
  BY <1>8, <1>9, <1>10 DEF PlacesAre
<1> HIDE DEF c, p
<1> QED BY <1>1, <1>11, <1>12

\* The first servers are kept, and no two of them clash.
LEMMA DedupeFacts ==
  ASSUME NEW S, NEW s \in Seq(S)
  PROVE  /\ DedupeServers(s) \in Seq(S)
         /\ \A i, j \in DOMAIN DedupeServers(s) :
              \/ DedupeServers(s)[i].id = DedupeServers(s)[j].id
              \/ DedupeServers(s)[i].conn = DedupeServers(s)[j].conn
              => i = j
<1> DEFINE l == Len(s)
           Chain(f, n) == f = [m \in 0..n |-> IF m = 0 THEN <<>> ELSE KeptWith(f[m - 1], s[m])]
           Bad == {n \in 0..l : \A f : ~Chain(f, n)}
           kept == CHOOSE f : Chain(f, l)
<1>1. l \in Nat
  OBVIOUS
<1>2. Bad = {}
  <2> SUFFICES ASSUME Bad # {} PROVE FALSE
    OBVIOUS
  <2>1. PICK b \in Bad : \A k \in Bad : b <= k
    <3>1. Bad \subseteq Nat
      OBVIOUS
    <3> HIDE DEF Bad
    <3> QED BY <3>1, LeastExists
  <2>2. b # 0
    <3> DEFINE g == [m \in 0..0 |-> <<>>]
    <3>1. Chain(g, 0)
      OBVIOUS
    <3> QED BY <3>1
  <2>3. PICK f : Chain(f, b - 1)
    <3>1. b - 1 \in 0..l /\ ~ (b <= b - 1)
      BY <1>1, <2>1, <2>2
    <3>2. b - 1 \notin Bad
      BY <2>1, <3>1
    <3> QED BY <3>1, <3>2
  <2> DEFINE g == [m \in 0..b |-> IF m < b THEN f[m] ELSE KeptWith(f[b - 1], s[b])]
  <2>4. Chain(g, b)
    <3>1. \A m \in 0..b : g[m] = IF m = 0 THEN <<>> ELSE KeptWith(g[m - 1], s[m])
      <4> SUFFICES ASSUME NEW m \in 0..b PROVE g[m] = IF m = 0 THEN <<>> ELSE KeptWith(g[m - 1], s[m])
        OBVIOUS
      <4> HIDE DEF Bad
      <4>1. CASE m = b
        BY <1>1, <2>1, <2>2, <4>1 DEF Bad
      <4>2. CASE m # b
        BY <1>1, <2>1, <2>2, <2>3, <4>2 DEF Bad
      <4> QED BY <4>1, <4>2
    <3> QED BY <3>1
  <2> QED BY <2>1, <2>4
<1>3. Chain(kept, l)
  <2>1. \E f : Chain(f, l)
    BY <1>1, <1>2
  <2> QED BY <2>1
<1>4. DedupeServers(s) = kept[l]
  BY DEF DedupeServers
<1> DEFINE Tidy(d) ==
             /\ d \in Seq(S)
             /\ \A i, j \in DOMAIN d : d[i].id = d[j].id \/ d[i].conn = d[j].conn => i = j
           Untidy == {n \in 0..l : ~Tidy(kept[n])}
<1>c. \A m \in 0..l : kept[m] = IF m = 0 THEN <<>> ELSE KeptWith(kept[m - 1], s[m])
  <2> HIDE DEF kept
  <2> QED BY <1>3
<1> HIDE DEF kept
<1>5. ASSUME NEW n \in 1..l, Tidy(kept[n - 1]) PROVE Tidy(kept[n])
  <2> DEFINE d == kept[n - 1]
             e == s[n]
  <2>1. kept[n] = KeptWith(d, e) /\ e \in S
    <3>1. n \in 0..l /\ n # 0
      BY <1>1
    <3> QED BY <1>1, <1>c, <3>1
  <2> HIDE DEF d, e
  <2>2. CASE \E i \in DOMAIN d : d[i].id = e.id \/ d[i].conn = e.conn
    BY <1>5, <2>1, <2>2 DEF KeptWith, d
  <2>3. CASE ~ \E i \in DOMAIN d : d[i].id = e.id \/ d[i].conn = e.conn
    <3>1. kept[n] = Append(d, e) /\ d \in Seq(S)
      BY <1>5, <2>1, <2>3 DEF KeptWith, d
    <3>2. /\ kept[n] \in Seq(S) /\ DOMAIN kept[n] = 1..(Len(d) + 1) /\ Len(d) \in Nat /\ DOMAIN d = 1..Len(d)
          /\ kept[n][Len(d) + 1] = e /\ \A i \in 1..Len(d) : kept[n][i] = d[i]
      BY <2>1, <3>1
    <3>3. \A i \in DOMAIN kept[n] : i \in DOMAIN d \/ i = Len(d) + 1
      BY <3>2
    <3> QED BY <1>5, <2>3, <3>2, <3>3 DEF d
  <2> QED BY <2>2, <2>3
<1>6. Tidy(kept[0])
  <2>1. kept[0] = <<>>
    <3>1. 0 \in 0..l
      BY <1>1
    <3> QED BY <1>c, <3>1
  <2>2. <<>> \in Seq(S) /\ DOMAIN <<>> = {}
    OBVIOUS
  <2> QED BY <2>1, <2>2
<1> HIDE DEF Tidy
<1>7. Untidy = {}
  <2> SUFFICES ASSUME Untidy # {} PROVE FALSE
    OBVIOUS
  <2>1. PICK b \in Untidy : \A k \in Untidy : b <= k
    <3>1. Untidy \subseteq Nat
      OBVIOUS
    <3> HIDE DEF Untidy
    <3> QED BY <3>1, LeastExists
  <2>2. b \in 1..l /\ b - 1 \in 0..l /\ ~ (b <= b - 1)
    BY <1>1, <1>6, <2>1
  <2>3. Tidy(kept[b - 1])
    BY <2>1, <2>2
  <2> QED BY <1>5, <2>1, <2>2, <2>3
<1>8. Tidy(kept[l])
  BY <1>1, <1>7
<1> QED BY <1>4, <1>8 DEF Tidy

\* The row of a name is one of the list.
LEMMA RowOfIn ==
  ASSUME NEW S, NEW s \in Seq(S), NEW x \in Keys(s)
  PROVE  \E i \in DOMAIN s : s[i].id = x /\ RowOf(s, x) = s[i] /\ s[i] \in S
<1> DEFINE places == {i \in DOMAIN s : s[i].id = x}
           Final(i) == s[i].id = x /\ \A j \in DOMAIN s : s[j].id = x => j <= i
           back == {k \in 0..Len(s) : Len(s) - k \in places}
<1>1. DOMAIN s = 1..Len(s) /\ Len(s) \in Nat
  OBVIOUS
<1>2. back # {}
  <2>1. PICK i \in DOMAIN s : s[i].id = x
    BY DEF Keys
  <2>2. Len(s) - i \in 0..Len(s) /\ Len(s) - (Len(s) - i) = i
    BY <1>1, <2>1
  <2> QED BY <2>1, <2>2
<1>3. PICK k \in back : \A m \in back : k <= m
  <2>1. back \subseteq Nat
    BY <1>1
  <2> HIDE DEF back
  <2> QED BY <1>2, <2>1, LeastExists
<1>4. Len(s) - k \in DOMAIN s /\ Final(Len(s) - k)
  <2> SUFFICES ASSUME NEW j \in DOMAIN s, s[j].id = x PROVE j <= Len(s) - k
    BY <1>3
  <2>1. Len(s) - j \in 0..Len(s) /\ Len(s) - (Len(s) - j) = j
    BY <1>1
  <2>2. Len(s) - j \in back
    BY <2>1
  <2>3. k <= Len(s) - j /\ k \in Int
    BY <1>3, <2>2
  <2> QED BY <1>1, <2>3
<1> DEFINE n == CHOOSE i \in DOMAIN s : Final(i)
<1>5. n \in DOMAIN s /\ Final(n)
  BY <1>4
<1>6. RowOf(s, x) = s[n]
  BY DEF RowOf
<1> QED BY <1>5, <1>6

\* It is the only one of a name that is listed once.
LEMMA RowOfOnce ==
  ASSUME NEW s, NEW x, Once(s, x), DOMAIN s \subseteq Nat, NEW i \in DOMAIN s, s[i].id = x
  PROVE  RowOf(s, x) = s[i]
<1> DEFINE Final(k) == s[k].id = x /\ \A j \in DOMAIN s : s[j].id = x => j <= k
           n == CHOOSE k \in DOMAIN s : Final(k)
<1>1. Final(i)
  <2> SUFFICES ASSUME NEW j \in DOMAIN s, s[j].id = x PROVE j <= i
    OBVIOUS
  <2>1. j = i /\ i \in Nat
    BY DEF Once
  <2> QED BY <2>1
<1>2. n \in DOMAIN s /\ Final(n)
  BY <1>1
<1>3. n = i
  BY <1>2 DEF Once
<1>4. RowOf(s, x) = s[n]
  BY DEF RowOf
<1> QED BY <1>3, <1>4

\* Lists of the same names, in the same order.
LEMMA SameNames ==
  ASSUME NEW s, NEW t, DOMAIN s = DOMAIN t, \A i \in DOMAIN s : s[i].id = t[i].id
  PROVE  /\ Keys(s) = Keys(t)
         /\ Distinct(s) => Distinct(t)
         /\ \A x : Once(s, x) => Once(t, x)
<1>1. Keys(s) = Keys(t)
  BY DEF Keys
<1>2. ASSUME NEW x, Once(s, x) PROVE Once(t, x)
  BY <1>2 DEF Once
<1>3. Distinct(s) => Distinct(t)
  BY DEF Distinct
<1> QED BY <1>1, <1>2, <1>3

\* A list without a name twice has every name once.
LEMMA DistinctOnce ==
  ASSUME NEW s, Distinct(s), NEW x
  PROVE  Once(s, x)
BY DEF Distinct, Once

\* A name is listed once in a list of its own, and in one that does not have it.
LEMMA AbsentOnce ==
  ASSUME NEW s, NEW x, x \notin Keys(s)
  PROVE  Once(s, x)
BY DEF Keys, Once

\* A row more of any name: the others stay listed once.
LEMMA AppendOthers ==
  ASSUME NEW S, NEW s \in Seq(S), NEW e \in S, NEW x, x # e.id, Once(s, x)
  PROVE  Once(Append(s, e), x)
<1> DEFINE t == Append(s, e)
           l == Len(s)
<1>1. /\ l \in Nat /\ DOMAIN s = 1..l /\ DOMAIN t = 1..(l + 1)
      /\ t[l + 1] = e /\ \A i \in 1..l : t[i] = s[i]
  OBVIOUS
<1> HIDE DEF t, l
<1>2. \A i \in DOMAIN t : i = l + 1 \/ i \in 1..l
  BY <1>1
<1>3. Once(t, x)
  BY <1>1, <1>2 DEF Once
<1> QED BY <1>3 DEF t

\* What a row more adds to the names.
LEMMA AppendKeys ==
  ASSUME NEW S, NEW s \in Seq(S), NEW e \in S
  PROVE  Append(s, e) \in Seq(S) /\ Keys(Append(s, e)) = Keys(s) \cup {e.id}
<1> DEFINE t == Append(s, e)
           l == Len(s)
<1>1. /\ l \in Nat /\ DOMAIN s = 1..l /\ DOMAIN t = 1..(l + 1)
      /\ t[l + 1] = e /\ \A i \in 1..l : t[i] = s[i]
  OBVIOUS
<1> HIDE DEF t, l
<1>2. \A i \in DOMAIN t : i = l + 1 \/ i \in 1..l
  BY <1>1
<1>3. l + 1 \in DOMAIN t /\ \A i \in 1..l : i \in DOMAIN t
  BY <1>1
<1>4. \A y \in Keys(t) : y \in Keys(s) \cup {e.id}
  BY <1>1, <1>2 DEF Keys
<1>5. \A y \in Keys(s) : y \in Keys(t)
  BY <1>1, <1>3 DEF Keys
<1>6. e.id \in Keys(t)
  BY <1>1, <1>3 DEF Keys
<1>7. Keys(t) = Keys(s) \cup {e.id}
  BY <1>4, <1>5, <1>6
<1> QED BY <1>7 DEF t

\* A row more.
LEMMA AppendFacts ==
  ASSUME NEW S, NEW s \in Seq(S), NEW e \in S, e.id \notin Keys(s)
  PROVE  LET t == Append(s, e) IN
         /\ t \in Seq(S) /\ Keys(t) = Keys(s) \cup {e.id} /\ RowOf(t, e.id) = e
         /\ Distinct(s) => Distinct(t)
         /\ \A x : Once(s, x) => /\ Once(t, x)
                                 /\ x \in Keys(s) => RowOf(t, x) = RowOf(s, x)
<1> DEFINE t == Append(s, e)
           l == Len(s)
<1>1. /\ t \in Seq(S) /\ l \in Nat /\ DOMAIN s = 1..l /\ DOMAIN t = 1..(l + 1)
      /\ t[l + 1] = e /\ \A i \in 1..l : t[i] = s[i]
  OBVIOUS
<1> HIDE DEF t, l
<1>2. \A i \in DOMAIN t : i = l + 1 \/ i \in 1..l
  BY <1>1
<1>3. l + 1 \in DOMAIN t /\ l + 1 \notin 1..l /\ \A i \in 1..l : i \in DOMAIN t
  BY <1>1
<1>4. \A i \in 1..l : t[i].id \in Keys(s) /\ t[i].id # e.id
  BY <1>1 DEF Keys
<1>5. Keys(t) = Keys(s) \cup {e.id}
  BY AppendKeys DEF t
<1>6. ASSUME NEW x, Once(s, x) PROVE Once(t, x)
  BY <1>1, <1>2, <1>4, <1>6 DEF Once
<1>7. Distinct(s) => Distinct(t)
  BY <1>1, <1>2, <1>4 DEF Distinct
<1>8. DOMAIN t \subseteq Nat /\ DOMAIN s \subseteq Nat
  BY <1>1
<1>9. RowOf(t, e.id) = e
  <2>1. Once(t, e.id)
    BY <1>6, AbsentOnce
  <2> QED BY <1>1, <1>3, <1>8, <2>1, RowOfOnce
<1>10. ASSUME NEW x, Once(s, x), x \in Keys(s) PROVE RowOf(t, x) = RowOf(s, x)
  <2>1. PICK i \in DOMAIN s : s[i].id = x
    BY <1>10 DEF Keys
  <2>2. RowOf(s, x) = s[i]
    BY <1>8, <1>10, <2>1, RowOfOnce
  <2>3. i \in DOMAIN t /\ t[i] = s[i] /\ Once(t, x)
    BY <1>1, <1>3, <1>6, <1>10, <2>1
  <2>4. RowOf(t, x) = t[i]
    BY <1>8, <2>1, <2>3, RowOfOnce
  <2> QED BY <2>2, <2>3, <2>4
<1> QED BY <1>1, <1>5, <1>6, <1>7, <1>9, <1>10 DEF t

\* A name less.
LEMMA WithoutFacts ==
  ASSUME NEW S, NEW s \in Seq(S), NEW id
  PROVE  LET t == Without(s, id) IN
         /\ t \in Seq(S) /\ Keys(t) = Keys(s) \ {id}
         /\ Distinct(s) => Distinct(t)
         /\ \A x : Once(s, x) => /\ Once(t, x)
                                 /\ x \in Keys(t) => RowOf(t, x) = RowOf(s, x)
<1> DEFINE t == Without(s, id)
           l == Len(s)
           places == {i \in DOMAIN s : s[i].id # id}
<1>1. l \in Nat /\ DOMAIN s = 1..l /\ places \subseteq 1..l /\ \A i \in 1..l : s[i] \in S
  OBVIOUS
<1>2. PICK c \in Nat : \E p : PlacesAre(places, c, p) /\ Picked(s, places) = Along(s, c, p)
  <2> HIDE DEF places, l
  <2> QED BY <1>1, PickedFacts
<1>3. PICK p : PlacesAre(places, c, p) /\ Picked(s, places) = Along(s, c, p)
  BY <1>2
<1>4. PlacesAre(places, c, p) /\ t = [n \in 1..c |-> s[p[n]]]
  BY <1>3 DEF Without, Along
<1> USE DEF PlacesAre
<1> HIDE DEF t, l
<1>5. DOMAIN t = 1..c /\ DOMAIN t \subseteq Nat /\ DOMAIN s \subseteq Nat
  BY <1>1, <1>3, <1>4
<1>6. \A n \in DOMAIN t : p[n] \in DOMAIN s /\ s[p[n]].id # id /\ t[n] = s[p[n]]
  BY <1>4, <1>5
<1>7. t \in Seq(S)
  <2>1. \A n \in 1..c : s[p[n]] \in S
    BY <1>1, <1>5, <1>6
  <2> QED BY <1>3, <1>4, <2>1
<1>8. Keys(t) = Keys(s) \ {id}
  <2>1. \A y \in Keys(t) : y \in Keys(s) \ {id}
    BY <1>6 DEF Keys
  <2>2. ASSUME NEW y \in Keys(s) \ {id} PROVE y \in Keys(t)
    <3>1. PICK i \in DOMAIN s : s[i].id = y
      BY DEF Keys
    <3>2. PICK n \in 1..c : p[n] = i
      BY <1>4, <3>1
    <3> QED BY <1>5, <1>6, <3>1, <3>2 DEF Keys
  <2> QED BY <2>1, <2>2
<1>9. ASSUME NEW x, Once(s, x) PROVE Once(t, x)
  <2> SUFFICES ASSUME NEW m \in DOMAIN t, NEW n \in DOMAIN t, t[m].id = x, t[n].id = x PROVE m = n
    BY DEF Once
  <2>1. p[m] = p[n]
    BY <1>6, <1>9 DEF Once
  <2> QED BY <1>4, <1>5, <2>1
<1>10. Distinct(s) => Distinct(t)
  <2> SUFFICES ASSUME Distinct(s), NEW m \in DOMAIN t, NEW n \in DOMAIN t, t[m].id = t[n].id PROVE m = n
    BY DEF Distinct
  <2>1. p[m] = p[n]
    BY <1>6 DEF Distinct
  <2> QED BY <1>4, <1>5, <2>1
<1>11. ASSUME NEW x, Once(s, x), x \in Keys(t) PROVE RowOf(t, x) = RowOf(s, x)
  <2>1. PICK n \in DOMAIN t : t[n].id = x
    BY <1>11 DEF Keys
  <2>2. RowOf(t, x) = t[n]
    BY <1>5, <1>9, <1>11, <2>1, RowOfOnce
  <2>3. p[n] \in DOMAIN s /\ s[p[n]] = t[n]
    BY <1>6, <2>1
  <2>4. RowOf(s, x) = s[p[n]]
    BY <1>5, <1>11, <2>1, <2>3, RowOfOnce
  <2> QED BY <2>2, <2>3, <2>4
<1> HIDE DEF PlacesAre
<1> QED BY <1>7, <1>8, <1>9, <1>10, <1>11 DEF t

\* The entries of a name tell whether it is listed, whether once, and its row.
LEMMA EntriesFacts ==
  ASSUME NEW S, NEW s \in Seq(S), NEW x
  PROVE  LET e == Picked(s, {i \in DOMAIN s : s[i].id = x}) IN
         /\ Len(e) <= 1 <=> Once(s, x)
         /\ e # <<>> <=> x \in Keys(s)
         /\ Once(s, x) /\ x \in Keys(s) => e[1] = RowOf(s, x)
<1> DEFINE places == {i \in DOMAIN s : s[i].id = x}
           e == Picked(s, places)
           l == Len(s)
<1>1. l \in Nat /\ DOMAIN s = 1..l /\ places \subseteq 1..l
  OBVIOUS
<1>2. PICK c \in Nat : \E p : PlacesAre(places, c, p) /\ Picked(s, places) = Along(s, c, p)
  <2> HIDE DEF places, l
  <2> QED BY <1>1, PickedFacts
<1>3. PICK p : PlacesAre(places, c, p) /\ e = Along(s, c, p)
  BY <1>2
<1> USE DEF PlacesAre, Along
<1> HIDE DEF e, l
<1>4. Len(e) = c /\ DOMAIN e = 1..c
  BY <1>2, <1>3
<1>5. Once(s, x) => c <= 1
  <2> SUFFICES ASSUME Once(s, x), c > 1 PROVE FALSE
    BY <1>2
  <2>1. 1 \in 1..c /\ 2 \in 1..c
    BY <1>2
  <2>2. p[1] = p[2]
    BY <1>3, <2>1 DEF Once
  <2> QED BY <1>3, <2>1, <2>2
<1>6. c <= 1 => Once(s, x)
  <2> SUFFICES ASSUME c <= 1, NEW i \in DOMAIN s, NEW j \in DOMAIN s, s[i].id = x, s[j].id = x PROVE i = j
    BY DEF Once
  <2>1. i \in places /\ j \in places
    OBVIOUS
  <2>2. PICK m \in 1..c : p[m] = i
    BY <1>3, <2>1
  <2>3. PICK n \in 1..c : p[n] = j
    BY <1>3, <2>1
  <2>4. m = n
    BY <1>2, <2>2, <2>3
  <2> QED BY <2>2, <2>3, <2>4
<1>7. e # <<>> <=> c # 0
  <2>1. c = 0 => e = <<>>
    BY <1>3
  <2>2. e = <<>> => c = 0
    BY <1>4
  <2> QED BY <2>1, <2>2
<1>8. c # 0 <=> x \in Keys(s)
  <2>1. ASSUME c # 0 PROVE x \in Keys(s)
    <3>1. 1 \in 1..c
      BY <1>2, <2>1
    <3>2. p[1] \in places
      BY <1>3, <3>1
    <3> QED BY <3>2 DEF Keys
  <2>2. ASSUME x \in Keys(s) PROVE c # 0
    <3>1. PICK i \in DOMAIN s : s[i].id = x
      BY <2>2 DEF Keys
    <3>2. PICK n \in 1..c : p[n] = i
      BY <1>3, <3>1
    <3> QED BY <1>2, <3>2
  <2> QED BY <2>1, <2>2
<1>9. ASSUME Once(s, x), x \in Keys(s) PROVE e[1] = RowOf(s, x)
  <2>1. 1 \in 1..c
    BY <1>2, <1>8, <1>9
  <2>2. p[1] \in DOMAIN s /\ s[p[1]].id = x /\ e[1] = s[p[1]]
    BY <1>3, <2>1
  <2>3. DOMAIN s \subseteq Nat
    BY <1>1
  <2> QED BY <1>9, <2>2, <2>3, RowOfOnce
<1>10. Len(e) <= 1 <=> Once(s, x)
  BY <1>4, <1>5, <1>6
<1>11. e # <<>> <=> x \in Keys(s)
  BY <1>7, <1>8
<1> HIDE DEF PlacesAre, Along
<1> QED BY <1>9, <1>10, <1>11 DEF e

-----------------------------------------------------------------------------
(* What the files hold, and will hold when the writes of the turn are      *)
(* performed.                                                              *)

Conns == {"manual"} \cup {MapInstall(Server[s]).conn : s \in Sources}
Entry == [id : Ids, conn : Conns, secret : {"none", "key", "***"}, enabled : BOOLEAN]
Row == [id : Ids, enabled : BOOLEAN, origin : Sources \cup Slugs \cup {NoOne}]
Contents == Slugs \cup {"own", NoPackage}

FilesInv ==
  /\ connections \in Seq(Entry) /\ Distinct(connections)
  /\ rows \in Seq(Row) \cup {NoFile} /\ skillRows \in Seq(Row) \cup {NoFile}
  /\ packages \in [Ids -> Contents]

Writes ==
  [file : {"connections"}, id : {NoOne}, value : Seq(Entry)]
  \cup [file : {"rows", "skillRows"}, id : {NoOne}, value : Seq(Row)]
  \cup [file : {"packages"}, id : Ids, value : Contents]

\* No secret that is still there is replaced by its mask.
SecretSafe(list) ==
  \A x \in Keys(connections) \cap Keys(list) :
    RowOf(connections, x).secret = "key" => RowOf(list, x).secret # "***"

\* The connections are written first, and the catalogues that are missing are being made.
WritesInv ==
  /\ writes \in Seq(Writes)
  /\ \A n \in DOMAIN writes : writes[n].file = "connections" =>
       n = 1 /\ Distinct(writes[n].value) /\ SecretSafe(writes[n].value)
  /\ NoFile \in {rows, skillRows} => writes = Ensure(rows, skillRows)
  /\ rows = NoFile => skillRows = NoFile

\* What a file, or the package of x, will be after ws: what it is, unless it is written.
Ahead(ws, file, now) ==
  LET places == {n \in DOMAIN ws : ws[n].file = file}
  IN IF places = {} THEN {now} ELSE {ws[n].value : n \in places}
PackageAhead(ws, x, now) ==
  LET places == {n \in DOMAIN ws : ws[n].file = "packages" /\ ws[n].id = x}
  IN IF places = {} THEN {now} ELSE {ws[n].value : n \in places}

\* Files that agree about x.
Agree(x, conns, listed, skills, contents) ==
  /\ x \in Keys(conns) <=> x \in Keys(listed)
  /\ Once(listed, x) /\ Once(skills, x)
  /\ x \in Keys(listed) => RowOf(listed, x).enabled = RowOf(conns, x).enabled
  /\ x \in Keys(skills) => NoPackage \notin contents

\* Once the turn is over they agree about every name no crash has caught.
WillAgree ==
  \A x \in Ids \ torn :
    \A conns \in Ahead(writes, "connections", connections), listed \in Ahead(writes, "rows", rows),
       skills \in Ahead(writes, "skillRows", skillRows) :
      Agree(x, conns, listed, skills, PackageAhead(writes, x, packages[x]))

\* What a tab waits for, or has on its screen.
FormOK(where, j) ==
  /\ where = "fetching" => j.of \in Sources /\ j.id \in Ids
  /\ where = "downloading" => j.of \in Slugs
  /\ where = "connectors" => j.list \in Seq(Entry) /\ Distinct(j.list)
  /\ where = "skills" => j.list \in Seq(Row) /\ \A x \in Ids \ torn : Once(j.list, x)
FormsInv ==
  /\ DOMAIN pc = Tabs /\ DOMAIN job = Tabs
  /\ \A c \in Tabs : FormOK(pc[c], job[c])

DiskInv == FilesInv /\ WritesInv /\ WillAgree
MarketInv == DiskInv /\ FormsInv

\* The mark of a missing catalogue is not a list.
LEMMA NoFileIsNoList == NoFile \notin Seq(Row) /\ NoFile \notin Seq(Entry)
<1> DEFINE m == [id |-> "missing"]
<1>1. m \notin Row
  <2> SUFFICES ASSUME m \in Row PROVE FALSE
    OBVIOUS
  <2>1. "origin" \in DOMAIN m
    BY DEF Row
  <2> QED BY <2>1
<1>2. m \notin Entry
  <2> SUFFICES ASSUME m \in Entry PROVE FALSE
    OBVIOUS
  <2>1. "conn" \in DOMAIN m
    BY DEF Entry
  <2> QED BY <2>1
<1>3. NoFile = << m >> /\ 1 \in DOMAIN << m >> /\ << m >>[1] = m
  BY DEF NoFile
<1>4. \A T : \A s \in Seq(T) : \A i \in DOMAIN s : s[i] \in T
  OBVIOUS
<1> QED BY <1>1, <1>2, <1>3, <1>4

\* What is written where.
LEMMA WriteFacts ==
  ASSUME NEW w \in Writes
  PROVE  /\ w.file \in {"connections", "rows", "skillRows", "packages"}
         /\ w.file = "connections" => w.value \in Seq(Entry)
         /\ w.file \in {"rows", "skillRows"} => w.value \in Seq(Row)
         /\ w.file = "packages" => w.id \in Ids /\ w.value \in Contents
BY DEF Writes

\* What the operators of the module write are writes.
LEMMA WriteIs ==
  /\ \A list \in Seq(Entry) : Write("connections", list) \in Writes
  /\ \A list \in Seq(Row) : Write("rows", list) \in Writes /\ Write("skillRows", list) \in Writes
  /\ \A id \in Ids, content \in Contents : Package(id, content) \in Writes
BY DEF Writes, Write, Package

\* When a write was performed, no file will be anything else than before.
LEMMA AheadOfRest ==
  ASSUME NEW S, NEW ws \in Seq(S), ws # <<>>, NEW file, NEW now
  PROVE  Ahead(Tail(ws), file, IF Head(ws).file = file THEN Head(ws).value ELSE now)
           \subseteq Ahead(ws, file, now)
<1> DEFINE us == Tail(ws)
           before == {n \in DOMAIN ws : ws[n].file = file}
           after == {n \in DOMAIN us : us[n].file = file}
<1>1. /\ Len(ws) \in Nat /\ DOMAIN ws = 1..Len(ws) /\ 1 \in DOMAIN ws /\ Head(ws) = ws[1]
      /\ \A n \in DOMAIN us : n + 1 \in DOMAIN ws /\ us[n] = ws[n + 1]
  OBVIOUS
<1> HIDE DEF us
<1>2. CASE after # {}
  <2>1. \A n \in after : n + 1 \in before /\ us[n].value = ws[n + 1].value
    BY <1>1
  <2>2. before # {}
    BY <1>2, <2>1
  <2>3. {us[n].value : n \in after} \subseteq {ws[n].value : n \in before}
    BY <2>1
  <2> QED BY <1>2, <2>2, <2>3 DEF Ahead, us
<1>3. CASE after = {} /\ Head(ws).file = file
  <2>1. 1 \in before
    BY <1>1, <1>3
  <2>2. Head(ws).value \in {ws[n].value : n \in before}
    BY <1>1, <2>1
  <2> QED BY <1>3, <2>1, <2>2 DEF Ahead, us
<1>4. CASE after = {} /\ Head(ws).file # file
  <2>1. before = {}
    <3> SUFFICES ASSUME NEW n \in before PROVE FALSE
      OBVIOUS
    <3>1. n # 1
      BY <1>1, <1>4
    <3>2. n - 1 \in DOMAIN us /\ us[n - 1] = ws[n]
      BY <1>1, <3>1 DEF us
    <3> QED BY <1>4, <3>2
  <2> QED BY <1>4, <2>1 DEF Ahead, us
<1> QED BY <1>2, <1>3, <1>4

\* The same of a package.
LEMMA PackageAheadOfRest ==
  ASSUME NEW S, NEW ws \in Seq(S), ws # <<>>, NEW x, NEW now
  PROVE  PackageAhead(Tail(ws), x, IF Head(ws).file = "packages" /\ Head(ws).id = x
                                   THEN Head(ws).value ELSE now)
           \subseteq PackageAhead(ws, x, now)
<1> DEFINE us == Tail(ws)
           before == {n \in DOMAIN ws : ws[n].file = "packages" /\ ws[n].id = x}
           after == {n \in DOMAIN us : us[n].file = "packages" /\ us[n].id = x}
<1>1. /\ Len(ws) \in Nat /\ DOMAIN ws = 1..Len(ws) /\ 1 \in DOMAIN ws /\ Head(ws) = ws[1]
      /\ \A n \in DOMAIN us : n + 1 \in DOMAIN ws /\ us[n] = ws[n + 1]
  OBVIOUS
<1> HIDE DEF us
<1>2. CASE after # {}
  <2>1. \A n \in after : n + 1 \in before /\ us[n].value = ws[n + 1].value
    BY <1>1
  <2>2. before # {}
    BY <1>2, <2>1
  <2>3. {us[n].value : n \in after} \subseteq {ws[n].value : n \in before}
    BY <2>1
  <2> QED BY <1>2, <2>2, <2>3 DEF PackageAhead, us
<1>3. CASE after = {} /\ Head(ws).file = "packages" /\ Head(ws).id = x
  <2>1. 1 \in before
    BY <1>1, <1>3
  <2>2. Head(ws).value \in {ws[n].value : n \in before}
    BY <1>1, <2>1
  <2> QED BY <1>3, <2>1, <2>2 DEF PackageAhead, us
<1>4. CASE after = {} /\ ~ (Head(ws).file = "packages" /\ Head(ws).id = x)
  <2>1. before = {}
    <3> SUFFICES ASSUME NEW n \in before PROVE FALSE
      OBVIOUS
    <3>1. n # 1
      BY <1>1, <1>4
    <3>2. n - 1 \in DOMAIN us /\ us[n - 1] = ws[n]
      BY <1>1, <3>1 DEF us
    <3> QED BY <1>4, <3>2
  <2> QED BY <1>4, <2>1 DEF PackageAhead, us
<1> QED BY <1>2, <1>3, <1>4

\* Nothing is ahead between turns.
LEMMA NothingAhead ==
  /\ \A file, now : Ahead(<<>>, file, now) = {now}
  /\ \A x, now : PackageAhead(<<>>, x, now) = {now}
<1>1. DOMAIN <<>> = {}
  OBVIOUS
<1> QED BY <1>1 DEF Ahead, PackageAhead

\* Between turns every file is there, and they agree.
LEMMA QuietFiles ==
  ASSUME DiskInv, Quiet
  PROVE  /\ connections \in Seq(Entry) /\ Distinct(connections)
         /\ rows \in Seq(Row) /\ skillRows \in Seq(Row)
         /\ packages \in [Ids -> Contents]
         /\ \A x \in Ids \ torn : Agree(x, connections, rows, skillRows, {packages[x]})
<1>1. \A listed, skillsListed : NoFile \in {listed, skillsListed} => Ensure(listed, skillsListed) # <<>>
  <2> SUFFICES ASSUME NEW listed, NEW skillsListed, NoFile \in {listed, skillsListed}
               PROVE  Ensure(listed, skillsListed) # <<>>
    OBVIOUS
  <2> DEFINE a == Write("rows", [i \in DOMAIN connections |->
                    SkillRow(connections[i].id, connections[i].enabled, NoOne)])
             b == Write("skillRows", [i \in 1..Cardinality({x \in Ids : packages[x] # NoPackage}) |->
                    SkillRow(SetToSeq({x \in Ids : packages[x] # NoPackage})[i], TRUE, NoOne)])
  <2>1. Ensure(listed, skillsListed) = (IF listed # NoFile THEN <<>> ELSE <<a>>) \o
                                       (IF skillsListed # NoFile THEN <<>> ELSE <<b>>)
    BY DEF Ensure
  <2> HIDE DEF a, b
  <2>2. <<a>> \o <<>> # <<>> /\ <<a>> \o <<b>> # <<>> /\ <<>> \o <<b>> # <<>>
    OBVIOUS
  <2> QED BY <2>1, <2>2
<1>2. NoFile \notin {rows, skillRows}
  BY <1>1 DEF DiskInv, WritesInv, Quiet
<1>3. \A x \in Ids \ torn : Agree(x, connections, rows, skillRows, {packages[x]})
  <2> SUFFICES ASSUME NEW x \in Ids \ torn PROVE Agree(x, connections, rows, skillRows, {packages[x]})
    OBVIOUS
  <2>1. /\ connections \in Ahead(writes, "connections", connections)
        /\ rows \in Ahead(writes, "rows", rows) /\ skillRows \in Ahead(writes, "skillRows", skillRows)
        /\ PackageAhead(writes, x, packages[x]) = {packages[x]}
    BY NothingAhead DEF Quiet
  <2>2. Agree(x, connections, rows, skillRows, PackageAhead(writes, x, packages[x]))
    BY <2>1 DEF DiskInv, WillAgree
  <2> QED BY <2>1, <2>2
<1> QED BY <1>2, <1>3 DEF DiskInv, FilesInv

-----------------------------------------------------------------------------
(* Performing a write; a crash.                                            *)

\* The file that is written becomes what it was going to be.
LEMMA PerformFiles == FilesInv /\ WritesInv /\ Perform => FilesInv'
<1> SUFFICES ASSUME FilesInv, WritesInv, Perform PROVE FilesInv'
  OBVIOUS
<1> DEFINE w == Head(writes)
<1>1. w \in Writes /\ 1 \in DOMAIN writes /\ w = writes[1]
  BY DEF WritesInv, Perform
<1>2. w.file = "connections" => Distinct(w.value)
  BY <1>1 DEF WritesInv
<1>3. /\ connections' = IF w.file = "connections" THEN w.value ELSE connections
      /\ rows' = IF w.file = "rows" THEN w.value ELSE rows
      /\ skillRows' = IF w.file = "skillRows" THEN w.value ELSE skillRows
      /\ packages' = IF w.file = "packages" THEN [packages EXCEPT ![w.id] = w.value] ELSE packages
  BY DEF Perform
<1> HIDE DEF w
<1>4. /\ w.file = "connections" => w.value \in Seq(Entry)
      /\ w.file \in {"rows", "skillRows"} => w.value \in Seq(Row)
      /\ w.file = "packages" => w.id \in Ids /\ w.value \in Contents
  BY <1>1, WriteFacts
<1>5. connections' \in Seq(Entry) /\ Distinct(connections')
  BY <1>2, <1>3, <1>4 DEF FilesInv
<1>6. rows' \in Seq(Row) \cup {NoFile} /\ skillRows' \in Seq(Row) \cup {NoFile}
  BY <1>3, <1>4 DEF FilesInv
<1>7. packages' \in [Ids -> Contents]
  BY <1>3, <1>4 DEF FilesInv
<1> QED BY <1>5, <1>6, <1>7 DEF FilesInv

\* One of two.
LEMMA TwoWrites ==
  ASSUME NEW a, NEW b
  PROVE  Head(<<a>> \o <<b>>) = a /\ Tail(<<a>> \o <<b>>) = <<b>>
<1> DEFINE s == <<a>> \o <<b>>
<1>1. /\ <<a>> \in Seq({a, b}) /\ <<b>> \in Seq({a, b}) /\ Len(<<a>>) = 1 /\ Len(<<b>>) = 1
      /\ <<a>>[1] = a /\ <<b>>[1] = b
  OBVIOUS
<1>2. s \in Seq({a, b}) /\ Len(s) = 2 /\ s[1] = a /\ s[2] = b
  BY <1>1
<1> HIDE DEF s
<1>3. s # <<>> /\ Head(s) = a
  BY <1>2
<1>4. Tail(s) \in Seq({a, b}) /\ Len(Tail(s)) = 1 /\ Tail(s)[1] = b
  BY <1>2, <1>3
<1> DEFINE t == Tail(s)
<1>t. t \in Seq({a, b}) /\ Len(t) = 1 /\ t[1] = b
  BY <1>4
<1> HIDE DEF t
<1>5. t = <<b>>
  <2>1. \A i \in 1..1 : i = 1
    OBVIOUS
  <2>2. t \in Seq({a, b}) /\ Len(t) = Len(<<b>>) /\ \A i \in 1..Len(t) : t[i] = <<b>>[i]
    BY <1>1, <1>t, <2>1
  <2> QED BY <1>1, <2>2, SeqEqual
<1> QED BY <1>3, <1>5 DEF s, t

\* The missing catalogues are made one after the other.
LEMMA PerformEnsures ==
  FilesInv /\ WritesInv /\ Perform =>
    /\ NoFile \in {rows', skillRows'} => writes' = Ensure(rows, skillRows)'
    /\ rows' = NoFile => skillRows' = NoFile
<1> SUFFICES ASSUME FilesInv, WritesInv, Perform
             PROVE  /\ NoFile \in {rows', skillRows'} => writes' = Ensure(rows, skillRows)'
                    /\ rows' = NoFile => skillRows' = NoFile
  OBVIOUS
<1> DEFINE w == Head(writes)
           a == Write("rows", [i \in DOMAIN connections |->
                  SkillRow(connections[i].id, connections[i].enabled, NoOne)])
           b == Write("skillRows", [i \in 1..Cardinality({x \in Ids : packages[x] # NoPackage}) |->
                  SkillRow(SetToSeq({x \in Ids : packages[x] # NoPackage})[i], TRUE, NoOne)])
           One(listed) == IF listed # NoFile THEN <<>> ELSE <<a>>
           Two(listed) == IF listed # NoFile THEN <<>> ELSE <<b>>
<1>1. w \in Writes /\ writes' = Tail(writes)
  BY DEF WritesInv, Perform
<1>2. /\ rows' = IF w.file = "rows" THEN w.value ELSE rows
      /\ skillRows' = IF w.file = "skillRows" THEN w.value ELSE skillRows
      /\ connections' = IF w.file = "connections" THEN w.value ELSE connections
      /\ packages' = IF w.file = "packages" THEN [packages EXCEPT ![w.id] = w.value] ELSE packages
  BY DEF Perform
<1>3. w.file \in {"rows", "skillRows"} => w.value # NoFile
  BY <1>1, WriteFacts, NoFileIsNoList
<1>4. Ensure(rows, skillRows) = One(rows) \o Two(skillRows)
  BY DEF Ensure
<1>5. connections' = connections /\ packages' = packages
      => Ensure(rows, skillRows)' = (IF rows' # NoFile THEN <<>> ELSE <<a>>) \o
                                    (IF skillRows' # NoFile THEN <<>> ELSE <<b>>)
  BY DEF Ensure
<1>6. a.file = "rows" /\ b.file = "skillRows"
  BY DEF Write
<1>7. rows = NoFile => skillRows = NoFile
  BY DEF WritesInv
<1>8. CASE rows = NoFile
  <2>1. writes = <<a>> \o <<b>>
    BY <1>4, <1>7, <1>8 DEF WritesInv
  <2> HIDE DEF a, b
  <2>2. w = a /\ writes' = <<b>>
    BY <1>1, <2>1, TwoWrites
  <2>3. /\ rows' # NoFile /\ skillRows' = skillRows /\ connections' = connections /\ packages' = packages
    BY <1>2, <1>3, <1>6, <2>2
  <2>4. <<>> \o <<b>> = <<b>>
    OBVIOUS
  <2> QED BY <1>5, <1>7, <1>8, <2>2, <2>3, <2>4
<1>9. CASE rows # NoFile /\ skillRows = NoFile
  <2>1. writes = <<>> \o <<b>>
    BY <1>4, <1>9 DEF WritesInv
  <2> HIDE DEF a, b
  <2>2. w = b
    BY <2>1
  <2>3. rows' # NoFile /\ skillRows' # NoFile
    BY <1>2, <1>3, <1>6, <1>9, <2>2
  <2> QED BY <2>3
<1>10. CASE rows # NoFile /\ skillRows # NoFile
  <2>1. rows' # NoFile /\ skillRows' # NoFile
    BY <1>2, <1>3, <1>10
  <2> QED BY <2>1
<1> QED BY <1>8, <1>9, <1>10

\* A write that is performed keeps the files on their way.
LEMMA PerformKeeps == DiskInv /\ Perform => DiskInv'
<1> SUFFICES ASSUME DiskInv, Perform PROVE DiskInv'
  OBVIOUS
<1> USE DEF DiskInv
<1> DEFINE w == Head(writes)
<1>1. FilesInv'
  BY PerformFiles
<1>2. writes \in Seq(Writes) /\ writes # <<>> /\ writes' = Tail(writes)
  BY DEF WritesInv, Perform
<1>3. writes' \in Seq(Writes)
  BY <1>2
<1>4. ASSUME NEW n \in DOMAIN writes' PROVE writes'[n].file # "connections"
  <2>1. n + 1 \in DOMAIN writes /\ writes'[n] = writes[n + 1] /\ n + 1 # 1
    BY <1>2
  <2> QED BY <2>1 DEF WritesInv
<1>5. WritesInv'
  BY <1>3, <1>4, PerformEnsures DEF WritesInv
<1>6. /\ connections' = IF w.file = "connections" THEN w.value ELSE connections
      /\ rows' = IF w.file = "rows" THEN w.value ELSE rows
      /\ skillRows' = IF w.file = "skillRows" THEN w.value ELSE skillRows
      /\ packages' = IF w.file = "packages" THEN [packages EXCEPT ![w.id] = w.value] ELSE packages
      /\ torn' = torn
  BY DEF Perform
<1>7. \A x \in Ids : packages'[x] = IF w.file = "packages" /\ w.id = x THEN w.value ELSE packages[x]
  BY <1>6 DEF FilesInv
<1>8. /\ Ahead(writes', "connections", connections') \subseteq Ahead(writes, "connections", connections)
      /\ Ahead(writes', "rows", rows') \subseteq Ahead(writes, "rows", rows)
      /\ Ahead(writes', "skillRows", skillRows') \subseteq Ahead(writes, "skillRows", skillRows)
  BY <1>2, <1>6, AheadOfRest
<1>9. \A x \in Ids : PackageAhead(writes', x, packages'[x]) \subseteq PackageAhead(writes, x, packages[x])
  BY <1>2, <1>7, PackageAheadOfRest
<1>10. WillAgree'
  <2> SUFFICES ASSUME NEW x \in Ids \ torn,
                      NEW conns \in Ahead(writes', "connections", connections'),
                      NEW listed \in Ahead(writes', "rows", rows'),
                      NEW skills \in Ahead(writes', "skillRows", skillRows')
               PROVE  Agree(x, conns, listed, skills, PackageAhead(writes', x, packages'[x]))
    BY <1>6 DEF WillAgree
  <2>1. Agree(x, conns, listed, skills, PackageAhead(writes, x, packages[x]))
    BY <1>8 DEF WillAgree
  <2> QED BY <1>9, <2>1 DEF Agree
<1> QED BY <1>1, <1>5, <1>10

\* Lists with the same entries of a name agree with the same.
LEMMA SameEntries ==
  ASSUME NEW S, NEW s \in Seq(S), s # NoFile, NEW t \in Seq(S), t # NoFile, NEW x,
         Entries(s, x) = Entries(t, x)
  PROVE  /\ x \in Keys(s) <=> x \in Keys(t)
         /\ Once(s, x) <=> Once(t, x)
         /\ Once(s, x) /\ x \in Keys(s) => RowOf(s, x) = RowOf(t, x)
<1> DEFINE e == Picked(s, {i \in DOMAIN s : s[i].id = x})
           f == Picked(t, {i \in DOMAIN t : t[i].id = x})
<1>1. e = f
  BY DEF Entries, Read
<1>2. /\ Len(e) <= 1 <=> Once(s, x)
      /\ e # <<>> <=> x \in Keys(s)
      /\ Once(s, x) /\ x \in Keys(s) => e[1] = RowOf(s, x)
  BY EntriesFacts
<1>3. /\ Len(f) <= 1 <=> Once(t, x)
      /\ f # <<>> <=> x \in Keys(t)
      /\ Once(t, x) /\ x \in Keys(t) => f[1] = RowOf(t, x)
  BY EntriesFacts
<1> HIDE DEF e, f
<1> QED BY <1>1, <1>2, <1>3

\* A write that would have made no difference to a name: the file has what it will have.
LEMMA UntouchedAhead ==
  ASSUME NEW S, NEW ws, NEW file, NEW now \in Seq(S), NEW x,
         \A n \in DOMAIN ws : ws[n].file = file =>
            ws[n].value \in Seq(S) /\ Entries(ws[n].value, x) = Entries(now, x)
  PROVE  \E then \in Ahead(ws, file, now) : then \in Seq(S) /\ Entries(then, x) = Entries(now, x)
<1> DEFINE places == {n \in DOMAIN ws : ws[n].file = file}
<1>1. CASE places = {}
  BY <1>1 DEF Ahead
<1>2. CASE places # {}
  <2>1. PICK n \in places : TRUE
    BY <1>2
  <2>2. ws[n].value \in Ahead(ws, file, now)
    BY <1>2, <2>1 DEF Ahead
  <2> QED BY <2>1, <2>2
<1> QED BY <1>1, <1>2

\* A crash gives up the names its writes would have touched; the others agree as they are.
LEMMA CrashKeeps == DiskInv /\ Crash => DiskInv'
<1> SUFFICES ASSUME DiskInv, Crash PROVE DiskInv'
  OBVIOUS
<1> USE DEF DiskInv
<1>1. /\ connections' = connections /\ rows' = rows /\ skillRows' = skillRows /\ packages' = packages
      /\ writes' = Ensure(rows, skillRows) /\ torn \subseteq torn'
      /\ \A n \in DOMAIN writes : Touched(writes[n]) \subseteq torn'
  BY DEF Crash, files
<1>2. FilesInv'
  BY <1>1 DEF FilesInv
<1>3. CASE NoFile \in {rows, skillRows}
  <2>1. writes' = writes
    BY <1>1, <1>3 DEF WritesInv
  <2>2. WritesInv'
    BY <1>1, <2>1 DEF WritesInv, SecretSafe, Ensure
  <2>3. WillAgree'
    BY <1>1, <2>1 DEF WillAgree
  <2> QED BY <1>2, <2>2, <2>3
<1>4. CASE NoFile \notin {rows, skillRows}
  <2>1. writes' = <<>>
    <3>1. <<>> \o <<>> = <<>>
      OBVIOUS
    <3> QED BY <1>1, <1>4, <3>1 DEF Ensure
  <2>2. WritesInv'
    <3>1. <<>> \in Seq(Writes) /\ DOMAIN <<>> = {}
      OBVIOUS
    <3> QED BY <1>1, <1>4, <2>1, <3>1 DEF WritesInv
  <2>3. /\ connections \in Seq(Entry) /\ rows \in Seq(Row) /\ skillRows \in Seq(Row)
        /\ connections # NoFile /\ rows # NoFile /\ skillRows # NoFile
    BY <1>4, NoFileIsNoList DEF FilesInv
  <2>4. ASSUME NEW x \in Ids \ torn'
        PROVE  Agree(x, connections, rows, skillRows, {packages[x]})
    <3>1. \A n \in DOMAIN writes : writes[n] \in Writes /\ x \notin Touched(writes[n])
      BY <1>1, <2>4 DEF WritesInv
    <3>2. ASSUME NEW n \in DOMAIN writes
          PROVE  /\ writes[n].file = "connections" =>
                      writes[n].value \in Seq(Entry) /\ Entries(writes[n].value, x) = Entries(connections, x)
                 /\ writes[n].file = "rows" =>
                      writes[n].value \in Seq(Row) /\ Entries(writes[n].value, x) = Entries(rows, x)
                 /\ writes[n].file = "skillRows" =>
                      writes[n].value \in Seq(Row) /\ Entries(writes[n].value, x) = Entries(skillRows, x)
                 /\ writes[n].file = "packages" => writes[n].id # x
      BY <2>3, <2>4, <3>1, WriteFacts DEF Touched
    <3>3. PICK conns \in Ahead(writes, "connections", connections) :
                 conns \in Seq(Entry) /\ Entries(conns, x) = Entries(connections, x)
      <4>1. \A n \in DOMAIN writes : writes[n].file = "connections" =>
              writes[n].value \in Seq(Entry) /\ Entries(writes[n].value, x) = Entries(connections, x)
        BY <3>2
      <4>2. connections \in Seq(Entry)
        BY <2>3
      <4> QED BY <4>1, <4>2, UntouchedAhead
    <3>4. PICK listed \in Ahead(writes, "rows", rows) :
                 listed \in Seq(Row) /\ Entries(listed, x) = Entries(rows, x)
      <4>1. \A n \in DOMAIN writes : writes[n].file = "rows" =>
              writes[n].value \in Seq(Row) /\ Entries(writes[n].value, x) = Entries(rows, x)
        BY <3>2
      <4> QED BY <2>3, <4>1, UntouchedAhead
    <3>5. PICK skills \in Ahead(writes, "skillRows", skillRows) :
                 skills \in Seq(Row) /\ Entries(skills, x) = Entries(skillRows, x)
      <4>1. \A n \in DOMAIN writes : writes[n].file = "skillRows" =>
              writes[n].value \in Seq(Row) /\ Entries(writes[n].value, x) = Entries(skillRows, x)
        BY <3>2
      <4> QED BY <2>3, <4>1, UntouchedAhead
    <3>6. PackageAhead(writes, x, packages[x]) = {packages[x]}
      BY <3>2 DEF PackageAhead
    <3>7. Agree(x, conns, listed, skills, {packages[x]})
      BY <1>1, <2>4, <3>6 DEF WillAgree
    <3>8. conns # NoFile /\ listed # NoFile /\ skills # NoFile
      BY <3>3, <3>4, <3>5, NoFileIsNoList
    <3>9. /\ x \in Keys(conns) <=> x \in Keys(connections)
          /\ Once(conns, x) /\ x \in Keys(conns) => RowOf(conns, x) = RowOf(connections, x)
      BY <2>3, <3>3, <3>8, SameEntries
    <3>10. /\ x \in Keys(listed) <=> x \in Keys(rows)
           /\ Once(listed, x) <=> Once(rows, x)
           /\ Once(listed, x) /\ x \in Keys(listed) => RowOf(listed, x) = RowOf(rows, x)
      BY <2>3, <3>4, <3>8, SameEntries
    <3>11. /\ x \in Keys(skills) <=> x \in Keys(skillRows)
           /\ Once(skills, x) <=> Once(skillRows, x)
      BY <2>3, <3>5, <3>8, SameEntries
    <3>12. Once(connections, x) /\ Once(conns, x)
      <4>1. Once(connections, x)
        BY DistinctOnce DEF FilesInv
      <4> QED BY <2>3, <3>3, <3>8, <4>1, SameEntries
    <3> QED BY <3>7, <3>9, <3>10, <3>11, <3>12 DEF Agree
  <2>5. WillAgree'
    BY <1>1, <2>1, <2>4, NothingAhead DEF WillAgree
  <2> QED BY <1>2, <2>2, <2>5
<1> QED BY <1>3, <1>4

-----------------------------------------------------------------------------
(* The turns.                                                              *)

\* A turn writes what is allowed, and the files will agree.
LEMMA TurnKeeps ==
  ASSUME DiskInv, Quiet, UNCHANGED <<files, torn>>,
         writes' \in Seq(Writes),
         \A n \in DOMAIN writes' : writes'[n].file = "connections" =>
            n = 1 /\ Distinct(writes'[n].value) /\ SecretSafe(writes'[n].value),
         \A x \in Ids \ torn :
           \A conns \in Ahead(writes', "connections", connections),
              listed \in Ahead(writes', "rows", rows),
              skills \in Ahead(writes', "skillRows", skillRows) :
             Agree(x, conns, listed, skills, PackageAhead(writes', x, packages[x]))
  PROVE  DiskInv'
<1>1. /\ connections' = connections /\ rows' = rows /\ skillRows' = skillRows
      /\ packages' = packages /\ torn' = torn
  BY DEF files
<1>2. FilesInv'
  BY <1>1 DEF DiskInv, FilesInv
<1>3. NoFile \notin {rows, skillRows}
  BY QuietFiles, NoFileIsNoList
<1>4. \A list : SecretSafe(list) => SecretSafe(list)'
  BY <1>1 DEF SecretSafe
<1>5. WritesInv'
  BY <1>1, <1>3, <1>4 DEF WritesInv, SecretSafe
<1>6. WillAgree'
  BY <1>1 DEF WillAgree
<1> QED BY <1>2, <1>5, <1>6 DEF DiskInv

\* A turn that writes nothing.
LEMMA NothingWritten ==
  ASSUME DiskInv, UNCHANGED <<files, torn, writes>>
  PROVE  DiskInv'
<1>1. /\ connections' = connections /\ rows' = rows /\ skillRows' = skillRows
      /\ packages' = packages /\ torn' = torn /\ writes' = writes
  BY DEF files
<1>2. FilesInv'
  BY <1>1 DEF DiskInv, FilesInv
<1>3. Ensure(rows, skillRows)' = Ensure(rows, skillRows)
  BY <1>1 DEF Ensure
<1>4. WritesInv'
  BY <1>1, <1>3 DEF DiskInv, WritesInv, SecretSafe
<1>5. WillAgree'
  BY <1>1 DEF DiskInv, WillAgree
<1> QED BY <1>2, <1>4, <1>5 DEF DiskInv

\* A turn that writes nothing.
LEMMA EmptyTurn ==
  ASSUME DiskInv, Quiet, UNCHANGED <<files, torn>>, writes' = <<>>
  PROVE  DiskInv'
BY NothingWritten DEF Quiet

\* A turn about connectors writes the connections, then the catalogue.
LEMMA ListsTurn ==
  ASSUME DiskInv, Quiet, UNCHANGED <<files, torn>>,
         NEW c \in Seq(Entry), Distinct(c), SecretSafe(c), NEW r \in Seq(Row),
         writes' = <<Write("connections", c), Write("rows", r)>>,
         \A x \in Ids \ torn : /\ x \in Keys(c) <=> x \in Keys(r)
                               /\ Once(r, x)
                               /\ x \in Keys(r) => RowOf(r, x).enabled = RowOf(c, x).enabled
  PROVE  DiskInv'
<1> DEFINE a == Write("connections", c)
           b == Write("rows", r)
           ws == <<a, b>>
<1>1. /\ a.file = "connections" /\ a.value = c /\ b.file = "rows" /\ b.value = r
      /\ a \in Writes /\ b \in Writes
  <2>1. a \in Writes /\ b \in Writes
    BY WriteIs
  <2> QED BY <2>1 DEF Write
<1> HIDE DEF a, b
<1>2. ws \in Seq(Writes) /\ DOMAIN ws = {1, 2} /\ ws[1] = a /\ ws[2] = b
  BY <1>1
<1>3. writes' = ws
  BY DEF a, b
<1> HIDE DEF ws
<1>4. /\ Ahead(ws, "connections", connections) = {c} /\ Ahead(ws, "rows", rows) = {r}
      /\ Ahead(ws, "skillRows", skillRows) = {skillRows}
  BY <1>1, <1>2 DEF Ahead
<1>5. ASSUME NEW x PROVE PackageAhead(ws, x, packages[x]) = {packages[x]}
  BY <1>1, <1>2 DEF PackageAhead
<1>6. \A n \in DOMAIN ws : ws[n].file = "connections" =>
            n = 1 /\ Distinct(ws[n].value) /\ SecretSafe(ws[n].value)
  BY <1>1, <1>2
<1>7. \A x \in Ids \ torn : Agree(x, c, r, skillRows, {packages[x]})
  BY QuietFiles DEF Agree
<1>8. \A n \in DOMAIN writes' : writes'[n].file = "connections" =>
            n = 1 /\ Distinct(writes'[n].value) /\ SecretSafe(writes'[n].value)
  BY <1>3, <1>6
<1>9. \A x \in Ids \ torn :
        \A conns \in Ahead(writes', "connections", connections),
           listed \in Ahead(writes', "rows", rows),
           skills \in Ahead(writes', "skillRows", skillRows) :
          Agree(x, conns, listed, skills, PackageAhead(writes', x, packages[x]))
  <2>1. /\ Ahead(writes', "connections", connections) = {c} /\ Ahead(writes', "rows", rows) = {r}
        /\ Ahead(writes', "skillRows", skillRows) = {skillRows}
    BY <1>3, <1>4
  <2>2. \A x : PackageAhead(writes', x, packages[x]) = {packages[x]}
    BY <1>3, <1>5
  <2> QED BY <1>7, <2>1, <2>2
<1> QED BY <1>2, <1>3, <1>8, <1>9, TurnKeeps

\* A turn about skills writes packages, and perhaps the catalogue.
LEMMA SkillsTurn ==
  ASSUME DiskInv, Quiet, UNCHANGED <<files, torn>>, NEW s \in Seq(Row),
         writes' \in Seq(Writes),
         \A n \in DOMAIN writes' : writes'[n].file \in {"packages", "skillRows"},
         \A n \in DOMAIN writes' : writes'[n].file = "skillRows" => writes'[n].value = s,
         (\E n \in DOMAIN writes' : writes'[n].file = "skillRows") \/ s = skillRows,
         \A x \in Ids \ torn : Once(s, x),
         \A x \in Keys(s) \cap (Ids \ torn) :
           /\ \A n \in DOMAIN writes' : writes'[n].file = "packages" /\ writes'[n].id = x
                                          => writes'[n].value # NoPackage
           /\ \/ packages[x] # NoPackage
              \/ \E n \in DOMAIN writes' : writes'[n].file = "packages" /\ writes'[n].id = x
  PROVE  DiskInv'
<1> DEFINE ws == writes'
<1>1. Ahead(ws, "connections", connections) = {connections} /\ Ahead(ws, "rows", rows) = {rows}
  BY DEF Ahead
<1>2. Ahead(ws, "skillRows", skillRows) = {s}
  BY DEF Ahead
<1>3. ASSUME NEW x \in Ids \ torn PROVE Agree(x, connections, rows, s, PackageAhead(ws, x, packages[x]))
  <2>1. Agree(x, connections, rows, skillRows, {packages[x]})
    BY QuietFiles
  <2>2. x \in Keys(s) => NoPackage \notin PackageAhead(ws, x, packages[x])
    BY DEF PackageAhead
  <2> QED BY <2>1, <2>2 DEF Agree
<1>4. \A n \in DOMAIN ws : ws[n].file # "connections"
  OBVIOUS
<1> QED BY <1>1, <1>2, <1>3, <1>4, TurnKeeps

\* A list made of a list, row by row.
LEMMA Mapped ==
  ASSUME NEW S, NEW s \in Seq(S), NEW T, NEW t, t = [i \in DOMAIN s |-> t[i]],
         \A i \in DOMAIN s : t[i] \in T
  PROVE  t \in Seq(T) /\ DOMAIN t = DOMAIN s /\ Len(t) = Len(s)
<1>1. DOMAIN s = 1..Len(s) /\ Len(s) \in Nat
  OBVIOUS
<1> QED BY <1>1

\* A row keeps its name and its switch.
LEMMA RetainFacts ==
  ASSUME NEW e \in Row, NEW previous \in Seq(Row)
  PROVE  LET f == RetainOrigin(e, previous) IN f \in Row /\ f.id = e.id /\ f.enabled = e.enabled
<1>1. CASE e.origin = NoOne /\ e.id \in Keys(previous)
  <2>1. RowOf(previous, e.id) \in Row
    BY <1>1, RowOfIn
  <2>2. RowOf(previous, e.id).origin \in Sources \cup Slugs \cup {NoOne}
    BY <2>1 DEF Row
  <2> QED BY <1>1, <2>2 DEF RetainOrigin, Row
<1>2. CASE ~ (e.origin = NoOne /\ e.id \in Keys(previous))
  BY <1>2 DEF RetainOrigin
<1> QED BY <1>1, <1>2

\* So does a list of rows that is saved.
LEMMA SummariesFacts ==
  ASSUME NEW list \in Seq(Row), NEW previous \in Seq(Row)
  PROVE  LET t == Summaries(list, previous) IN
         /\ t \in Seq(Row) /\ DOMAIN t = DOMAIN list /\ DOMAIN list \subseteq Nat
         /\ \A i \in DOMAIN list : t[i].id = list[i].id /\ t[i].enabled = list[i].enabled
<1> DEFINE t == Summaries(list, previous)
<1>1. \A i \in DOMAIN list : list[i] \in Row
  OBVIOUS
<1>2. t = [i \in DOMAIN list |-> RetainOrigin(Summary(list[i]), previous)]
  BY DEF Summaries
<1>3. ASSUME NEW i \in DOMAIN list
      PROVE  t[i] \in Row /\ t[i].id = list[i].id /\ t[i].enabled = list[i].enabled
  <2>1. /\ Summary(list[i]) \in Row
        /\ Summary(list[i]).id = list[i].id /\ Summary(list[i]).enabled = list[i].enabled
    BY <1>1 DEF Summary, Row
  <2>2. t[i] = RetainOrigin(Summary(list[i]), previous)
    BY <1>2
  <2> QED BY <2>1, <2>2, RetainFacts
<1>4. t = [i \in DOMAIN list |-> t[i]]
  BY <1>2
<1> HIDE DEF t
<1>5. t \in Seq(Row) /\ DOMAIN t = DOMAIN list
  BY <1>3, <1>4, Mapped
<1>6. DOMAIN list \subseteq Nat
  OBVIOUS
<1> QED BY <1>3, <1>5, <1>6 DEF t

\* The row of a name in two lists of the same names.
LEMMA SameRow ==
  ASSUME NEW s, NEW t, DOMAIN s = DOMAIN t, DOMAIN s \subseteq Nat,
         \A i \in DOMAIN s : s[i].id = t[i].id,
         NEW x \in Keys(s), Once(s, x)
  PROVE  \E i \in DOMAIN s : s[i].id = x /\ RowOf(s, x) = s[i] /\ RowOf(t, x) = t[i]
<1>1. PICK i \in DOMAIN s : s[i].id = x
  BY DEF Keys
<1>2. Once(t, x)
  BY SameNames
<1>3. RowOf(s, x) = s[i]
  BY <1>1, RowOfOnce
<1>4. RowOf(t, x) = t[i]
  BY <1>1, <1>2, RowOfOnce
<1> QED BY <1>1, <1>3, <1>4

\* A list of rows that is saved has the same names with the same switches.
LEMMA SameSwitch ==
  ASSUME NEW list \in Seq(Row), NEW previous \in Seq(Row)
  PROVE  LET t == Summaries(list, previous) IN
         /\ t \in Seq(Row) /\ Keys(t) = Keys(list)
         /\ \A x : Once(list, x) =>
              /\ Once(t, x)
              /\ x \in Keys(list) => RowOf(t, x).enabled = RowOf(list, x).enabled
<1> DEFINE t == Summaries(list, previous)
<1>1. /\ t \in Seq(Row) /\ DOMAIN t = DOMAIN list /\ DOMAIN list \subseteq Nat
      /\ \A i \in DOMAIN list : t[i].id = list[i].id /\ t[i].enabled = list[i].enabled
  BY SummariesFacts
<1> HIDE DEF t
<1>2. Keys(t) = Keys(list) /\ \A x : Once(list, x) => Once(t, x)
  BY <1>1, SameNames
<1>3. ASSUME NEW x \in Keys(list), Once(list, x) PROVE RowOf(t, x).enabled = RowOf(list, x).enabled
  <2>1. PICK i \in DOMAIN list : RowOf(list, x) = list[i] /\ RowOf(t, x) = t[i]
    BY <1>1, <1>3, SameRow
  <2> QED BY <1>1, <2>1
<1> QED BY <1>1, <1>2, <1>3 DEF t

\* A connector of the market is installed.
LEMMA InstallKeeps ==
  ASSUME DiskInv, Quiet, UNCHANGED <<files, torn>>, NEW s \in Sources, NEW id \in Ids, NEW filled,
         writes' = InstallWrites(s, id, filled)
  PROVE  DiskInv'
<1> DEFINE draft == MapInstall(Server[s])
           e == [id |-> id, conn |-> draft.conn, secret |-> "key", enabled |-> TRUE]
           new == [id |-> id, enabled |-> TRUE, origin |-> s]
           c == Append(connections, e)
           q == Append(rows, new)
           r == Summaries(q, rows)
<1>1. CASE draft = Blocked \/ ~ draft.asks \subseteq filled \/ Taken(id)
  BY <1>1, EmptyTurn DEF InstallWrites
<1>2. CASE ~ (draft = Blocked \/ ~ draft.asks \subseteq filled \/ Taken(id))
  <2>1. writes' = <<Write("connections", c), Write("rows", r)>>
    BY <1>2 DEF InstallWrites
  <2>2. id \notin Keys(connections) /\ id \notin Keys(rows)
    BY <1>2 DEF Taken
  <2>3. e \in Entry /\ new \in Row /\ e.id = id /\ new.id = id /\ e.enabled = TRUE /\ new.enabled = TRUE
    BY DEF Entry, Row, Conns
  <2>4. /\ connections \in Seq(Entry) /\ Distinct(connections) /\ rows \in Seq(Row)
        /\ \A x \in Ids \ torn : Agree(x, connections, rows, skillRows, {packages[x]})
    BY QuietFiles
  <2> HIDE DEF e, new, c, q, r
  <2>5. /\ c \in Seq(Entry) /\ Keys(c) = Keys(connections) \cup {id} /\ RowOf(c, id) = e /\ Distinct(c)
        /\ \A x : Once(connections, x) /\ x \in Keys(connections) => RowOf(c, x) = RowOf(connections, x)
    BY <2>2, <2>3, <2>4, AppendFacts DEF c
  <2>6. /\ q \in Seq(Row) /\ Keys(q) = Keys(rows) \cup {id} /\ RowOf(q, id) = new
        /\ \A x : Once(rows, x) => Once(q, x) /\ (x \in Keys(rows) => RowOf(q, x) = RowOf(rows, x))
    BY <2>2, <2>3, <2>4, AppendFacts DEF q
  <2>7. /\ r \in Seq(Row) /\ Keys(r) = Keys(q)
        /\ \A x : Once(q, x) => Once(r, x) /\ (x \in Keys(q) => RowOf(r, x).enabled = RowOf(q, x).enabled)
    BY <2>4, <2>6, SameSwitch DEF r
  <2>8. \A x : Once(connections, x)
    BY <2>4, DistinctOnce
  <2>9. SecretSafe(c)
    BY <2>5, <2>8 DEF SecretSafe
  <2>10. ASSUME NEW x \in Ids \ torn
         PROVE  /\ x \in Keys(c) <=> x \in Keys(r)
                /\ Once(r, x)
                /\ x \in Keys(r) => RowOf(r, x).enabled = RowOf(c, x).enabled
    <3>1. /\ x \in Keys(connections) <=> x \in Keys(rows)
          /\ Once(rows, x)
          /\ x \in Keys(rows) => RowOf(rows, x).enabled = RowOf(connections, x).enabled
      BY <2>4 DEF Agree
    <3>2. Once(q, x)
      BY <2>6, <3>1
    <3>3. CASE x = id
      BY <2>3, <2>5, <2>6, <2>7, <3>2, <3>3
    <3>4. CASE x # id
      BY <2>5, <2>6, <2>7, <2>8, <3>1, <3>2, <3>4
    <3> QED BY <3>3, <3>4
  <2> QED BY <2>1, <2>5, <2>7, <2>9, <2>10, ListsTurn
<1> QED BY <1>1, <1>2

\* A connector is uninstalled.
LEMMA UninstallKeeps ==
  ASSUME DiskInv, NEW c \in Tabs, NEW id \in Ids, UninstallConnector(c, id)
  PROVE  DiskInv'
<1> DEFINE k == Without(connections, id)
           q == Without(rows, id)
           r == Summaries(q, rows)
<1>1. Quiet /\ UNCHANGED <<files, torn>> /\ writes' = <<Write("connections", k), Write("rows", r)>>
  BY DEF UninstallConnector, Busy
<1>2. /\ connections \in Seq(Entry) /\ Distinct(connections) /\ rows \in Seq(Row)
      /\ \A x \in Ids \ torn : Agree(x, connections, rows, skillRows, {packages[x]})
  BY <1>1, QuietFiles
<1> HIDE DEF k, q, r
<1>3. /\ k \in Seq(Entry) /\ Keys(k) = Keys(connections) \ {id} /\ Distinct(k)
      /\ \A x : Once(connections, x) /\ x \in Keys(k) => RowOf(k, x) = RowOf(connections, x)
  BY <1>2, WithoutFacts DEF k
<1>4. /\ q \in Seq(Row) /\ Keys(q) = Keys(rows) \ {id}
      /\ \A x : Once(rows, x) => Once(q, x) /\ (x \in Keys(q) => RowOf(q, x) = RowOf(rows, x))
  BY <1>2, WithoutFacts DEF q
<1>5. /\ r \in Seq(Row) /\ Keys(r) = Keys(q)
      /\ \A x : Once(q, x) => Once(r, x) /\ (x \in Keys(q) => RowOf(r, x).enabled = RowOf(q, x).enabled)
  BY <1>2, <1>4, SameSwitch DEF r
<1>6. \A x : Once(connections, x)
  BY <1>2, DistinctOnce
<1>7. SecretSafe(k)
  BY <1>3, <1>6 DEF SecretSafe
<1>8. ASSUME NEW x \in Ids \ torn
      PROVE  /\ x \in Keys(k) <=> x \in Keys(r)
             /\ Once(r, x)
             /\ x \in Keys(r) => RowOf(r, x).enabled = RowOf(k, x).enabled
  <2>1. /\ x \in Keys(connections) <=> x \in Keys(rows)
        /\ Once(rows, x)
        /\ x \in Keys(rows) => RowOf(rows, x).enabled = RowOf(connections, x).enabled
    BY <1>2 DEF Agree
  <2> QED BY <1>3, <1>4, <1>5, <1>6, <2>1
<1> QED BY <1>1, <1>3, <1>5, <1>7, <1>8, ListsTurn

\* What the user makes of a form has no name twice either.
LEMMA EditedFacts ==
  ASSUME NEW form \in Seq(Entry), Distinct(form), NEW list \in Edited(form)
  PROVE  list \in Seq(Entry) /\ Distinct(list)
<1>1. CASE list = form
  BY <1>1
<1>2. CASE \E x \in Keys(form) : list = Without(form, x)
  BY <1>2, WithoutFacts
<1>3. CASE \E i \in DOMAIN form : list = [form EXCEPT ![i].enabled = ~ @]
  <2>1. PICK i \in DOMAIN form : list = [form EXCEPT ![i].enabled = ~ @]
    BY <1>3
  <2>2. \A j \in DOMAIN form : form[j] \in Entry
    OBVIOUS
  <2>3. [form[i] EXCEPT !.enabled = ~ form[i].enabled] \in Entry /\
        [form[i] EXCEPT !.enabled = ~ form[i].enabled].id = form[i].id
    BY <2>2 DEF Entry
  <2>4. /\ DOMAIN list = DOMAIN form
        /\ list = [j \in DOMAIN form |-> list[j]]
        /\ \A j \in DOMAIN form : list[j] \in Entry /\ list[j].id = form[j].id
    BY <2>1, <2>2, <2>3
  <2> QED BY <2>4, Mapped, SameNames
<1>4. CASE \E x \in Ids \ Keys(form) :
             list = Append(form, [id |-> x, conn |-> "manual", secret |-> "none", enabled |-> TRUE])
  <2>1. PICK x \in Ids \ Keys(form) :
          list = Append(form, [id |-> x, conn |-> "manual", secret |-> "none", enabled |-> TRUE])
    BY <1>4
  <2> DEFINE e == [id |-> x, conn |-> "manual", secret |-> "none", enabled |-> TRUE]
  <2>2. e \in Entry /\ e.id = x /\ list = Append(form, e)
    BY <2>1 DEF Entry, Conns
  <2> HIDE DEF e
  <2> QED BY <2>2, AppendFacts
<1> QED BY <1>1, <1>2, <1>3, <1>4 DEF Edited

\* The form of connectors is saved.
LEMMA SaveConnectorsKeeps ==
  ASSUME MarketInv, NEW c \in Tabs, SaveConnectors(c)
  PROVE  DiskInv'
<1>1. Quiet /\ UNCHANGED <<files, torn>> /\ pc[c] = "connectors" /\ DiskInv
  BY DEF SaveConnectors, Busy, MarketInv
<1>2. job[c].list \in Seq(Entry) /\ Distinct(job[c].list)
  BY <1>1 DEF MarketInv, FormsInv, FormOK
<1>3. PICK list \in Edited(job[c].list) :
        LET servers == [i \in DOMAIN list |-> Unmasked(list[i])]
            named == [i \in DOMAIN list |->
                       [id |-> list[i].id, enabled |-> list[i].enabled, origin |-> NoOne]] IN
        writes' = <<Write("connections", servers), Write("rows", Summaries(named, rows))>>
  BY DEF SaveConnectors
<1> DEFINE servers == [i \in DOMAIN list |-> Unmasked(list[i])]
           named == [i \in DOMAIN list |->
                       [id |-> list[i].id, enabled |-> list[i].enabled, origin |-> NoOne]]
           r == Summaries(named, rows)
<1>4. list \in Seq(Entry) /\ Distinct(list)
  BY <1>2, EditedFacts
<1>5. /\ \A i \in DOMAIN list : list[i] \in Entry
      /\ DOMAIN list \subseteq Nat
  BY <1>4
<1>6. connections \in Seq(Entry) /\ Distinct(connections) /\ rows \in Seq(Row)
  BY <1>1, QuietFiles
<1>7. ASSUME NEW i \in DOMAIN list
      PROVE  /\ Unmasked(list[i]) \in Entry
             /\ Unmasked(list[i]).id = list[i].id /\ Unmasked(list[i]).enabled = list[i].enabled
             /\ list[i].id \in Keys(connections) /\ RowOf(connections, list[i].id).secret = "key"
                  => Unmasked(list[i]).secret # "***"
  <2>1. list[i] \in Entry
    BY <1>5
  <2>2. list[i].id \in Keys(connections) => RowOf(connections, list[i].id) \in Entry
    BY <1>6, RowOfIn
  <2>3. list[i].id \in Keys(connections) => RowOf(connections, list[i].id).secret \in {"none", "key", "***"}
    BY <2>2 DEF Entry
  <2> QED BY <2>1, <2>3 DEF Unmasked, Entry
<1>8. /\ servers \in Seq(Entry) /\ DOMAIN servers = DOMAIN list
      /\ \A i \in DOMAIN list : servers[i] = Unmasked(list[i]) /\ servers[i].id = list[i].id
                                  /\ servers[i].enabled = list[i].enabled
  <2>1. servers = [i \in DOMAIN list |-> servers[i]] /\ DOMAIN servers = DOMAIN list
        /\ \A i \in DOMAIN list : servers[i] = Unmasked(list[i])
    OBVIOUS
  <2> HIDE DEF servers
  <2> QED BY <1>4, <1>7, <2>1, Mapped
<1>9. /\ named \in Seq(Row) /\ DOMAIN named = DOMAIN list
      /\ \A i \in DOMAIN list : named[i].id = list[i].id /\ named[i].enabled = list[i].enabled
  <2>1. named = [i \in DOMAIN list |-> named[i]] /\ DOMAIN named = DOMAIN list
        /\ \A i \in DOMAIN list : named[i] = [id |-> list[i].id, enabled |-> list[i].enabled, origin |-> NoOne]
    OBVIOUS
  <2> HIDE DEF named
  <2>2. \A i \in DOMAIN list : /\ named[i] \in Row
                               /\ named[i].id = list[i].id /\ named[i].enabled = list[i].enabled
    BY <1>5, <2>1 DEF Entry, Row
  <2> QED BY <1>4, <2>1, <2>2, Mapped
<1>10. writes' = <<Write("connections", servers), Write("rows", r)>>
  BY <1>3
<1> HIDE DEF servers, named, r
<1>11. /\ r \in Seq(Row) /\ Keys(r) = Keys(named)
       /\ \A x : Once(named, x) =>
            Once(r, x) /\ (x \in Keys(named) => RowOf(r, x).enabled = RowOf(named, x).enabled)
  BY <1>6, <1>9, SameSwitch DEF r
<1>12. /\ Keys(servers) = Keys(list) /\ Distinct(servers) /\ Keys(named) = Keys(list) /\ Distinct(named)
  BY <1>4, <1>8, <1>9, SameNames
<1>13. SecretSafe(servers)
  <2> SUFFICES ASSUME NEW x \in Keys(connections), x \in Keys(servers), RowOf(connections, x).secret = "key"
               PROVE  RowOf(servers, x).secret # "***"
    BY DEF SecretSafe
  <2>1. Once(list, x) /\ x \in Keys(list)
    BY <1>4, <1>12, DistinctOnce
  <2>2. PICK i \in DOMAIN list : list[i].id = x /\ RowOf(servers, x) = servers[i]
    BY <1>5, <1>8, <2>1, SameRow
  <2> QED BY <1>7, <1>8, <2>2
<1>14. ASSUME NEW x
       PROVE  /\ Once(r, x)
              /\ x \in Keys(r) => RowOf(r, x).enabled = RowOf(servers, x).enabled
  <2>1. Once(list, x) /\ Once(named, x)
    BY <1>4, <1>12, DistinctOnce
  <2>2. ASSUME x \in Keys(list) PROVE RowOf(named, x).enabled = RowOf(servers, x).enabled
    <3>1. PICK i \in DOMAIN list : list[i].id = x /\ RowOf(list, x) = list[i] /\ RowOf(servers, x) = servers[i]
      BY <1>5, <1>8, <2>1, <2>2, SameRow
    <3>2. PICK j \in DOMAIN list : list[j].id = x /\ RowOf(list, x) = list[j] /\ RowOf(named, x) = named[j]
      BY <1>5, <1>9, <2>1, <2>2, SameRow
    <3>3. i = j
      BY <2>1, <3>1, <3>2 DEF Once
    <3> QED BY <1>8, <1>9, <3>1, <3>2, <3>3
  <2> QED BY <1>11, <1>12, <2>1, <2>2
<1> QED BY <1>1, <1>8, <1>10, <1>11, <1>12, <1>13, <1>14, ListsTurn

\* Two writes, one after the other.
LEMMA PairOfWrites ==
  ASSUME NEW a \in Writes, NEW b \in Writes
  PROVE  LET ws == <<a>> \o <<b>> IN
         ws \in Seq(Writes) /\ DOMAIN ws = {1, 2} /\ ws[1] = a /\ ws[2] = b
<1> DEFINE ws == <<a>> \o <<b>>
<1>1. /\ <<a>> \in Seq(Writes) /\ <<b>> \in Seq(Writes) /\ Len(<<a>>) = 1 /\ Len(<<b>>) = 1
      /\ <<a>>[1] = a /\ <<b>>[1] = b
  OBVIOUS
<1>2. ws \in Seq(Writes) /\ Len(ws) = 2 /\ ws[1] = a /\ ws[2] = b
  BY <1>1
<1> HIDE DEF ws
<1>3. DOMAIN ws = 1..2 /\ 1..2 = {1, 2}
  BY <1>2
<1> QED BY <1>2, <1>3 DEF ws

\* A package, and the row of a catalogue, as they are written.
LEMMA PackageIs ==
  ASSUME NEW id, NEW content
  PROVE  LET w == Package(id, content) IN w.file = "packages" /\ w.id = id /\ w.value = content
BY DEF Package

\* The fields of a write of the catalogue of skills.
LEMMA CatalogIs ==
  ASSUME NEW list
  PROVE  LET w == Write("skillRows", list) IN w.file = "skillRows" /\ w.value = list
BY DEF Write

\* The names of the hub are names, and no name for an empty place.
LEMMA SlugFacts ==
  /\ \A k \in Slugs : LocalId[k] \in Ids /\ k \in Contents /\ k # NoPackage
  /\ "own" \in Contents /\ NoPackage \in Contents /\ "own" # NoPackage
  /\ \A x \in Ids, k \in Slugs : SkillRow(x, TRUE, k) \in Row
  /\ \A x \in Ids : SkillRow(x, TRUE, NoOne) \in Row
BY MarketAssumption DEF Contents, NoPackage, SkillRow, Row

\* A package with a row is installed: from the hub, or imported.
LEMMA PackageAdded ==
  ASSUME DiskInv, Quiet, UNCHANGED <<files, torn>>, NEW id \in Ids, packages[id] = NoPackage,
         NEW content \in Contents, content # NoPackage, NEW origin, SkillRow(id, TRUE, origin) \in Row,
         writes' = <<Package(id, content)>> \o
                   <<Write("skillRows", Append(skillRows, SkillRow(id, TRUE, origin)))>>
  PROVE  DiskInv'
<1> DEFINE e == SkillRow(id, TRUE, origin)
           s == Append(skillRows, e)
           a == Package(id, content)
           b == Write("skillRows", s)
           ws == <<a>> \o <<b>>
<1>1. skillRows \in Seq(Row) /\ \A x \in Ids \ torn : Agree(x, connections, rows, skillRows, {packages[x]})
  BY QuietFiles
<1>2. e \in Row /\ e.id = id
  BY DEF SkillRow
<1>w. writes' = ws
  OBVIOUS
<1> HIDE DEF e, ws
<1>3. s \in Seq(Row) /\ Keys(s) = Keys(skillRows) \cup {id}
  BY <1>1, <1>2, AppendKeys
<1>4. ASSUME NEW x \in Ids \ torn PROVE Once(s, x) /\ (x # id /\ x \in Keys(s) => packages[x] # NoPackage)
  <2>1. Once(skillRows, x) /\ (x \in Keys(skillRows) => packages[x] # NoPackage)
    BY <1>1 DEF Agree
  <2>2. x = id => x \notin Keys(skillRows)
    BY <2>1
  <2>3. Once(s, x)
    <3>1. CASE x = id
      BY <1>1, <1>2, <2>1, <2>2, <3>1, AppendFacts
    <3>2. CASE x # id
      BY <1>1, <1>2, <2>1, <3>2, AppendOthers
    <3> QED BY <3>1, <3>2
  <2> QED BY <1>3, <2>1, <2>3
<1> HIDE DEF s
<1>5. a \in Writes /\ b \in Writes
  BY <1>3, WriteIs
<1>6. /\ a.file = "packages" /\ a.id = id /\ a.value = content
      /\ b.file = "skillRows" /\ b.value = s
  BY PackageIs, CatalogIs
<1> HIDE DEF a, b
<1>7. writes' \in Seq(Writes) /\ DOMAIN writes' = {1, 2} /\ writes'[1] = a /\ writes'[2] = b
  <2>1. ws \in Seq(Writes) /\ DOMAIN ws = {1, 2} /\ ws[1] = a /\ ws[2] = b
    BY <1>5, PairOfWrites DEF ws
  <2> QED BY <1>w, <2>1
<1>8. \A n \in DOMAIN writes' : writes'[n].file \in {"packages", "skillRows"}
  BY <1>6, <1>7
<1>9. \A n \in DOMAIN writes' : writes'[n].file = "skillRows" => writes'[n].value = s
  BY <1>6, <1>7
<1>10. \E n \in DOMAIN writes' : writes'[n].file = "skillRows"
  BY <1>6, <1>7
<1>11. \A n \in DOMAIN writes' : writes'[n].file = "packages" => writes'[n].value # NoPackage
  BY <1>6, <1>7
<1>12. \E n \in DOMAIN writes' : writes'[n].file = "packages" /\ writes'[n].id = id
  BY <1>6, <1>7
<1>13. \A x \in Keys(s) \cap (Ids \ torn) :
        /\ \A n \in DOMAIN writes' : writes'[n].file = "packages" /\ writes'[n].id = x => writes'[n].value # NoPackage
        /\ \/ packages[x] # NoPackage
           \/ \E n \in DOMAIN writes' : writes'[n].file = "packages" /\ writes'[n].id = x
  BY <1>4, <1>11, <1>12
<1> QED BY <1>3, <1>4, <1>7, <1>8, <1>9, <1>10, <1>13, SkillsTurn

\* A skill of the hub is installed, or its package removed again.
LEMMA InstallSkillKeeps ==
  ASSUME MarketInv, NEW c \in Tabs, InstallSkill(c)
  PROVE  DiskInv'
<1> DEFINE k == job[c].of
           id == LocalId[k]
<1>1. /\ Quiet /\ UNCHANGED <<files, torn>> /\ DiskInv /\ pc[c] = "downloading"
      /\ writes' = IF Unpack(id, k) = <<>> THEN <<>>
                   ELSE Unpack(id, k) \o
                        IF id \in Keys(skillRows) THEN <<Package(id, NoPackage)>>
                        ELSE <<Write("skillRows", Append(skillRows, SkillRow(id, TRUE, k)))>>
  BY DEF InstallSkill, Busy, MarketInv
<1>2. k \in Slugs
  BY <1>1 DEF MarketInv, FormsInv, FormOK
<1> HIDE DEF k, id
<1>3. id \in Ids /\ k \in Contents /\ k # NoPackage /\ NoPackage \in Contents /\ SkillRow(id, TRUE, k) \in Row
  BY <1>2, SlugFacts DEF id
<1>4. /\ skillRows \in Seq(Row) /\ \A x \in Ids \ torn : Agree(x, connections, rows, skillRows, {packages[x]})
  BY <1>1, QuietFiles
<1>5. CASE packages[id] # NoPackage
  <2>1. writes' = <<>>
    BY <1>1, <1>5 DEF Unpack
  <2> QED BY <1>1, <2>1, EmptyTurn
<1>6. CASE packages[id] = NoPackage /\ id \notin Keys(skillRows)
  <2>1. writes' = <<Package(id, k)>> \o
                  <<Write("skillRows", Append(skillRows, SkillRow(id, TRUE, k)))>>
    BY <1>1, <1>6 DEF Unpack
  <2> QED BY <1>1, <1>3, <1>6, <2>1, PackageAdded
<1>7. CASE packages[id] = NoPackage /\ id \in Keys(skillRows)
  <2> DEFINE a == Package(id, k)
             b == Package(id, NoPackage)
  <2>1. writes' = <<a>> \o <<b>>
    BY <1>1, <1>7 DEF Unpack
  <2>2. a \in Writes /\ b \in Writes
    BY <1>3, WriteIs
  <2>3. a.file = "packages" /\ a.id = id /\ b.file = "packages" /\ b.id = id
    BY PackageIs
  <2> HIDE DEF a, b
  <2>4. writes' \in Seq(Writes) /\ DOMAIN writes' = {1, 2} /\ writes'[1] = a /\ writes'[2] = b
    BY <2>1, <2>2, PairOfWrites
  <2>5. \A n \in DOMAIN writes' : writes'[n].file = "packages" /\ writes'[n].id = id
    BY <2>3, <2>4
  <2>6. ASSUME NEW x \in Keys(skillRows) \cap (Ids \ torn) PROVE packages[x] # NoPackage /\ x # id
    BY <1>4, <1>7 DEF Agree
  <2>7. \A x \in Ids \ torn : Once(skillRows, x)
    BY <1>4 DEF Agree
  <2> QED BY <1>1, <1>4, <2>4, <2>5, <2>6, <2>7, SkillsTurn
<1> QED BY <1>5, <1>6, <1>7

\* An archive of the user's is imported.
LEMMA ImportKeeps ==
  ASSUME DiskInv, NEW c \in Tabs, NEW id \in Ids, ImportSkill(c, id)
  PROVE  DiskInv'
<1>1. /\ Quiet /\ UNCHANGED <<files, torn>> /\ packages[id] = NoPackage
      /\ writes' = <<Package(id, "own")>> \o
                   <<Write("skillRows", Append(skillRows, SkillRow(id, TRUE, NoOne)))>>
  BY DEF ImportSkill, Busy, Unpack
<1>2. "own" \in Contents /\ "own" # NoPackage /\ SkillRow(id, TRUE, NoOne) \in Row
  BY SlugFacts
<1> QED BY <1>1, <1>2, PackageAdded

\* A skill is uninstalled.
LEMMA UninstallSkillKeeps ==
  ASSUME DiskInv, NEW c \in Tabs, NEW id \in Ids, UninstallSkill(c, id)
  PROVE  DiskInv'
<1> DEFINE s == Without(skillRows, id)
           a == Package(id, NoPackage)
           b == Write("skillRows", s)
           ws == <<a, b>>
<1>1. Quiet /\ UNCHANGED <<files, torn>> /\ writes' = ws
  BY DEF UninstallSkill, Busy
<1>2. skillRows \in Seq(Row) /\ \A x \in Ids \ torn : Agree(x, connections, rows, skillRows, {packages[x]})
  BY <1>1, QuietFiles
<1>3. s \in Seq(Row) /\ Keys(s) = Keys(skillRows) \ {id} /\ \A x : Once(skillRows, x) => Once(s, x)
  BY <1>2, WithoutFacts
<1> HIDE DEF s
<1>4. a \in Writes /\ b \in Writes
  BY <1>3, WriteIs, SlugFacts
<1>5. a.file = "packages" /\ a.id = id /\ b.file = "skillRows" /\ b.value = s
  BY PackageIs, CatalogIs
<1> HIDE DEF a, b
<1>6. ws \in Seq(Writes) /\ DOMAIN ws = {1, 2} /\ ws[1] = a /\ ws[2] = b
  BY <1>4
<1> HIDE DEF ws
<1>7. writes' \in Seq(Writes) /\ DOMAIN writes' = {1, 2} /\ writes'[1] = a /\ writes'[2] = b
  BY <1>1, <1>6
<1>8. \A n \in DOMAIN writes' : writes'[n].file \in {"packages", "skillRows"}
  BY <1>5, <1>7
<1>9. \A n \in DOMAIN writes' : writes'[n].file = "skillRows" => writes'[n].value = s
  BY <1>5, <1>7
<1>10. \E n \in DOMAIN writes' : writes'[n].file = "skillRows"
  BY <1>5, <1>7
<1>11. \A n \in DOMAIN writes' : writes'[n].file = "packages" => writes'[n].id = id
  BY <1>5, <1>7
<1>12. \A x \in Ids \ torn : Once(s, x)
  BY <1>2, <1>3 DEF Agree
<1>13. \A x \in Keys(s) \cap (Ids \ torn) : x # id /\ packages[x] # NoPackage
  BY <1>2, <1>3 DEF Agree
<1> QED BY <1>1, <1>3, <1>7, <1>8, <1>9, <1>10, <1>11, <1>12, <1>13, SkillsTurn

\* A finite set in a sequence: each element once.
LEMMA SetToSeqFacts ==
  ASSUME NEW S, IsFiniteSet(S)
  PROVE  /\ SetToSeq(S) \in Seq(S) /\ Len(SetToSeq(S)) = Cardinality(S) /\ Cardinality(S) \in Nat
         /\ \A i, j \in 1..Cardinality(S) : SetToSeq(S)[i] = SetToSeq(S)[j] => i = j
         /\ \A x \in S : \E i \in 1..Cardinality(S) : SetToSeq(S)[i] = x
<1> DEFINE n == Cardinality(S)
           f == SetToSeq(S)
<1>1. n \in Nat /\ ExistsBijection(1..n, S)
  BY FS_CardinalityType
<1>2. \E g \in [1..n -> S] : IsInjective(g)
  BY <1>1 DEF ExistsBijection, Bijection, Injection
<1>3. f \in [1..n -> S] /\ IsInjective(f)
  BY <1>2 DEF SetToSeq
<1>4. IsFiniteSet(1..n) /\ Cardinality(1..n) = n
  BY <1>1, FS_Interval
<1>5. f \in Injection(1..n, S)
  BY <1>3 DEF Injection
<1>6. f \in Surjection(1..n, S)
  BY <1>4, <1>5, FS_Injection
<1>7. \A x \in S : \E i \in 1..n : f[i] = x
  BY <1>6 DEF Surjection
<1>8. f \in Seq(S) /\ Len(f) = n
  BY <1>1, <1>3
<1> QED BY <1>1, <1>3, <1>7, <1>8 DEF IsInjective

\* What the user makes of the form of skills names nothing twice that it did not.
LEMMA EditedSkillsFacts ==
  ASSUME NEW form \in Seq(Row), NEW list \in EditedSkills(form)
  PROVE  list \in Seq(Row) /\ \A x : Once(form, x) => Once(list, x)
<1>1. CASE list = form
  BY <1>1
<1>2. CASE \E x \in Keys(form) : list = Without(form, x)
  BY <1>2, WithoutFacts
<1>3. CASE \E x \in Ids \ Keys(form) : list = Append(form, SkillRow(x, TRUE, NoOne))
  <2>1. PICK x \in Ids \ Keys(form) : list = Append(form, SkillRow(x, TRUE, NoOne))
    BY <1>3
  <2> DEFINE e == SkillRow(x, TRUE, NoOne)
  <2>2. e \in Row /\ e.id = x /\ list = Append(form, e)
    BY <2>1, SlugFacts DEF SkillRow
  <2> HIDE DEF e
  <2> QED BY <2>2, AppendFacts
<1> QED BY <1>1, <1>2, <1>3 DEF EditedSkills

\* The packages the form wants are written, and hold something.
LEMMA KeptFacts ==
  ASSUME packages \in [Ids -> Contents], NEW list \in Seq(Row)
  PROVE  /\ Kept(list) \in Seq(Writes) /\ Len(Kept(list)) = Len(list)
         /\ \A i \in 1..Len(list) :
              LET w == Kept(list)[i] IN w.file = "packages" /\ w.id = list[i].id /\ w.value # NoPackage
<1>1. DOMAIN list = 1..Len(list) /\ Len(list) \in Nat /\ \A i \in DOMAIN list : list[i] \in Row
  OBVIOUS
<1> DEFINE k == Kept(list)
           put(i) == IF packages[list[i].id] = NoPackage THEN "own" ELSE packages[list[i].id]
<1>2. DOMAIN k = DOMAIN list /\ k = [i \in DOMAIN list |-> k[i]]
      /\ \A i \in DOMAIN list : k[i] = Package(list[i].id, put(i))
  BY DEF Kept
<1>3. \A i \in DOMAIN list : list[i].id \in Ids
  BY <1>1 DEF Row
<1> HIDE DEF k
<1>4. \A i \in DOMAIN list : put(i) \in Contents /\ put(i) # NoPackage
  BY <1>3, SlugFacts
<1> HIDE DEF put
<1>5. \A i \in DOMAIN list : /\ k[i] \in Writes
                             /\ k[i].file = "packages" /\ k[i].id = list[i].id /\ k[i].value # NoPackage
  BY <1>2, <1>3, <1>4, WriteIs, PackageIs
<1>6. k \in Seq(Writes) /\ Len(k) = Len(list)
  BY <1>2, <1>5, Mapped
<1> QED BY <1>1, <1>5, <1>6 DEF k

\* No package is removed that the form wants.
LEMMA RemovedFacts ==
  ASSUME NEW list \in Seq(Row)
  PROVE  /\ Removed(list) \in Seq(Writes)
         /\ \A i \in 1..Len(Removed(list)) :
              LET w == Removed(list)[i] IN w.file = "packages" /\ w.id \notin Keys(list)
<1> DEFINE gone == {x \in Ids : packages[x] # NoPackage /\ x \notin Keys(list)}
           o == Orphans(list)
           r == Removed(list)
<1>1. IsFiniteSet(gone)
  BY CatalogAssumption, FS_Subset
<1>2. o \in Seq(gone)
  BY <1>1, SetToSeqFacts DEF Orphans
<1>3. DOMAIN r = DOMAIN o /\ r = [i \in DOMAIN o |-> r[i]] /\ \A i \in DOMAIN o : r[i] = Package(o[i], NoPackage)
  BY DEF Removed
<1> HIDE DEF o, r
<1>4. \A i \in DOMAIN o : o[i] \in Ids /\ o[i] \notin Keys(list)
  BY <1>2
<1>5. \A i \in DOMAIN o : r[i] \in Writes /\ r[i].file = "packages" /\ r[i].id = o[i]
  BY <1>3, <1>4, WriteIs, PackageIs, SlugFacts
<1>6. r \in Seq(Writes) /\ DOMAIN r = DOMAIN o
  BY <1>2, <1>3, <1>5, Mapped
<1> QED BY <1>4, <1>5, <1>6 DEF r

\* The form of skills is saved.
LEMMA SaveSkillsKeeps ==
  ASSUME MarketInv, NEW c \in Tabs, SaveSkills(c)
  PROVE  DiskInv'
<1>1. Quiet /\ UNCHANGED <<files, torn>> /\ pc[c] = "skills" /\ DiskInv
  BY DEF SaveSkills, Busy, MarketInv
<1>2. job[c].list \in Seq(Row) /\ \A x \in Ids \ torn : Once(job[c].list, x)
  BY <1>1 DEF MarketInv, FormsInv, FormOK
<1>3. PICK list \in EditedSkills(job[c].list) :
        writes' = Kept(list) \o Removed(list) \o
                  <<Write("skillRows", [i \in DOMAIN list |->
                      RetainOrigin([list[i] EXCEPT !.origin = NoOne], skillRows)])>>
  BY DEF SaveSkills
<1> DEFINE s == [i \in DOMAIN list |-> RetainOrigin([list[i] EXCEPT !.origin = NoOne], skillRows)]
           k == Kept(list)
           r == Removed(list)
           w == Write("skillRows", s)
           l == Len(list)
           m == Len(r)
<1>4. list \in Seq(Row) /\ \A x \in Ids \ torn : Once(list, x)
  BY <1>2, EditedSkillsFacts
<1>5. skillRows \in Seq(Row) /\ packages \in [Ids -> Contents]
  BY <1>1, QuietFiles
<1>6. s \in Seq(Row) /\ Keys(s) = Keys(list) /\ \A x \in Ids \ torn : Once(s, x)
  <2>1. DOMAIN s = DOMAIN list /\ s = [i \in DOMAIN list |-> s[i]]
    OBVIOUS
  <2>2. ASSUME NEW i \in DOMAIN list PROVE s[i] \in Row /\ s[i].id = list[i].id
    <3>1. list[i] \in Row
      BY <1>4
    <3> DEFINE e == [list[i] EXCEPT !.origin = NoOne]
    <3>2. e \in Row /\ e.id = list[i].id
      BY <3>1 DEF Row
    <3>3. s[i] = RetainOrigin(e, skillRows)
      OBVIOUS
    <3> HIDE DEF e
    <3> QED BY <1>5, <3>2, <3>3, RetainFacts
  <2> HIDE DEF s
  <2>3. s \in Seq(Row)
    BY <1>4, <2>1, <2>2, Mapped
  <2>4. Keys(list) = Keys(s) /\ \A x : Once(list, x) => Once(s, x)
    BY <2>1, <2>2, SameNames
  <2> QED BY <1>4, <2>3, <2>4
<1>7. writes' = k \o r \o <<w>>
  BY <1>3
<1> HIDE DEF s, k, r
<1>8. /\ k \in Seq(Writes) /\ Len(k) = l /\ l \in Nat /\ DOMAIN list = 1..l
      /\ \A i \in 1..l : k[i].file = "packages" /\ k[i].id = list[i].id /\ k[i].value # NoPackage
  BY <1>4, <1>5, KeptFacts DEF k
<1>9. /\ r \in Seq(Writes) /\ m \in Nat
      /\ \A i \in 1..m : r[i].file = "packages" /\ r[i].id \notin Keys(list)
  BY <1>4, RemovedFacts DEF r
<1>10. w \in Writes /\ w.file = "skillRows" /\ w.value = s
  BY <1>6, WriteIs, CatalogIs
<1> HIDE DEF w, l, m
<1>11. /\ writes' \in Seq(Writes) /\ DOMAIN writes' = 1..(l + m + 1)
       /\ \A n \in 1..l : writes'[n] = k[n]
       /\ \A n \in DOMAIN writes' : n \in 1..l \/ (n - l \in 1..m /\ writes'[n] = r[n - l]) \/ n = l + m + 1
       /\ writes'[l + m + 1] = w
  <2> DEFINE kr == k \o r
  <2>1. /\ kr \in Seq(Writes) /\ Len(kr) = l + m
        /\ \A i \in 1..(l + m) : kr[i] = IF i <= l THEN k[i] ELSE r[i - l]
    BY <1>8, <1>9, ConcatProperties DEF m
  <2>2. <<w>> \in Seq(Writes) /\ Len(<<w>>) = 1 /\ <<w>>[1] = w
    BY <1>10
  <2> HIDE DEF kr
  <2>3. /\ kr \o <<w>> \in Seq(Writes) /\ Len(kr \o <<w>>) = l + m + 1
        /\ \A i \in 1..(l + m + 1) : (kr \o <<w>>)[i] = IF i <= l + m THEN kr[i] ELSE <<w>>[i - (l + m)]
    BY <2>1, <2>2, ConcatProperties
  <2>4. writes' = kr \o <<w>>
    BY <1>7 DEF kr
  <2>5. writes' \in Seq(Writes) /\ Len(writes') = l + m + 1
    BY <2>3, <2>4
  <2>6. \A i \in 1..(l + m + 1) : writes'[i] = IF i <= l + m THEN kr[i] ELSE <<w>>[i - (l + m)]
    BY <2>3, <2>4
  <2>7. DOMAIN writes' = 1..(l + m + 1)
    BY <2>5
  <2>8. \A n \in 1..l : n \in 1..(l + m) /\ n \in 1..(l + m + 1) /\ n <= l
    BY <1>8, <1>9
  <2>9. \A n \in 1..(l + m + 1) : n \in 1..l \/ (n - l \in 1..m /\ n \in 1..(l + m) /\ ~ (n <= l)) \/ n = l + m + 1
    BY <1>8, <1>9
  <2>10. l + m + 1 \in 1..(l + m + 1) /\ ~ (l + m + 1 <= l + m) /\ l + m + 1 - (l + m) = 1
    BY <1>8, <1>9
  <2>11. \A n \in 1..(l + m) : n <= l + m
    BY <1>8, <1>9
  <2>12. \A n \in 1..l : writes'[n] = k[n]
    BY <2>1, <2>6, <2>8, <2>11
  <2>13. \A n \in DOMAIN writes' : n \in 1..l \/ (n - l \in 1..m /\ writes'[n] = r[n - l]) \/ n = l + m + 1
    BY <2>1, <2>6, <2>7, <2>9, <2>11
  <2>14. writes'[l + m + 1] = w
    <3>1. ASSUME NEW z \in 1..(l + m + 1), z = l + m + 1 PROVE writes'[z] = w
      <4>1. ~ (z <= l + m) /\ z - (l + m) = 1
        BY <1>8, <1>9, <3>1
      <4>2. writes'[z] = <<w>>[z - (l + m)]
        BY <2>6, <4>1
      <4> QED BY <2>2, <4>1, <4>2
    <3> QED BY <2>10, <3>1
  <2> QED BY <2>5, <2>7, <2>12, <2>13, <2>14
<1>12. \A n \in DOMAIN writes' : \/ writes'[n].file = "packages"
                                 \/ writes'[n].file = "skillRows" /\ writes'[n].value = s
  BY <1>8, <1>9, <1>10, <1>11
<1>13. \E n \in DOMAIN writes' : writes'[n].file = "skillRows"
  <2>1. l + m + 1 \in DOMAIN writes'
    BY <1>8, <1>9, <1>11
  <2> QED BY <1>10, <1>11, <2>1
<1>14. ASSUME NEW x \in Keys(s) \cap (Ids \ torn)
       PROVE  /\ \A n \in DOMAIN writes' : writes'[n].file = "packages" /\ writes'[n].id = x
                                             => writes'[n].value # NoPackage
              /\ \/ packages[x] # NoPackage
                 \/ \E n \in DOMAIN writes' : writes'[n].file = "packages" /\ writes'[n].id = x
  <2>1. x \in Keys(list)
    BY <1>6
  <2>2. ASSUME NEW n \in DOMAIN writes', writes'[n].file = "packages", writes'[n].id = x
        PROVE  writes'[n].value # NoPackage
    BY <1>8, <1>9, <1>10, <1>11, <2>1, <2>2
  <2>3. PICK i \in 1..l : list[i].id = x
    BY <1>8, <2>1 DEF Keys
  <2>4. i \in DOMAIN writes'
    BY <1>8, <1>9, <1>11
  <2>5. writes'[i].file = "packages" /\ writes'[i].id = x
    BY <1>8, <1>11, <2>3
  <2> QED BY <2>2, <2>4, <2>5
<1> QED BY <1>1, <1>6, <1>11, <1>12, <1>13, <1>14, SkillsTurn

\* A form that is refused has written packages and nothing else.
LEMMA RefuseSkillsKeeps ==
  ASSUME MarketInv, NEW c \in Tabs, RefuseSkills(c)
  PROVE  DiskInv'
<1>1. Quiet /\ UNCHANGED <<files, torn>> /\ pc[c] = "skills" /\ DiskInv
  BY DEF RefuseSkills, Busy, MarketInv
<1>2. job[c].list \in Seq(Row)
  BY <1>1 DEF MarketInv, FormsInv, FormOK
<1>3. PICK list \in EditedSkills(job[c].list), l \in 0..Cardinality(Ids) :
        l <= Len(list) /\ writes' = SubSeq(Kept(list), 1, l)
  BY DEF RefuseSkills
<1>4. list \in Seq(Row)
  BY <1>2, EditedSkillsFacts
<1>5. /\ skillRows \in Seq(Row) /\ packages \in [Ids -> Contents]
      /\ \A x \in Ids \ torn : Agree(x, connections, rows, skillRows, {packages[x]})
  BY <1>1, QuietFiles
<1> DEFINE k == Kept(list)
<1>6. /\ k \in Seq(Writes) /\ Len(k) = Len(list)
      /\ \A i \in 1..Len(list) : k[i].file = "packages" /\ k[i].value # NoPackage
  BY <1>4, <1>5, KeptFacts
<1>7. l \in Nat /\ l <= Len(k)
  <2>1. Cardinality(Ids) \in Nat
    BY CatalogAssumption, FS_CardinalityType
  <2> QED BY <1>3, <1>6, <2>1
<1>8. /\ writes' \in Seq(Writes)
      /\ \A n \in DOMAIN writes' : n \in 1..Len(list) /\ writes'[n] = k[n]
  <2> HIDE DEF k
  <2>1. writes' = SubSeq(k, 1, l)
    BY <1>3 DEF k
  <2>2. writes' \in Seq(Writes) /\ Len(writes') = l /\ \A n \in 1..l : writes'[n] = k[n]
    BY <1>6, <1>7, <2>1
  <2>3. DOMAIN writes' = 1..l
    BY <2>2
  <2> QED BY <1>6, <1>7, <2>2, <2>3
<1>9. \A n \in DOMAIN writes' : writes'[n].file = "packages" /\ writes'[n].value # NoPackage
  BY <1>6, <1>8
<1>10. \A x \in Ids \ torn : Once(skillRows, x) /\ (x \in Keys(skillRows) => packages[x] # NoPackage)
  BY <1>5 DEF Agree
<1> QED BY <1>1, <1>5, <1>8, <1>9, <1>10, SkillsTurn

-----------------------------------------------------------------------------
(* The start, the forms, and the theorems.                                 *)

\* A new machine has nothing; the catalogues of one that is upgraded are made.
LEMMA InitDisk == Init => DiskInv
<1> SUFFICES ASSUME Init PROVE DiskInv
  OBVIOUS
<1>1. CASE connections = <<>> /\ rows = <<>> /\ skillRows = <<>> /\ packages = [x \in Ids |-> NoPackage]
  <2>1. /\ \A T : <<>> \in Seq(T)
        /\ DOMAIN <<>> = {} /\ <<>> \o <<>> = <<>>
    OBVIOUS
  <2>2. <<>> # NoFile
    BY <2>1, NoFileIsNoList
  <2>3. writes = <<>>
    BY <1>1, <2>1, <2>2 DEF Init, Ensure
  <2>4. FilesInv
    BY <1>1, <2>1, SlugFacts DEF FilesInv, Distinct
  <2>5. WritesInv
    BY <1>1, <2>1, <2>2, <2>3 DEF WritesInv
  <2>6. Keys(<<>>) = {} /\ \A x : Once(<<>>, x)
    BY <2>1 DEF Keys, Once
  <2>7. WillAgree
    BY <1>1, <2>3, <2>6, NothingAhead DEF WillAgree, Agree
  <2> QED BY <2>4, <2>5, <2>7 DEF DiskInv
<1>2. ASSUME NEW x \in Ids,
             connections = <<[id |-> x, conn |-> "manual", secret |-> "key", enabled |-> TRUE]>>,
             packages = [y \in Ids |-> IF y = x THEN "own" ELSE NoPackage],
             rows = NoFile, skillRows = NoFile
      PROVE  DiskInv
  <2> DEFINE e == [id |-> x, conn |-> "manual", secret |-> "key", enabled |-> TRUE]
             there == {y \in Ids : packages[y] # NoPackage}
             o == SetToSeq(there)
             r == [i \in DOMAIN connections |->
                    SkillRow(connections[i].id, connections[i].enabled, NoOne)]
             s == [i \in 1..Cardinality(there) |-> SkillRow(o[i], TRUE, NoOne)]
             a == Write("rows", r)
             b == Write("skillRows", s)
  <2>1. e \in Entry /\ e.id = x /\ e.enabled = TRUE
    BY DEF Entry, Conns
  <2>2. connections = << e >>
    BY <1>2
  <2>3. writes = <<a>> \o <<b>>
    BY <1>2 DEF Init, Ensure
  <2>4. there \subseteq Ids /\ \A y \in there : packages[y] # NoPackage
    OBVIOUS
  <2>5. /\ o \in Seq(there) /\ Len(o) = Cardinality(there) /\ Cardinality(there) \in Nat
        /\ \A i, j \in 1..Cardinality(there) : o[i] = o[j] => i = j
    <3>1. IsFiniteSet(there)
      BY CatalogAssumption, FS_Subset
    <3> HIDE DEF there
    <3> QED BY <3>1, SetToSeqFacts
  <2>6. /\ DOMAIN s = DOMAIN o /\ s = [i \in DOMAIN o |-> s[i]]
        /\ \A i \in DOMAIN o : s[i] = SkillRow(o[i], TRUE, NoOne)
    <3> HIDE DEF there, o
    <3> QED BY <2>5
  <2> HIDE DEF e
  <2>7. connections \in Seq(Entry) /\ DOMAIN connections = {1} /\ connections[1] = e /\ Len(connections) = 1
    <3>1. << e >> \in Seq(Entry) /\ DOMAIN << e >> = {1} /\ << e >>[1] = e /\ Len(<< e >>) = 1
      BY <2>1
    <3> QED BY <2>2, <3>1
  <2>8. /\ DOMAIN r = {1} /\ r = [i \in DOMAIN connections |-> r[i]]
        /\ r[1] = SkillRow(x, TRUE, NoOne)
    BY <2>1, <2>7
  <2> HIDE DEF r, s, o, there
  <2>9. SkillRow(x, TRUE, NoOne) \in Row /\ SkillRow(x, TRUE, NoOne).id = x /\ SkillRow(x, TRUE, NoOne).enabled = TRUE
    <3>1. SkillRow(x, TRUE, NoOne) \in Row
      BY SlugFacts
    <3> QED BY <3>1 DEF SkillRow
  <2>10. r \in Seq(Row)
    <3>1. \A i \in DOMAIN connections : r[i] \in Row
      BY <2>7, <2>8, <2>9
    <3> QED BY <2>7, <2>8, <3>1, Mapped
  <2>11. \A i \in DOMAIN o : s[i] \in Row /\ s[i].id = o[i] /\ o[i] \in there
    BY <2>4, <2>5, <2>6, SlugFacts DEF SkillRow
  <2>12. s \in Seq(Row)
    BY <2>5, <2>6, <2>11, Mapped
  <2>13. a \in Writes /\ b \in Writes /\ a.file = "rows" /\ a.value = r /\ b.file = "skillRows" /\ b.value = s
    <3>1. a \in Writes /\ b \in Writes
      BY <2>10, <2>12, WriteIs
    <3> QED BY <3>1 DEF Write
  <2> HIDE DEF a, b
  <2>14. writes \in Seq(Writes) /\ DOMAIN writes = {1, 2} /\ writes[1] = a /\ writes[2] = b
    <3>1. LET ws == <<a>> \o <<b>> IN
          ws \in Seq(Writes) /\ DOMAIN ws = {1, 2} /\ ws[1] = a /\ ws[2] = b
      BY <2>13, PairOfWrites
    <3> QED BY <2>3, <3>1
  <2>15. FilesInv
    <3>1. Distinct(connections)
      BY <2>7 DEF Distinct
    <3>2. packages \in [Ids -> Contents]
      BY <1>2, SlugFacts
    <3> QED BY <1>2, <2>7, <3>1, <3>2 DEF FilesInv
  <2>16. WritesInv
    <3>1. writes = Ensure(rows, skillRows)
      BY DEF Init
    <3> QED BY <1>2, <2>13, <2>14, <3>1 DEF WritesInv
  <2>17. WillAgree
    <3> SUFFICES ASSUME NEW y \in Ids \ torn PROVE Agree(y, connections, r, s, {packages[y]})
      <4>1. /\ Ahead(writes, "connections", connections) = {connections}
            /\ Ahead(writes, "rows", rows) = {r} /\ Ahead(writes, "skillRows", skillRows) = {s}
        BY <2>13, <2>14 DEF Ahead
      <4>2. \A y \in Ids : PackageAhead(writes, y, packages[y]) = {packages[y]}
        BY <2>13, <2>14 DEF PackageAhead
      <4> QED BY <4>1, <4>2 DEF WillAgree
    <3>1. Keys(connections) = {x} /\ Keys(r) = {x} /\ Once(connections, y) /\ Once(r, y)
      <4>1. Keys(connections) = {x} /\ Once(connections, y)
        BY <2>1, <2>7 DEF Keys, Once
      <4>2. Keys(r) = {x} /\ Once(r, y)
        BY <2>8, <2>9 DEF Keys, Once
      <4> QED BY <4>1, <4>2
    <3>2. RowOf(connections, x) = e /\ RowOf(r, x) = SkillRow(x, TRUE, NoOne)
      <4>1. Once(connections, x) /\ Once(r, x)
        BY <2>7, <2>8 DEF Once
      <4>2. DOMAIN connections \subseteq Nat /\ DOMAIN r \subseteq Nat
        BY <2>7, <2>8
      <4>3. 1 \in DOMAIN connections /\ connections[1].id = x /\ 1 \in DOMAIN r /\ r[1].id = x
        BY <2>1, <2>7, <2>8, <2>9
      <4>4. RowOf(connections, x) = connections[1]
        BY <4>1, <4>2, <4>3, RowOfOnce
      <4>5. RowOf(r, x) = r[1]
        BY <4>1, <4>2, <4>3, RowOfOnce
      <4> QED BY <2>7, <2>8, <4>4, <4>5
    <3>3. Once(s, y)
      BY <2>5, <2>6, <2>11 DEF Once
    <3>4. y \in Keys(s) => packages[y] # NoPackage
      BY <2>4, <2>6, <2>11 DEF Keys
    <3> QED BY <2>1, <2>9, <3>1, <3>2, <3>3, <3>4 DEF Agree
  <2> QED BY <2>15, <2>16, <2>17 DEF DiskInv
<1> QED BY <1>1, <1>2 DEF Init

\* What a tab waits for.
LEMMA FormsStay ==
  ASSUME FormsInv, UNCHANGED <<pc, job>>, torn \subseteq torn'
  PROVE  FormsInv'
BY DEF FormsInv, FormOK

\* A tab goes on, with a job that is in order.
LEMMA FormsGo ==
  ASSUME FormsInv, NEW c \in Tabs, NEW where, NEW with, Goes(c, where, with), torn' = torn,
         FormOK(where, with)
  PROVE  FormsInv'
<1>1. /\ DOMAIN pc' = Tabs /\ DOMAIN job' = Tabs
      /\ \A d \in Tabs : /\ pc'[d] = IF d = c THEN where ELSE pc[d]
                         /\ job'[d] = IF d = c THEN with ELSE job[d]
  BY DEF FormsInv, Goes
<1>2. \A d \in Tabs : FormOK(pc'[d], job'[d])
  BY <1>1 DEF FormsInv
<1>3. \A w, j : FormOK(w, j) => FormOK(w, j)'
  BY DEF FormOK
<1> QED BY <1>1, <1>2 DEF FormsInv, FormOK

\* A tab is done.
LEMMA FormsIdle ==
  ASSUME FormsInv, NEW c \in Tabs, Goes(c, "idle", NoJob), torn' = torn
  PROVE  FormsInv'
BY FormsGo DEF FormOK

\* A crash leaves the forms, and every other tab is idle.
LEMMA CrashForms == FormsInv /\ Crash => FormsInv'
<1> SUFFICES ASSUME FormsInv, Crash PROVE FormsInv'
  OBVIOUS
<1>1. /\ torn \subseteq torn'
      /\ pc' = [c \in Tabs |-> IF pc[c] \in {"connectors", "skills"} THEN pc[c] ELSE "idle"]
      /\ job' = [c \in Tabs |-> IF pc[c] \in {"connectors", "skills"} THEN job[c] ELSE NoJob]
  BY DEF Crash
<1>2. DOMAIN pc' = Tabs /\ DOMAIN job' = Tabs
  BY <1>1
<1>3. ASSUME NEW c \in Tabs PROVE FormOK(pc[c], job[c])
  BY DEF FormsInv
<1>4. ASSUME NEW c \in Tabs PROVE FormOK(pc[c], job[c])'
  <2>1. CASE pc[c] \in {"connectors", "skills"}
    <3>1. pc'[c] = pc[c] /\ job'[c] = job[c]
      BY <1>1, <2>1
    <3> QED BY <1>1, <1>3, <3>1 DEF FormOK
  <2>2. CASE pc[c] \notin {"connectors", "skills"}
    <3>1. pc'[c] = "idle"
      BY <1>1, <2>2
    <3> QED BY <3>1 DEF FormOK
  <2> QED BY <2>1, <2>2
<1> QED BY <1>2, <1>4 DEF FormsInv

\* The masked form has the names of the file.
LEMMA MaskedFacts ==
  ASSUME connections \in Seq(Entry), Distinct(connections)
  PROVE  LET t == [i \in DOMAIN connections |-> Masked(connections[i])] IN
         t \in Seq(Entry) /\ Distinct(t)
<1> DEFINE t == [i \in DOMAIN connections |-> Masked(connections[i])]
<1>1. DOMAIN t = DOMAIN connections /\ t = [i \in DOMAIN connections |-> t[i]]
  OBVIOUS
<1>2. ASSUME NEW i \in DOMAIN connections PROVE t[i] \in Entry /\ t[i].id = connections[i].id
  <2>1. connections[i] \in Entry
    OBVIOUS
  <2>2. t[i] = Masked(connections[i])
    OBVIOUS
  <2> HIDE DEF t
  <2> QED BY <2>1, <2>2 DEF Masked, Entry
<1> HIDE DEF t
<1>3. t \in Seq(Entry)
  BY <1>1, <1>2, Mapped
<1>4. Distinct(t)
  BY <1>1, <1>2, SameNames
<1> QED BY <1>3, <1>4 DEF t

-----------------------------------------------------------------------------
(* Every step, and what follows.                                           *)

\* A connector that is proposed has a name.
LEMMA ProposedIs ==
  ASSUME NEW s \in Sources, rows \in Seq(Row)
  PROVE  Proposed(s) \subseteq Ids
<1> DEFINE m == MatchInstalled(s)
<1>1. LocalId[s] \in Ids
  BY MarketAssumption
<1>2. m \subseteq DOMAIN rows /\ DOMAIN rows \subseteq Nat
  BY DEF MatchInstalled
<1> HIDE DEF m
<1>3. ASSUME m # {} PROVE rows[Min(m)].id \in Ids
  <2>1. \E i \in m : \A j \in m : i <= j
    BY <1>2, <1>3, LeastExists
  <2>2. Min(m) \in m
    BY <2>1 DEF Min
  <2>3. rows[Min(m)] \in Row
    BY <1>2, <2>2
  <2> QED BY <2>3 DEF Row
<1>4. LocalName(s) \in Ids
  BY <1>1, <1>3 DEF LocalName, m
<1> QED BY <1>4 DEF Proposed

\* A connector is asked for: installed at once, or fetched.
LEMMA AskKeeps ==
  ASSUME MarketInv, NEW c \in Tabs, NEW s \in Sources, AskConnector(c, s)
  PROVE  MarketInv'
<1>1. DiskInv /\ FormsInv /\ Quiet /\ UNCHANGED <<files, torn>>
  BY DEF MarketInv, AskConnector, Busy
<1>2. rows \in Seq(Row)
  BY <1>1, QuietFiles
<1>3. PICK id \in Proposed(s), filled \in {{}, MapInstall(Server[s]).asks} :
        \/ /\ writes' = InstallWrites(s, id, filled)
           /\ UNCHANGED <<pc, job>>
        \/ \E f : /\ Goes(c, "fetching", [of |-> s, id |-> id, filled |-> filled, fetch |-> f])
                  /\ UNCHANGED writes
  BY DEF AskConnector
<1>4. id \in Ids
  BY <1>2, <1>3, ProposedIs
<1>5. CASE writes' = InstallWrites(s, id, filled) /\ UNCHANGED <<pc, job>>
  <2>1. DiskInv'
    BY <1>1, <1>4, <1>5, InstallKeeps
  <2>2. FormsInv'
    BY <1>1, <1>5, FormsStay
  <2> QED BY <2>1, <2>2 DEF MarketInv
<1>6. ASSUME NEW f, Goes(c, "fetching", [of |-> s, id |-> id, filled |-> filled, fetch |-> f]),
             UNCHANGED writes
      PROVE  MarketInv'
  <2>1. DiskInv'
    BY <1>1, <1>6, NothingWritten
  <2>2. FormOK("fetching", [of |-> s, id |-> id, filled |-> filled, fetch |-> f])
    BY <1>4 DEF FormOK
  <2>3. FormsInv'
    BY <1>1, <1>6, <2>2, FormsGo
  <2> QED BY <2>1, <2>3 DEF MarketInv
<1> QED BY <1>3, <1>5, <1>6

\* The answer is taken: the connector is installed, or nothing is.
LEMMA AnswerKeeps ==
  ASSUME MarketInv, NEW c \in Tabs, TakeAnswer(c)
  PROVE  MarketInv'
<1>1. /\ DiskInv /\ FormsInv /\ Quiet /\ UNCHANGED <<files, torn>> /\ pc[c] = "fetching"
      /\ Goes(c, "idle", NoJob)
  BY DEF MarketInv, TakeAnswer, Busy
<1>2. job[c].of \in Sources /\ job[c].id \in Ids
  BY <1>1 DEF FormsInv, FormOK
<1>3. writes' = InstallWrites(job[c].of, job[c].id, job[c].filled) \/ writes' = <<>>
  BY DEF TakeAnswer
<1>4. DiskInv'
  <2>1. CASE writes' = InstallWrites(job[c].of, job[c].id, job[c].filled)
    BY <1>1, <1>2, <2>1, InstallKeeps
  <2>2. CASE writes' = <<>>
    BY <1>1, <2>2, EmptyTurn
  <2> QED BY <1>3, <2>1, <2>2
<1>5. FormsInv'
  BY <1>1, FormsIdle
<1> QED BY <1>4, <1>5 DEF MarketInv

\* A form that is opened holds what the files hold.
LEMMA OpenKeeps ==
  ASSUME MarketInv, NEW c \in Tabs, OpenConnectors(c) \/ OpenSkills(c)
  PROVE  MarketInv'
<1>1. DiskInv /\ FormsInv /\ Quiet /\ UNCHANGED <<files, torn, writes>>
  BY DEF MarketInv, OpenConnectors, OpenSkills, Busy
<1>2. DiskInv'
  BY <1>1, NothingWritten
<1>3. /\ connections \in Seq(Entry) /\ Distinct(connections) /\ skillRows \in Seq(Row)
      /\ \A x \in Ids \ torn : Once(skillRows, x)
  BY <1>1, QuietFiles DEF Agree
<1>4. CASE OpenConnectors(c)
  <2> DEFINE t == [i \in DOMAIN connections |-> Masked(connections[i])]
  <2>1. t \in Seq(Entry) /\ Distinct(t)
    BY <1>3, MaskedFacts
  <2>2. Goes(c, "connectors", [of |-> "form", list |-> t])
    BY <1>4 DEF OpenConnectors
  <2> HIDE DEF t
  <2>3. FormOK("connectors", [of |-> "form", list |-> t])
    BY <2>1 DEF FormOK
  <2> QED BY <1>1, <1>2, <2>2, <2>3, FormsGo DEF MarketInv
<1>5. CASE OpenSkills(c)
  <2>1. Goes(c, "skills", [of |-> "form", list |-> skillRows])
    BY <1>5 DEF OpenSkills
  <2>2. FormOK("skills", [of |-> "form", list |-> skillRows])
    BY <1>3 DEF FormOK
  <2> QED BY <1>1, <1>2, <2>1, <2>2, FormsGo DEF MarketInv
<1> QED BY <1>4, <1>5

\* The requests that end in one turn, from where a tab is idle.
LEMMA TurnsKeep ==
  ASSUME MarketInv, NEW c \in Tabs, NEW id \in Ids,
         UninstallConnector(c, id) \/ ImportSkill(c, id) \/ UninstallSkill(c, id)
  PROVE  MarketInv'
<1>1. DiskInv /\ FormsInv /\ UNCHANGED <<pc, job, torn>>
  BY DEF MarketInv, UninstallConnector, ImportSkill, UninstallSkill
<1>2. DiskInv'
  BY <1>1, UninstallKeeps, ImportKeeps, UninstallSkillKeeps
<1>3. FormsInv'
  BY <1>1, FormsStay
<1> QED BY <1>2, <1>3 DEF MarketInv

\* The requests of a tab that was waiting, or had a form open.
LEMMA SavesKeep ==
  ASSUME MarketInv, NEW c \in Tabs,
         SaveConnectors(c) \/ InstallSkill(c) \/ InstallFails(c) \/ SaveSkills(c) \/ RefuseSkills(c)
  PROVE  MarketInv'
<1>1. DiskInv /\ FormsInv /\ Goes(c, "idle", NoJob) /\ torn' = torn
  BY DEF MarketInv, SaveConnectors, InstallSkill, InstallFails, SaveSkills, RefuseSkills
<1>2. DiskInv'
  <2>1. CASE InstallFails(c)
    BY <1>1, <2>1, NothingWritten DEF InstallFails
  <2> QED BY <2>1, SaveConnectorsKeeps, InstallSkillKeeps, SaveSkillsKeeps, RefuseSkillsKeeps
<1>3. FormsInv'
  BY <1>1, FormsIdle
<1> QED BY <1>2, <1>3 DEF MarketInv

\* A skill is asked for.
LEMMA DownloadKeeps ==
  ASSUME MarketInv, NEW c \in Tabs, NEW k \in Slugs, AskSkill(c, k)
  PROVE  MarketInv'
<1>1. /\ DiskInv /\ FormsInv /\ UNCHANGED <<files, torn, writes>>
      /\ Goes(c, "downloading", [of |-> k])
  BY DEF MarketInv, AskSkill
<1>2. FormOK("downloading", [of |-> k])
  BY DEF FormOK
<1>3. DiskInv' /\ FormsInv'
  BY <1>1, <1>2, NothingWritten, FormsGo
<1> QED BY <1>3 DEF MarketInv

\* The files, the writes ahead and the forms stay in order.
LEMMA MarketStep == MarketInv /\ [Next]_vars => MarketInv'
<1> SUFFICES ASSUME MarketInv, [Next]_vars PROVE MarketInv'
  OBVIOUS
<1>1. CASE Perform
  <2>1. DiskInv'
    BY <1>1, PerformKeeps DEF MarketInv
  <2>2. FormsInv'
    BY <1>1, FormsStay DEF MarketInv, Perform
  <2> QED BY <2>1, <2>2 DEF MarketInv
<1>2. CASE Crash
  BY <1>2, CrashKeeps, CrashForms DEF MarketInv
<1>3. CASE \E c \in Tabs, s \in Sources : AskConnector(c, s)
  BY <1>3, AskKeeps
<1>4. CASE \/ \E f \in DOMAIN fetches, how \in {"answered", "failed"} : FetchEnds(f, how)
           \/ \E s \in Sources : Expire(s)
           \/ UNCHANGED vars
  <2>1. UNCHANGED <<files, torn, writes, pc, job>>
    BY <1>4 DEF FetchEnds, Expire, vars, files
  <2>2. DiskInv' /\ FormsInv'
    BY <2>1, NothingWritten, FormsStay DEF MarketInv
  <2> QED BY <2>2 DEF MarketInv
<1>5. CASE \E c \in Tabs : TakeAnswer(c)
  BY <1>5, AnswerKeeps
<1>6. CASE \E c \in Tabs : OpenConnectors(c) \/ OpenSkills(c)
  BY <1>6, OpenKeeps
<1>7. CASE \E c \in Tabs : \/ SaveConnectors(c) \/ InstallSkill(c) \/ InstallFails(c)
                           \/ SaveSkills(c) \/ RefuseSkills(c)
  BY <1>7, SavesKeep
<1>8. CASE \E c \in Tabs, x \in Ids :
             UninstallConnector(c, x) \/ ImportSkill(c, x) \/ UninstallSkill(c, x)
  BY <1>8, TurnsKeep
<1>9. CASE \E c \in Tabs, k \in Slugs : AskSkill(c, k)
  BY <1>9, DownloadKeeps
<1> QED BY <1>1, <1>2, <1>3, <1>4, <1>5, <1>6, <1>7, <1>8, <1>9 DEF Next

\* The invariant holds at the start.
LEMMA MarketInit == Init => MarketInv
<1> SUFFICES ASSUME Init PROVE MarketInv
  OBVIOUS
<1>1. FormsInv
  BY DEF Init, FormsInv, FormOK
<1> QED BY <1>1, InitDisk DEF MarketInv

\* The inductive invariant holds.
THEOREM MarketInvariant == Spec => []MarketInv
BY MarketInit, MarketStep, PTL DEF Spec

\* Whatever tabs install, remove, import and save over each other, and wherever the
\* process dies, between requests the files agree about every name no crash caught
\* between two writes (service.py, main.py, catalog.py).
THEOREM TheFilesAgree == Spec => []FilesAgree
<1>1. MarketInv => FilesAgree
  <2> SUFFICES ASSUME DiskInv, Quiet, NEW x \in Ids \ torn
               PROVE  /\ x \in Keys(connections) <=> x \in Keys(rows)
                      /\ Len(Entries(rows, x)) <= 1 /\ Len(Entries(skillRows, x)) <= 1
                      /\ x \in Keys(rows) => RowOf(rows, x).enabled = RowOf(connections, x).enabled
                      /\ x \in Keys(skillRows) => packages[x] # NoPackage
    BY DEF MarketInv, FilesAgree
  <2>1. /\ rows \in Seq(Row) /\ skillRows \in Seq(Row)
        /\ Agree(x, connections, rows, skillRows, {packages[x]})
    BY QuietFiles
  <2>2. \A list \in Seq(Row) : Once(list, x) => Len(Entries(list, x)) <= 1
    <3> SUFFICES ASSUME NEW list \in Seq(Row), Once(list, x) PROVE Len(Entries(list, x)) <= 1
      OBVIOUS
    <3>1. Read(list) = list
      BY NoFileIsNoList DEF Read
    <3> DEFINE e == Picked(list, {i \in DOMAIN list : list[i].id = x})
    <3>2. Entries(list, x) = e
      BY <3>1 DEF Entries
    <3>3. Len(e) <= 1 <=> Once(list, x)
      BY EntriesFacts
    <3> HIDE DEF e
    <3> QED BY <3>2, <3>3
  <2> QED BY <2>1, <2>2 DEF Agree
<1> QED BY <1>1, MarketInvariant, PTL

\* A secret that is there is never replaced by the mask of a form (main.py, catalog.py).
THEOREM SecretsAreKept == Spec => SecretKept
<1> DEFINE Kept0 == \A x \in Keys(connections) \cap Keys(connections') :
                      RowOf(connections, x).secret = "key" => RowOf(connections', x).secret # "***"
<1>1. MarketInv /\ [Next]_vars => [Kept0]_connections
  <2> SUFFICES ASSUME MarketInv, [Next]_vars, connections' # connections PROVE Kept0
    OBVIOUS
  <2>1. Perform
    BY DEF Next, vars, files, Crash, AskConnector, FetchEnds, Expire, TakeAnswer, OpenConnectors,
           SaveConnectors, InstallSkill, InstallFails, OpenSkills, SaveSkills, RefuseSkills,
           UninstallConnector, ImportSkill, UninstallSkill, AskSkill
  <2>2. Head(writes).file = "connections" /\ connections' = Head(writes).value
    BY <2>1 DEF Perform
  <2>3. 1 \in DOMAIN writes /\ Head(writes) = writes[1]
    BY <2>1 DEF Perform, MarketInv, DiskInv, WritesInv
  <2>4. SecretSafe(connections')
    BY <2>2, <2>3 DEF MarketInv, DiskInv, WritesInv
  <2> QED BY <2>4 DEF SecretSafe
<1> QED BY <1>1, MarketInvariant, PTL DEF Spec, SecretKept

\* What is picked is of the list, at those places.
LEMMA PickedIn ==
  ASSUME NEW s, NEW l \in Nat, NEW places, places \subseteq 1..l
  PROVE  Picked(s, places) \in Seq({s[i] : i \in places})
<1>1. PICK c \in Nat : \E p : PlacesAre(places, c, p) /\ Picked(s, places) = Along(s, c, p)
  BY PickedFacts
<1>2. PICK p : PlacesAre(places, c, p) /\ Picked(s, places) = Along(s, c, p)
  BY <1>1
<1> DEFINE T == {s[i] : i \in places}
<1>3. \A n \in 1..c : p[n] \in places
  BY <1>2 DEF PlacesAre
<1>4. \A n \in 1..c : s[p[n]] \in T
  BY <1>3
<1> HIDE DEF T
<1>5. Along(s, c, p) \in Seq(T)
  BY <1>1, <1>4 DEF Along
<1> QED BY <1>2, <1>5 DEF T

\* A run is given what was ticked, each server allowed and connected to once, or it is
\* refused: whatever the files above say (catalog.py, mcp_config.py).
THEOREM GivenIsTicked == Spec => []GivenAsTicked
<1>1. MarketInv => GivenAsTicked
  <2> SUFFICES ASSUME DiskInv, Quiet, NEW ticked \in SUBSET Ids,
                      SelectedRuntime(rows, connections, ticked).ok
               PROVE  LET r == SelectedRuntime(rows, connections, ticked) IN
                      /\ {e.id : e \in r.given} = ticked
                      /\ \A e \in r.given : AllowedByPolicy(e) /\ RowOf(rows, e.id).enabled
                      /\ \A e, g \in r.given : e.conn = g.conn => e = g
    BY DEF MarketInv, GivenAsTicked
  <2> DEFINE loaded == LoadScoped(connections)
             given == {RowOf(loaded, id) : id \in ticked}
             scoped == ConfigSources(connections)
             all == Above \o connections
             T == {Above[i] : i \in DOMAIN Above} \cup Entry
             good == {i \in DOMAIN all : Wellformed(all[i])}
             U == {all[i] : i \in good}
             places == {i \in DOMAIN scoped : AllowedByPolicy(scoped[i])}
             V == {scoped[i] : i \in places}
  <2>1. connections \in Seq(Entry)
    BY QuietFiles
  <2>2. all \in Seq(T)
    <3>1. Above \in Seq(T)
      BY CatalogAssumption
    <3>2. connections \in Seq(T)
      BY <2>1
    <3> HIDE DEF T
    <3> QED BY <3>1, <3>2
  <2>3. scoped \in Seq(U)
    <3>1. scoped = Picked(all, good)
      BY DEF ConfigSources
    <3>2. good \subseteq 1..Len(all) /\ Len(all) \in Nat
      BY <2>2
    <3> HIDE DEF all, good, scoped
    <3> QED BY <3>1, <3>2, PickedIn
  <2>4. Picked(scoped, places) \in Seq(V)
    <3> HIDE DEF scoped, U
    <3>1. places \subseteq 1..Len(scoped) /\ Len(scoped) \in Nat
      BY <2>3
    <3> HIDE DEF places
    <3> QED BY <3>1, PickedIn
  <2>5. loaded = DedupeServers(Picked(scoped, places))
    BY DEF LoadScoped
  <2>6. \A e \in V : AllowedByPolicy(e)
    OBVIOUS
  <2>7. ticked \subseteq Offered(rows) /\ ticked \subseteq Keys(loaded)
        /\ SelectedRuntime(rows, connections, ticked).given = given
    <3> HIDE DEF loaded
    <3> QED BY DEF SelectedRuntime, Refused, loaded
  <2> HIDE DEF loaded, scoped, places, V
  <2>8. /\ loaded \in Seq(V)
        /\ \A i, j \in DOMAIN loaded : loaded[i].id = loaded[j].id \/ loaded[i].conn = loaded[j].conn
                                       => i = j
    BY <2>4, <2>5, DedupeFacts
  <2>9. ASSUME NEW id \in ticked
        PROVE  \E i \in DOMAIN loaded : /\ RowOf(loaded, id) = loaded[i] /\ loaded[i].id = id
                                        /\ loaded[i] \in V
    BY <2>7, <2>8, RowOfIn
  <2>10. \A id \in ticked : RowOf(rows, id).enabled
    BY <2>7 DEF Offered
  <2>11. {e.id : e \in given} = ticked
    BY <2>9
  <2>12. \A e \in given : AllowedByPolicy(e) /\ RowOf(rows, e.id).enabled
    BY <2>6, <2>9, <2>10
  <2>13. \A e, g \in given : e.conn = g.conn => e = g
    BY <2>8, <2>9
  <2> HIDE DEF given
  <2> QED BY <2>7, <2>11, <2>12, <2>13
<1> QED BY <1>1, MarketInvariant, PTL
=============================================================================
